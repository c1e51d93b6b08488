------------------------ MODULE ChecklistEditor_proofs ------------------------
(***************************************************************************)
(* For every playbook and any number of edits: an edit that is shown and   *)
(* not sent is still to be sent, and when all is answered every edit is    *)
(* stored unless one of the four named things happened; the checklists     *)
(* that are stored then refer to conditions that exist, and the tasks of a *)
(* condition stand together.  The first part needs only which edits the    *)
(* checklists hold (IInv); the others need what is in them (LInv).         *)
(***************************************************************************)
EXTENDS ChecklistEditor, SequenceTheorems, WellFoundedInduction, TLAPS

N == used.edits

(* What any step keeps. *)
Bounds ==
    /\ used \in [edits : Nat, moves : Nat, created : Nat, trouble : Nat]
    /\ stored \in Nat
    /\ value.edits \subseteq 1..N
    /\ check.edits \subseteq 1..N
    /\ prop.edits \subseteq 1..N
    /\ server.edits \subseteq 1..N
    /\ refetch.step \in {"none", "asked", "read"}
    /\ refetch.step = "read" => refetch.doc.edits \subseteq 1..N
    /\ \A s \in saves : s.id \in Nat /\ s.doc.edits \subseteq 1..N
    /\ due \in BOOLEAN

(* What was shown when a condition was asked for. *)
Creations ==
    \A k \in creating : "shown" \in DOMAIN k /\ k.shown.edits \subseteq 1..N

Bad == {"failed", "reordered", "reverted", "closure"}

(* Saves are numbered by how many edits they hold; none has the number of  *)
(* another or of what is to be sent.                                       *)
Numbered ==
    /\ \A s \in saves : s.id \in 1..N /\ s.doc.edits = 1..s.id
    /\ \A s \in saves : s.step \in {"sent", "stored"}
    /\ \A s, t \in saves : s.id = t.id => s = t
    /\ \A s \in saves : s.step = "sent" => s.id # stored
    /\ stored \in 0..N /\ server.edits = 1..stored
    /\ due => value.edits = 1..N /\ stored < N /\ \A s \in saves : s.id < N

(* The last edit is to be sent, on its way or stored. *)
LastIsKept ==
    due \/ stored = N \/ \E s \in saves : s.step = "sent" /\ s.id = N

(* What is shown is the result of the query or what was sent last. *)
ShownIsKnown ==
    \/ due
    \/ value = prop
    \/ \E s \in saves : s.step = "sent" /\ s.id = N /\ s.doc = value
    \/ stored = N /\ server = value

(* The query is behind only while the answer of a save will repeat it. *)
QueryFollows ==
    \/ \E s \in saves : s.step = "stored"
    \/ /\ refetch.step = "none" => prop = server
       /\ refetch.step = "read" => refetch.doc = server

Clean == why \cap Bad = {} => Numbered /\ LastIsKept /\ ShownIsKnown /\ QueryFollows

IInv == Bounds /\ Creations /\ UnsentIsDue /\ Clean

-----------------------------------------------------------------------------
(* The edits of a value and the one that is added. *)
LEMMA OneMore ==
    ASSUME NEW n \in Nat
    PROVE  1..n \cup {n + 1} = 1..(n + 1)
  OBVIOUS

(* An edit keeps the invariant, also when it undoes earlier ones. *)
LEMMA SetKeeps ==
    ASSUME IInv, NEW STATE lists, NEW STATE edits, NEW STATE reasons,
           edits \subseteq 1..N,
           edits # 1..N => reasons \cap Bad # {},
           Set(lists, edits, reasons), Creations'
    PROVE  IInv'
<1>0. used \in [edits : Nat, moves : Nat, created : Nat, trouble : Nat]
  BY DEF IInv, Bounds
<1> DEFINE d == IF lists = value.lists THEN 0 ELSE 1
<1>1. d \in {0, 1} /\ used' = [used EXCEPT !.edits = @ + 1, !.moves = @ + d]
  BY DEF Set
<1> HIDE DEF d
<1>2. N \in Nat /\ used'.edits = N + 1 /\ N' = N + 1
      /\ used' \in [edits : Nat, moves : Nat, created : Nat, trouble : Nat]
  <2>1. used.edits \in Nat /\ used.moves + d \in Nat /\ used.edits + 1 \in Nat
    BY <1>0, <1>1
  <2>2. used'.edits = used.edits + 1
    BY <1>0, <1>1
  <2>3. used' \in [edits : Nat, moves : Nat, created : Nat, trouble : Nat]
    BY <1>0, <1>1, <2>1
  <2> QED BY <2>1, <2>2, <2>3 DEF N
<1>3. 1..N \subseteq 1..(N + 1) /\ N + 1 \notin 1..N
  BY <1>2
<1>4. value'.edits = edits \cup {N + 1} /\ due' = TRUE
  BY <1>2 DEF Set
<1>5. Bounds'
  BY <1>2, <1>3, <1>4 DEF IInv, Bounds, Set
<1>6. UnsentIsDue'
  <2>1. N + 1 \notin check.edits
    BY <1>3 DEF IInv, Bounds
  <2>2. value' # check'
    BY <1>4, <2>1 DEF Set
  <2> QED BY <2>2, <1>4 DEF UnsentIsDue
<1>7. ASSUME (why \cap Bad = {})' PROVE (Numbered /\ LastIsKept /\ ShownIsKnown /\ QueryFollows)'
  <2>1. why \cap Bad = {} /\ reasons \cap Bad = {}
    BY <1>7 DEF Set, Bad
  <2>2. edits = 1..N /\ Numbered /\ QueryFollows
    BY <2>1 DEF IInv, Clean
  <2>3. value'.edits = 1..(N + 1)
    BY <2>2, <1>2, <1>4, OneMore
  <2>4. Numbered'
    BY <2>2, <2>3, <1>2, <1>3, <1>4 DEF Numbered, Set
  <2>5. LastIsKept' /\ ShownIsKnown' /\ QueryFollows'
    BY <2>2, <1>4 DEF LastIsKept, ShownIsKnown, QueryFollows, Set
  <2> QED BY <2>4, <2>5
<1> QED BY <1>5, <1>6, <1>7 DEF IInv, Clean

(* So does every step that leaves documents, saves and bounds alone. *)
LEMMA OthersKeep ==
    ASSUME IInv, N' = N, Creations',
           used' \in [edits : Nat, moves : Nat, created : Nat, trouble : Nat],
           UNCHANGED <<server, prop, value, check, due, saves, refetch, stored, why>>
    PROVE  IInv'
<1>1. Bounds' /\ UnsentIsDue'
  BY DEF IInv, Bounds, UnsentIsDue
<1>2. Clean'
  BY DEF IInv, Clean, Numbered, LastIsKept, ShownIsKnown, QueryFollows, Bad
<1> QED BY <1>1, <1>2 DEF IInv

(* An edit names what it undoes when it is made to a value that lacks      *)
(* earlier edits.                                                          *)
LEMMA EditKeeps ==
    ASSUME IInv, NEW STATE lists, NEW STATE reasons, Edit(lists, reasons), Creations'
    PROVE  IInv'
<1> DEFINE all == reasons \cup (IF value.edits = 1..used.edits THEN {} ELSE {"reverted"})
<1>1. Set(lists, value.edits, all)
  BY DEF Edit
<1>2. value.edits \subseteq 1..N
  BY DEF IInv, Bounds
<1>3. value.edits # 1..N => all \cap Bad # {}
  BY DEF Bad, N
<1> HIDE DEF all
<1> QED BY <1>1, <1>2, <1>3, SetKeeps

(* The bound on what is shown when a condition is asked for grows with the *)
(* edits.                                                                  *)
LEMMA NextEdit ==
    ASSUME IInv, NEW STATE lists, NEW STATE edits, NEW STATE reasons, Set(lists, edits, reasons)
    PROVE  1..N \subseteq 1..N' /\ N \in Nat
<1> DEFINE d == IF lists = value.lists THEN 0 ELSE 1
<1>1. used' = [used EXCEPT !.edits = @ + 1, !.moves = @ + d]
  BY DEF Set
<1> HIDE DEF d
<1>2. used \in [edits : Nat, moves : Nat, created : Nat, trouble : Nat]
  BY DEF IInv, Bounds
<1>3. used'.edits = used.edits + 1 /\ used.edits \in Nat
  BY <1>1, <1>2
<1> QED BY <1>3 DEF N

LEMMA RearrangeKeeps ==
    ASSUME IInv, NEW STATE lists, NEW STATE reasons, Edit(lists, reasons), creating' = creating
    PROVE  IInv'
<1> DEFINE all == reasons \cup (IF value.edits = 1..used.edits THEN {} ELSE {"reverted"})
<1>1. Set(lists, value.edits, all)
  BY DEF Edit
<1> HIDE DEF all
<1>2. 1..N \subseteq 1..N'
  BY <1>1, NextEdit
<1>3. Creations'
  BY <1>2 DEF IInv, Creations
<1> QED BY <1>3, EditKeeps

(* The answer to a new condition replaces what is shown. *)
LEMMA CreateAnsweredKeeps ==
    ASSUME IInv, NEW k \in creating, CreateAnswered(k)
    PROVE  IInv'
<1> DEFINE lists == [k.shown.lists EXCEPT ![k.list][k.item].cond = k.cond]
           reasons == IF k.shown.edits = 1..used.edits THEN {} ELSE {"closure"}
<1>1. Set(lists, k.shown.edits, reasons) /\ creating' = creating \ {k}
  BY DEF CreateAnswered
<1>2. k.shown.edits \subseteq 1..N
  BY DEF IInv, Creations
<1>3. k.shown.edits # 1..N => reasons \cap Bad # {}
  BY DEF Bad, N
<1> HIDE DEF lists, reasons
<1>4. 1..N \subseteq 1..N'
  BY <1>1, NextEdit
<1>5. Creations'
  BY <1>1, <1>4 DEF IInv, Creations
<1> QED BY <1>1, <1>2, <1>3, <1>5, SetKeeps

LEMMA CreateStoredKeeps ==
    ASSUME IInv, NEW k \in creating, CreateStored(k)
    PROVE  IInv'
<1>1. N' = N /\ used' = used
  BY DEF CreateStored, N
<1>2. "shown" \in DOMAIN k /\ k.shown.edits \subseteq 1..N
  BY DEF IInv, Creations
<1> DEFINE l == [k EXCEPT !.step = "stored"]
<1>3. "shown" \in DOMAIN l /\ l.shown = k.shown
  BY <1>2
<1>4. creating' = (creating \ {k}) \cup {l}
  BY DEF CreateStored, Step
<1> HIDE DEF l
<1>5. Creations'
  BY <1>1, <1>2, <1>3, <1>4 DEF IInv, Creations
<1> QED BY <1>1, <1>5, OthersKeep DEF CreateStored, IInv, Bounds

(* A new condition is asked for: the checklists are remembered. *)
LEMMA CreateKeeps ==
    ASSUME IInv, NEW c, NEW i, OnCreateCondition(c, i)
    PROVE  IInv'
<1> DEFINE k == [ cond |-> 10 + used.created, list |-> c, item |-> i, shown |-> value, step |-> "sent" ]
<1>1. used \in [edits : Nat, moves : Nat, created : Nat, trouble : Nat]
  BY DEF IInv, Bounds
<1>2. used' = [used EXCEPT !.created = @ + 1]
  BY DEF OnCreateCondition
<1>3. N' = N /\ used' \in [edits : Nat, moves : Nat, created : Nat, trouble : Nat]
  BY <1>1, <1>2 DEF N
<1>4. creating' = creating \cup {k}
  BY DEF OnCreateCondition
<1>5. "shown" \in DOMAIN k /\ k.shown = value
  OBVIOUS
<1> HIDE DEF k
<1>6. Creations'
  BY <1>3, <1>4, <1>5 DEF IInv, Creations, Bounds
<1> QED BY <1>3, <1>6, OthersKeep DEF OnCreateCondition

LEMMA ConditionFailsKeeps ==
    ASSUME IInv, ConditionFails
    PROVE  IInv'
<1>1. used \in [edits : Nat, moves : Nat, created : Nat, trouble : Nat]
  BY DEF IInv, Bounds
<1>2. used' = [used EXCEPT !.trouble = @ + 1]
  BY DEF ConditionFails
<1>3. N' = N /\ used' \in [edits : Nat, moves : Nat, created : Nat, trouble : Nat]
  BY <1>1, <1>2 DEF N
<1>4. creating' \subseteq creating
  BY DEF ConditionFails
<1>5. Creations'
  BY <1>3, <1>4 DEF IInv, Creations
<1> QED BY <1>3, <1>5, OthersKeep DEF ConditionFails

-----------------------------------------------------------------------------
(* Saving. *)

LEMMA SendKeeps ==
    ASSUME IInv, Send
    PROVE  IInv'
<1>1. N' = N /\ N \in Nat /\ used' = used
  BY DEF IInv, Bounds, Send, N
<1> DEFINE s == [id |-> used.edits, doc |-> value, step |-> "sent"]
<1>2. saves' = saves \cup {s} /\ s.id = N /\ s.doc = value /\ s.step = "sent"
  BY DEF Send, N
<1> HIDE DEF s
<1>3. Bounds' /\ Creations' /\ UnsentIsDue'
  BY <1>1, <1>2 DEF IInv, Bounds, Creations, UnsentIsDue, Send
<1>4. ASSUME why \cap Bad = {} PROVE (Numbered /\ LastIsKept /\ ShownIsKnown /\ QueryFollows)'
  <2>1. Numbered /\ QueryFollows /\ value.edits = 1..N /\ stored < N /\ (\A t \in saves : t.id < N)
    BY <1>4 DEF IInv, Clean, Numbered, Send
  <2>2. Numbered'
    <3>1. stored' = stored /\ server' = server /\ ~due' /\ stored \in Nat
      BY DEF Send, IInv, Bounds
    <3>2. N \in 1..N
      BY <1>1, <2>1, <3>1
    <3>3. \A t \in saves' : t.id \in 1..N' /\ t.doc.edits = 1..t.id /\ t.step \in {"sent", "stored"}
      BY <1>1, <1>2, <2>1, <3>2 DEF Numbered
    <3>4. \A t, u \in saves' : t.id = u.id => t = u
      BY <1>1, <1>2, <2>1 DEF Numbered
    <3>5. \A t \in saves' : t.step = "sent" => t.id # stored'
      BY <1>1, <1>2, <2>1, <3>1 DEF Numbered
    <3> QED BY <1>1, <2>1, <3>1, <3>3, <3>4, <3>5 DEF Numbered
  <2>3. LastIsKept' /\ ShownIsKnown'
    BY <1>1, <1>2 DEF LastIsKept, ShownIsKnown, Send
  <2>4. QueryFollows'
    BY <1>2, <2>1 DEF QueryFollows, Send
  <2> QED BY <2>2, <2>3, <2>4
<1> QED BY <1>3, <1>4 DEF IInv, Clean, Send

LEMMA StoredKeeps ==
    ASSUME IInv, NEW s \in saves, Stored(s)
    PROVE  IInv'
<1>1. N' = N /\ N \in Nat /\ used' = used
  BY DEF IInv, Bounds, Stored, N
<1> DEFINE t == [id |-> s.id, doc |-> s.doc, step |-> "stored"]
<1>2. saves' = (saves \ {s}) \cup {t} /\ t.id = s.id /\ t.doc = s.doc /\ t.step = "stored"
  BY DEF Stored
<1> HIDE DEF t
<1>3. Bounds' /\ Creations' /\ UnsentIsDue'
  <2>1. s.id \in Nat /\ s.doc.edits \subseteq 1..N
    BY DEF IInv, Bounds
  <2> QED BY <1>1, <1>2, <2>1 DEF IInv, Bounds, Creations, UnsentIsDue, Stored
<1>4. ASSUME (why \cap Bad = {})' PROVE (Numbered /\ LastIsKept /\ ShownIsKnown /\ QueryFollows)'
  <2>1. why \cap Bad = {} /\ stored <= s.id
    BY <1>4 DEF Stored, Bad, IInv, Bounds
  <2>2. Numbered /\ LastIsKept /\ ShownIsKnown /\ s.step = "sent"
    BY <2>1 DEF IInv, Clean, Stored
  <2>3. /\ s.id \in 1..N /\ s.doc.edits = 1..s.id /\ s.id # stored
        /\ \A u \in saves : s.id = u.id => s = u
    BY <2>2 DEF Numbered
  <2>4. stored' = s.id /\ server' = s.doc /\ due' = due
    BY DEF Stored
  <2>5. Numbered'
    <3>1. \A u \in saves' : u.id \in 1..N' /\ u.doc.edits = 1..u.id /\ u.step \in {"sent", "stored"}
      BY <1>1, <1>2, <2>2, <2>3 DEF Numbered
    <3>2. \A u, v \in saves' : u.id = v.id => u = v
      BY <1>2, <2>2, <2>3 DEF Numbered
    <3>3. \A u \in saves' : u.step = "sent" => u.id # stored'
      BY <1>2, <2>2, <2>3, <2>4 DEF Numbered
    <3>4. due' => value'.edits = 1..N' /\ stored' < N' /\ \A u \in saves' : u.id < N'
      BY <1>1, <1>2, <2>2, <2>3, <2>4 DEF Numbered, Stored
    <3>5. stored' \in 0..N' /\ server'.edits = 1..stored'
      BY <1>1, <2>3, <2>4
    <3> QED BY <3>1, <3>2, <3>3, <3>4, <3>5 DEF Numbered
  <2>6. stored = N => FALSE
    BY <1>1, <2>1, <2>3
  <2>7. LastIsKept'
    BY <1>1, <1>2, <2>2, <2>4, <2>6 DEF LastIsKept
  <2>8. ShownIsKnown'
    <3>1. CASE \E u \in saves : u.step = "sent" /\ u.id = N /\ u.doc = value
      <4>1. PICK u \in saves : u.step = "sent" /\ u.id = N /\ u.doc = value
        BY <3>1
      <4>2. CASE u = s
        BY <1>1, <2>4, <4>1, <4>2 DEF ShownIsKnown, Stored
      <4>3. CASE u # s
        BY <1>1, <1>2, <4>1, <4>3 DEF ShownIsKnown, Stored
      <4> QED BY <4>2, <4>3
    <3>2. CASE due \/ value = prop
      BY <3>2 DEF ShownIsKnown, Stored
    <3> QED BY <2>2, <2>6, <3>1, <3>2 DEF ShownIsKnown
  <2>9. QueryFollows'
    BY <1>2 DEF QueryFollows
  <2> QED BY <2>5, <2>7, <2>8, <2>9
<1> QED BY <1>3, <1>4 DEF IInv, Clean

LEMMA SavedKeeps ==
    ASSUME IInv, NEW s \in saves, Saved(s)
    PROVE  IInv'
<1>1. N' = N /\ used' = used /\ saves' = saves \ {s} /\ s.step = "stored"
      /\ refetch'.step = "asked"
  BY DEF Saved, N
<1>2. Bounds' /\ Creations' /\ UnsentIsDue'
  BY <1>1 DEF IInv, Bounds, Creations, UnsentIsDue, Saved
<1>3. ASSUME why \cap Bad = {} PROVE (Numbered /\ LastIsKept /\ ShownIsKnown /\ QueryFollows)'
  <2>1. Numbered /\ LastIsKept /\ ShownIsKnown
    BY <1>3 DEF IInv, Clean
  <2>2. Numbered'
    BY <1>1, <2>1 DEF Numbered, Saved
  <2>3. LastIsKept' /\ ShownIsKnown'
    BY <1>1, <2>1 DEF LastIsKept, ShownIsKnown, Saved
  <2>4. QueryFollows'
    BY <1>1 DEF QueryFollows
  <2> QED BY <2>2, <2>3, <2>4
<1> QED BY <1>2, <1>3 DEF IInv, Clean, Saved

LEMMA SaveFailsKeeps ==
    ASSUME IInv, NEW s \in saves, SaveFails(s)
    PROVE  IInv'
<1>1. used \in [edits : Nat, moves : Nat, created : Nat, trouble : Nat]
  BY DEF IInv, Bounds
<1>2. used' = [used EXCEPT !.trouble = @ + 1]
  BY DEF SaveFails
<1>3. N' = N /\ used' \in [edits : Nat, moves : Nat, created : Nat, trouble : Nat]
  BY <1>1, <1>2 DEF N
<1>4. Bounds' /\ Creations' /\ UnsentIsDue'
  BY <1>3 DEF IInv, Bounds, Creations, UnsentIsDue, SaveFails
<1>5. why' \cap Bad # {}
  BY DEF SaveFails, Bad
<1> QED BY <1>4, <1>5 DEF IInv, Clean

LEMMA QueryReadKeeps ==
    ASSUME IInv, QueryRead
    PROVE  IInv'
<1>1. N' = N /\ used' = used /\ refetch'.step = "read" /\ refetch'.doc = server
  BY DEF QueryRead, N
<1>2. Bounds' /\ Creations' /\ UnsentIsDue'
  BY <1>1 DEF IInv, Bounds, Creations, UnsentIsDue, QueryRead
<1>3. Clean'
  BY <1>1 DEF IInv, Clean, Numbered, LastIsKept, ShownIsKnown, QueryFollows, Bad, QueryRead
<1> QED BY <1>2, <1>3 DEF IInv

LEMMA QueryAnsweredKeeps ==
    ASSUME IInv, QueryAnswered
    PROVE  IInv'
<1>1. N' = N /\ used' = used /\ refetch.step = "read"
      /\ refetch'.step = "none" /\ prop' = refetch.doc
  BY DEF QueryAnswered, N
<1>2. Bounds' /\ Creations'
  BY <1>1 DEF IInv, Bounds, Creations, QueryAnswered
<1>3. UnsentIsDue'
  BY DEF IInv, UnsentIsDue, QueryAnswered
<1>4. ASSUME why \cap Bad = {} PROVE (Numbered /\ LastIsKept /\ ShownIsKnown /\ QueryFollows)'
  <2>1. Numbered /\ LastIsKept /\ ShownIsKnown /\ QueryFollows
    BY <1>4 DEF IInv, Clean
  <2>2. due' = due /\ saves' = saves /\ stored' = stored /\ server' = server
    BY DEF QueryAnswered
  <2>3. due => value' = value
    BY DEF IInv, UnsentIsDue, QueryAnswered
  <2>4. Numbered' /\ LastIsKept'
    BY <1>1, <2>1, <2>2, <2>3 DEF Numbered, LastIsKept
  <2>5. ShownIsKnown'
    <3>1. CASE value' = value /\ prop' = prop
      BY <1>1, <2>1, <2>2, <3>1 DEF ShownIsKnown
    <3>2. CASE value' = prop'
      BY <3>2 DEF ShownIsKnown
    <3>3. CASE due
      BY <2>2, <3>3 DEF ShownIsKnown
    <3> QED BY <3>1, <3>2, <3>3 DEF IInv, UnsentIsDue, QueryAnswered
  <2>6. QueryFollows'
    BY <1>1, <2>1, <2>2 DEF QueryFollows
  <2> QED BY <2>4, <2>5, <2>6
<1> QED BY <1>2, <1>4, <1>3 DEF IInv, Clean, QueryAnswered

-----------------------------------------------------------------------------
LEMMA InitKeeps == Init => IInv
<1> SUFFICES ASSUME Init PROVE IInv
  OBVIOUS
<1>1. PICK lists \in Templates : server = [lists |-> lists, edits |-> {}]
  BY DEF Init
<1>2. server.edits = {} /\ N = 0 /\ stored = 0 /\ saves = {} /\ creating = {} /\ ~due
  BY <1>1 DEF Init, N
<1>3. used \in [edits : Nat, moves : Nat, created : Nat, trouble : Nat]
  BY DEF Init
<1>4. refetch.step = "none" /\ prop = server /\ value = server /\ check = server /\ why = {}
      /\ due \in BOOLEAN
  BY DEF Init
<1>5. 1..0 = {} /\ 0..0 = {0}
  OBVIOUS
<1> QED BY <1>2, <1>3, <1>4, <1>5 DEF IInv, Bounds, Creations, UnsentIsDue, Clean,
         Numbered, LastIsKept, ShownIsKnown, QueryFollows

(* Every edit of the checklists, and of nothing else. *)
LEMMA ItemEditKeeps ==
    ASSUME IInv, ItemEdit
    PROVE  IInv'
<1> USE RearrangeKeeps
<1>1. CASE UpdateItems
  BY <1>1 DEF UpdateItems, Rearrange
<1>2. ASSUME NEW c, OnAddChecklistItem(c) PROVE IInv'
  BY <1>2 DEF OnAddChecklistItem, Rearrange
<1>3. ASSUME NEW c, NEW i, OnDuplicateChecklistItem(c, i) PROVE IInv'
  BY <1>3 DEF OnDuplicateChecklistItem, Rearrange
<1>4. ASSUME NEW c, NEW i, OnDeleteChecklistItem(c, i) PROVE IInv'
  BY <1>4 DEF OnDeleteChecklistItem, Rearrange
<1>5. ASSUME NEW c, NEW i, OnCreateCondition(c, i) PROVE IInv'
  BY <1>5, CreateKeeps
<1>6. ASSUME NEW cond, OnDeleteCondition(cond) PROVE IInv'
  BY <1>6 DEF OnDeleteCondition
<1>7. ASSUME NEW c, NEW i, OnRemoveFromCondition(c, i) PROVE IInv'
  BY <1>6, <1>7 DEF OnRemoveFromCondition, Rearrange
<1>8. ASSUME NEW c, NEW i, NEW cond, OnMoveItemToCondition(c, i, cond) PROVE IInv'
  BY <1>8 DEF OnMoveItemToCondition, Rearrange
<1>9. ASSUME NEW c, NEW i, NEW to, NEW at, OnDragItem(c, i, to, at) PROVE IInv'
  BY <1>9 DEF OnDragItem, Rearrange
<1> QED BY <1>1, <1>2, <1>3, <1>4, <1>5, <1>7, <1>8, <1>9 DEF ItemEdit

LEMMA ChecklistEditKeeps ==
    ASSUME IInv, ChecklistEdit
    PROVE  IInv'
<1> USE RearrangeKeeps
<1>1. CASE OnAddChecklist
  BY <1>1 DEF OnAddChecklist, Rearrange
<1>2. ASSUME NEW c, OnDuplicateChecklist(c) PROVE IInv'
  BY <1>2 DEF OnDuplicateChecklist, Rearrange
<1>3. ASSUME NEW c, OnDeleteChecklist(c) PROVE IInv'
  BY <1>3 DEF OnDeleteChecklist, Rearrange
<1>4. ASSUME NEW c, NEW to, OnDragChecklist(c, to) PROVE IInv'
  BY <1>4 DEF OnDragChecklist, Rearrange
<1> QED BY <1>1, <1>2, <1>3, <1>4 DEF ChecklistEdit

LEMMA BulkEditKeeps ==
    ASSUME IInv, BulkEdit
    PROVE  IInv'
<1> USE RearrangeKeeps
<1>1. ASSUME NEW selected, HandleBulkDelete(selected) PROVE IInv'
  BY <1>1 DEF HandleBulkDelete, Rearrange
<1>2. ASSUME NEW selected, NEW cond, HandleBulkAddToCondition(selected, cond) PROVE IInv'
  BY <1>2 DEF HandleBulkAddToCondition, Rearrange
<1> QED BY <1>1, <1>2 DEF BulkEdit

(* Each action, then stuttering. *)
LEMMA NextKeeps ==
    ASSUME IInv, [Next]_vars
    PROVE  IInv'
<1>1. ASSUME NEW d \in deleting, DeleteStored(d) \/ DeleteAnswered(d) PROVE IInv'
  <2>1. UNCHANGED <<server, prop, value, check, due, saves, refetch, creating, used, stored, why>>
    BY <1>1 DEF DeleteStored, DeleteAnswered
  <2> QED BY <2>1, OthersKeep DEF IInv, Bounds, Creations, N
<1>2. CASE UNCHANGED vars
  BY <1>2, OthersKeep DEF IInv, Bounds, Creations, N, vars
<1>3. ASSUME NEW cond \in Used(value.lists), OnDeleteCondition(cond) PROVE IInv'
  BY <1>3, RearrangeKeeps DEF OnDeleteCondition
<1>4. CASE Next
  BY <1>1, <1>3, <1>4, ItemEditKeeps, ChecklistEditKeeps, BulkEditKeeps, CreateStoredKeeps,
     CreateAnsweredKeeps, ConditionFailsKeeps, SendKeeps, StoredKeeps, SavedKeeps,
     SaveFailsKeeps, QueryReadKeeps, QueryAnsweredKeeps DEF Next
<1> QED BY <1>2, <1>4

THEOREM Invariant == Spec => []IInv
<1>1. Init => IInv
  BY InitKeeps
<1>2. IInv /\ [Next]_vars => IInv'
  BY NextKeeps
<1> QED BY <1>1, <1>2, PTL DEF Spec

(* What is shown and not sent is still to be sent (useProxyState). *)
THEOREM UnsentStaysDue == Spec => []UnsentIsDue
<1>1. IInv => UnsentIsDue
  BY DEF IInv
<1> QED BY <1>1, Invariant, PTL

(* When all is answered every edit is stored and shown, unless a save      *)
(* failed, was overtaken, or an edit was made to something that lacks      *)
(* earlier ones (useProxyState, useUpdatePlaybook, onCreateCondition).     *)
THEOREM EditsGetStored == Spec => []EditsAreStored
<1>1. IInv => EditsAreStored
  <2> SUFFICES ASSUME IInv, Quiet, why \cap Bad = {}
               PROVE  server.edits = 1..used.edits /\ value = server
    BY DEF EditsAreStored, Bad
  <2>1. Numbered /\ LastIsKept /\ ShownIsKnown /\ QueryFollows
    BY DEF IInv, Clean
  <2>2. saves = {} /\ ~due /\ refetch.step = "none"
    BY DEF Quiet
  <2>3. stored = N /\ server.edits = 1..N
    BY <2>1, <2>2 DEF LastIsKept, Numbered
  <2>4. value = server
    BY <2>1, <2>2 DEF ShownIsKnown, QueryFollows
  <2> QED BY <2>3, <2>4 DEF N
<1> QED BY <1>1, Invariant, PTL

-----------------------------------------------------------------------------

(* What taking an element out of a sequence leaves, element by element.    *)
LEMMA RemoveAtIs ==
    ASSUME NEW S, NEW s \in Seq(S), NEW i \in 1..Len(s)
    PROVE  /\ RemoveAt(s, i) \in Seq(S)
           /\ Len(RemoveAt(s, i)) = Len(s) - 1
           /\ \A k \in 1..Len(s) - 1 : RemoveAt(s, i)[k] = IF k < i THEN s[k] ELSE s[k + 1]
<1> DEFINE a == SubSeq(s, 1, i - 1)
           b == SubSeq(s, i + 1, Len(s))
<1>1. Len(s) \in Nat /\ i - 1 \in Int /\ i + 1 \in Int /\ \A k \in 1..Len(s) : s[k] \in S
  BY ElementOfSeq, LenProperties
<1>2. a \in Seq(S) /\ Len(a) = i - 1 /\ \A k \in 1..i - 1 : a[k] = s[k]
  BY <1>1, SubSeqProperties
<1>3. b \in Seq(S) /\ Len(b) = Len(s) - i /\ \A k \in 1..Len(s) - i : b[k] = s[i + k]
  BY <1>1, SubSeqProperties
<1> HIDE DEF a, b
<1>4. RemoveAt(s, i) = a \o b
  BY DEF RemoveAt, a, b
<1>5. /\ a \o b \in Seq(S)
      /\ Len(a \o b) = Len(a) + Len(b)
      /\ \A k \in 1..Len(a) + Len(b) : (a \o b)[k] = IF k <= Len(a) THEN a[k] ELSE b[k - Len(a)]
  BY <1>2, <1>3, ConcatProperties
<1>6. ASSUME NEW k \in 1..Len(s) - 1 PROVE (a \o b)[k] = IF k < i THEN s[k] ELSE s[k + 1]
  <2>1. (a \o b)[k] = IF k <= i - 1 THEN a[k] ELSE b[k - (i - 1)]
    <3>1. Len(a) = i - 1 /\ Len(a) + Len(b) = Len(s) - 1
      BY <1>1, <1>2, <1>3
    <3>2. k \in 1..Len(a) + Len(b)
      BY <3>1
    <3> QED BY <1>5, <3>1, <3>2
  <2>2. CASE k < i
    BY <1>1, <1>2, <2>1, <2>2
  <2>3. CASE ~(k < i)
    <3>1. k - (i - 1) \in 1..Len(s) - i /\ i + (k - (i - 1)) = k + 1 /\ ~(k <= i - 1)
      BY <1>1, <2>3
    <3>2. b[k - (i - 1)] = s[k + 1]
      BY <1>3, <3>1
    <3> QED BY <2>1, <2>3, <3>1, <3>2
  <2> QED BY <2>2, <2>3
<1> QED BY <1>1, <1>2, <1>3, <1>4, <1>5, <1>6

(* What putting an element into a sequence gives, element by element.      *)
LEMMA InsertAtIs ==
    ASSUME NEW S, NEW s \in Seq(S), NEW i \in 1..Len(s) + 1, NEW e \in S
    PROVE  /\ InsertAt(s, i, e) \in Seq(S)
           /\ Len(InsertAt(s, i, e)) = Len(s) + 1
           /\ \A k \in 1..Len(s) + 1 : InsertAt(s, i, e)[k] =
                  IF k < i THEN s[k] ELSE IF k = i THEN e ELSE s[k - 1]
<1> DEFINE a == SubSeq(s, 1, i - 1)
           b == SubSeq(s, i, Len(s))
<1>1. Len(s) \in Nat /\ i - 1 \in Int /\ i \in Int /\ \A k \in 1..Len(s) : s[k] \in S
  BY ElementOfSeq, LenProperties
<1>2. a \in Seq(S) /\ Len(a) = i - 1 /\ \A k \in 1..i - 1 : a[k] = s[k]
  BY <1>1, SubSeqProperties
<1>3. b \in Seq(S) /\ Len(b) = Len(s) - i + 1 /\ \A k \in 1..Len(s) - i + 1 : b[k] = s[i + k - 1]
  BY <1>1, SubSeqProperties
<1>4. <<e>> \in Seq(S) /\ Len(<<e>>) = 1 /\ <<e>>[1] = e
  OBVIOUS
<1> HIDE DEF a, b
<1>5. PICK m : m = a \o <<e>>
  OBVIOUS
<1>6. /\ m \in Seq(S) /\ Len(m) = i
      /\ \A k \in 1..i : m[k] = IF k < i THEN s[k] ELSE e
  <2>1. /\ m \in Seq(S) /\ Len(m) = Len(a) + 1
        /\ \A k \in 1..Len(a) + 1 : m[k] = IF k <= Len(a) THEN a[k] ELSE <<e>>[k - Len(a)]
    BY <1>2, <1>4, <1>5, ConcatProperties
  <2> QED BY <2>1, <1>1, <1>2, <1>4
<1>7. InsertAt(s, i, e) = m \o b
  BY <1>5 DEF InsertAt, a, b
<1>8. /\ m \o b \in Seq(S) /\ Len(m \o b) = Len(m) + Len(b)
      /\ \A k \in 1..Len(m) + Len(b) : (m \o b)[k] = IF k <= Len(m) THEN m[k] ELSE b[k - Len(m)]
  BY <1>3, <1>6, ConcatProperties
<1>9. ASSUME NEW k \in 1..Len(s) + 1
      PROVE (m \o b)[k] = IF k < i THEN s[k] ELSE IF k = i THEN e ELSE s[k - 1]
  BY <1>1, <1>3, <1>6, <1>8
<1> QED BY <1>1, <1>3, <1>6, <1>7, <1>8, <1>9

(* A set of numbers has a least element: what stands in for induction      *)
(* here.                                                                   *)
LEMMA LeastOf ==
    ASSUME NEW T, T \subseteq Nat, T # {}
    PROVE  \E x \in T : \A y \in T : x <= y
<1> DEFINE R == OpToRel(<, Nat)
<1>1. IsWellFoundedOn(R, Nat)
  BY NatLessThanWellFounded
<1>2. ASSUME NEW x \in Nat, NEW y \in Nat, ~(<<y, x>> \in R) PROVE x <= y
  <2>1. ~(y < x)
    BY <1>2 DEF OpToRel
  <2> QED BY <2>1
<1> HIDE DEF R
<1>3. PICK x \in T : \A y \in T : ~(<<y, x>> \in R)
  BY <1>1, WFMin, Zenon
<1>4. \A y \in T : x <= y
  BY <1>2, <1>3
<1> QED BY <1>4

(* The greatest of some positions.                                         *)
LEMMA MaxIs ==
    ASSUME NEW n \in Nat, NEW T, T \subseteq 1..n, T # {}
    PROVE  Max(T) \in T /\ \A y \in T : Max(T) >= y
<1> DEFINE U == {m \in Nat : \A y \in T : m >= y}
<1>1. PICK m \in U : \A u \in U : m <= u
  <2>1. n \in U
    OBVIOUS
  <2>2. U \subseteq Nat /\ U # {}
    BY <2>1
  <2> HIDE DEF U
  <2> QED BY <2>2, LeastOf
<1>2. m \in T
  <2> SUFFICES ASSUME m \notin T PROVE FALSE
    OBVIOUS
  <2>1. m > 0
    <3>1. PICK y \in T : TRUE
      OBVIOUS
    <3> QED BY <3>1
  <2>2. m - 1 \in U
    BY <2>1
  <2> QED BY <2>1, <2>2, <1>1
<1>3. \E x \in T : \A y \in T : x >= y
  BY <1>2
<1> QED BY <1>3 DEF Max

(* The last task of a condition: a position of it, or 0 if it has no task. *)
LEMMA LastOfIs ==
    ASSUME NEW S, NEW items \in Seq([task : Nat, cond : S]), NEW cond
    PROVE  /\ LastOf(items, cond) \in 0..Len(items)
           /\ LastOf(items, cond) # 0 => items[LastOf(items, cond)].cond = cond
           /\ \A j \in 1..Len(items) : items[j].cond = cond => j <= LastOf(items, cond)
<1> DEFINE I == {i \in 1..Len(items) : items[i].cond = cond}
<1>1. LastOf(items, cond) = IF I # {} THEN Max(I) ELSE 0
  BY DEF LastOf, SelectLastInSeq
<1>2. Len(items) \in Nat
  OBVIOUS
<1>3. I # {} => Max(I) \in I /\ \A y \in I : Max(I) >= y
  <2>1. I \subseteq 1..Len(items)
    OBVIOUS
  <2> HIDE DEF I
  <2> QED BY <1>2, <2>1, MaxIs
<1>4. CASE I = {}
  BY <1>1, <1>2, <1>4
<1>5. CASE I # {}
  BY <1>1, <1>2, <1>3, <1>5
<1> QED BY <1>4, <1>5
-----------------------------------------------------------------------------
(* A task with a condition of S, and what it is to stand together.         *)
Item(S) == [task : Nat, cond : S]

Grouped(items) ==
    \A i, j, k \in 1..Len(items) :
        i < j /\ j < k /\ items[i].cond = items[k].cond /\ items[i].cond # NoCondition
            => items[j].cond = items[i].cond

(* The conditions before and at a place, as a dropped task sees them. *)
Before(s, at) == IF at > 1 THEN s[at - 1].cond ELSE NoCondition
Behind(s, at) == IF at <= Len(s) THEN s[at].cond ELSE NoCondition

(* A task that can be put there: it does not part the tasks of a           *)
(* condition, nor does it stand apart from those of its own.               *)
Fits(s, at, t) ==
    /\ Before(s, at) # NoCondition /\ Before(s, at) = Behind(s, at) => t.cond = Before(s, at)
    /\ \/ t.cond \in {NoCondition, Before(s, at), Behind(s, at)}
       \/ \A k \in 1..Len(s) : s[k].cond # t.cond

(* Taking a task away leaves the others together.                          *)
LEMMA RemoveGrouped ==
    ASSUME NEW S, NEW s \in Seq(Item(S)), NEW i \in 1..Len(s), Grouped(s)
    PROVE  Grouped(RemoveAt(s, i))
<1> DEFINE r == RemoveAt(s, i)
           At(k) == IF k < i THEN k ELSE k + 1
<1>1. Len(s) \in Nat /\ Len(r) = Len(s) - 1 /\ \A k \in 1..Len(s) - 1 : r[k] = s[At(k)]
  <2>1. PICK T : T = Item(S)
    OBVIOUS
  <2>2. s \in Seq(T)
    BY <2>1
  <2>3. /\ Len(r) = Len(s) - 1
        /\ \A k \in 1..Len(s) - 1 : r[k] = IF k < i THEN s[k] ELSE s[k + 1]
    BY <2>2, RemoveAtIs
  <2>4. Len(s) \in Nat
    BY <2>2, LenProperties
  <2> QED BY <2>3, <2>4
<1>2. \A k \in 1..Len(s) - 1 : At(k) \in 1..Len(s)
  BY <1>1
<1>3. \A k, l \in 1..Len(s) - 1 : k < l => At(k) < At(l)
  BY <1>1
<1> HIDE DEF r, At
<1>4. Grouped(r)
  BY <1>1, <1>2, <1>3 DEF Grouped
<1> QED BY <1>4 DEF r

(* A task that fits where it is put leaves the others together.            *)
LEMMA InsertGrouped ==
    ASSUME NEW S, NEW s \in Seq(Item(S)), NEW at \in 1..Len(s) + 1, NEW t \in Item(S),
           Grouped(s), Fits(s, at, t)
    PROVE  Grouped(InsertAt(s, at, t))
<1> DEFINE r == InsertAt(s, at, t)
<1>1. Len(s) \in Nat /\ Len(r) = Len(s) + 1
      /\ \A k \in 1..Len(s) + 1 : r[k] = IF k < at THEN s[k] ELSE IF k = at THEN t ELSE s[k - 1]
  <2>1. PICK T : T = Item(S)
    OBVIOUS
  <2>2. s \in Seq(T) /\ t \in T
    BY <2>1
  <2>3. Len(s) \in Nat
    BY <2>2
  <2> QED BY <2>2, <2>3, InsertAtIs
<1> HIDE DEF r
<1> SUFFICES ASSUME NEW i \in 1..Len(r), NEW j \in 1..Len(r), NEW k \in 1..Len(r),
                    i < j, j < k, r[i].cond = r[k].cond, r[i].cond # NoCondition
             PROVE  r[j].cond = r[i].cond
  BY DEF Grouped, r
<1>2. PICK c : c = r[i].cond
  OBVIOUS
<1>3. r[k].cond = c /\ c # NoCondition
  BY <1>2
<1>4. ASSUME NEW x \in 1..Len(s), NEW y \in 1..Len(s), NEW z \in 1..Len(s), x <= y, y <= z,
             s[x].cond = c, s[z].cond = c
      PROVE  s[y].cond = c
  BY <1>3, <1>4 DEF Grouped
<1>5. CASE i # at /\ j # at /\ k # at
  <2> DEFINE Old(n) == IF n < at THEN n ELSE n - 1
  <2>1. Old(i) \in 1..Len(s) /\ Old(j) \in 1..Len(s) /\ Old(k) \in 1..Len(s)
        /\ Old(i) <= Old(j) /\ Old(j) <= Old(k)
    BY <1>1, <1>5
  <2>2. r[i] = s[Old(i)] /\ r[j] = s[Old(j)] /\ r[k] = s[Old(k)]
    BY <1>1, <1>5
  <2> HIDE DEF Old
  <2> QED BY <1>2, <1>3, <1>4, <2>1, <2>2
<1>6. CASE j = at
  <2>1. i \in 1..Len(s) /\ k - 1 \in 1..Len(s) /\ at - 1 \in 1..Len(s) /\ at \in 1..Len(s)
        /\ i <= at - 1 /\ at - 1 <= k - 1 /\ i <= at /\ at <= k - 1
    BY <1>1, <1>6
  <2>2. r[i] = s[i] /\ r[k] = s[k - 1] /\ r[j] = t
    BY <1>1, <1>6
  <2>3. s[at - 1].cond = c /\ s[at].cond = c
    BY <1>2, <1>3, <1>4, <2>1, <2>2
  <2>4. Before(s, at) = c /\ Behind(s, at) = c
    BY <1>1, <2>1, <2>3 DEF Before, Behind
  <2> QED BY <1>2, <1>3, <2>2, <2>4 DEF Fits
<1>7. CASE i = at
  <2>1. j - 1 \in 1..Len(s) /\ k - 1 \in 1..Len(s) /\ at \in 1..Len(s) /\ at <= j - 1 /\ j - 1 <= k - 1
    BY <1>1, <1>7
  <2>2. r[i] = t /\ r[k] = s[k - 1] /\ r[j] = s[j - 1]
    BY <1>1, <1>7
  <2>3. c \in {Before(s, at), Behind(s, at)}
    BY <1>2, <1>3, <2>1, <2>2 DEF Fits
  <2>4. CASE c = Behind(s, at)
    <3>1. s[at].cond = c
      BY <2>1, <2>4 DEF Behind
    <3> QED BY <1>2, <1>3, <1>4, <2>1, <2>2, <3>1
  <2>5. CASE c = Before(s, at)
    <3>1. at - 1 \in 1..Len(s) /\ s[at - 1].cond = c /\ at - 1 <= j - 1
      BY <1>1, <1>3, <2>1, <2>5 DEF Before
    <3> QED BY <1>2, <1>3, <1>4, <2>1, <2>2, <3>1
  <2> QED BY <2>3, <2>4, <2>5
<1>8. CASE k = at
  <2>1. i \in 1..Len(s) /\ j \in 1..Len(s) /\ at - 1 \in 1..Len(s) /\ i <= j /\ j <= at - 1
    BY <1>1, <1>8
  <2>2. r[i] = s[i] /\ r[k] = t /\ r[j] = s[j]
    BY <1>1, <1>8
  <2>3. c \in {Before(s, at), Behind(s, at)}
    BY <1>2, <1>3, <2>1, <2>2 DEF Fits
  <2>4. CASE c = Behind(s, at)
    <3>1. at \in 1..Len(s) /\ s[at].cond = c /\ j <= at
      BY <1>1, <1>3, <2>1, <2>4 DEF Behind
    <3> QED BY <1>2, <1>3, <1>4, <2>1, <2>2, <3>1
  <2>5. CASE c = Before(s, at)
    <3>1. s[at - 1].cond = c
      BY <1>1, <2>1, <2>5 DEF Before
    <3> QED BY <1>2, <1>3, <1>4, <2>1, <2>2, <3>1
  <2> QED BY <2>3, <2>4, <2>5
<1> QED BY <1>5, <1>6, <1>7, <1>8

(* The fields of a task and of its copies.                                 *)
LEMMA ItemIs ==
    ASSUME NEW S, NEW t \in Item(S)
    PROVE  /\ t.cond \in S
           /\ \A c : [t EXCEPT !.cond = c].cond = c
           /\ \A R : \A c \in R : [t EXCEPT !.cond = c] \in Item(R)
           /\ \A n \in Nat : [t EXCEPT !.task = n] \in Item(S) /\ [t EXCEPT !.task = n].cond = t.cond
  BY DEF Item

(* A task of a checklist is one.                                           *)
LEMMA ItemAt ==
    ASSUME NEW S, NEW s \in Seq(Item(S)), NEW i \in 1..Len(s)
    PROVE  s[i] \in Item(S) /\ s[i].cond \in S
<1>1. s[i] \in Item(S)
  BY ElementOfSeq
<1> QED BY <1>1, ItemIs

(* Edits of one checklist: from here on each lemma says that the tasks     *)
(* still have conditions of S and, unless said otherwise, stand together.  *)
LEMMA AppendKeeps ==
    ASSUME NEW S, NEW items \in Seq(Item(S)), NEW t \in Item(S), t.cond = NoCondition
    PROVE  /\ Append(items, t) \in Seq(Item(S))
           /\ Grouped(items) => Grouped(Append(items, t))
<1>1. /\ Append(items, t) \in Seq(Item(S)) /\ Len(Append(items, t)) = Len(items) + 1 /\ Len(items) \in Nat
      /\ \A k \in 1..Len(items) : Append(items, t)[k] = items[k]
      /\ Append(items, t)[Len(items) + 1] = t
  BY AppendProperties, LenProperties
<1>2. Grouped(items) => Grouped(Append(items, t))
  BY <1>1 DEF Grouped
<1> QED BY <1>1, <1>2

(* A task that is added has no condition.                                  *)
LEMMA AddItemKeeps ==
    ASSUME NEW S, NEW items \in Seq(Item(S)), NEW task \in Nat, NoCondition \in S
    PROVE  /\ AddItem(items, task) \in Seq(Item(S))
           /\ Grouped(items) => Grouped(AddItem(items, task))
<1> DEFINE t == [task |-> task, cond |-> NoCondition]
<1>1. t \in Item(S) /\ t.cond = NoCondition
  BY DEF Item
<1>2. AddItem(items, task) = Append(items, t)
  BY DEF AddItem
<1> HIDE DEF t
<1> QED BY <1>1, <1>2, AppendKeeps

(* The copy stands next to the task.                                       *)
LEMMA DuplicateItemKeeps ==
    ASSUME NEW S, NEW items \in Seq(Item(S)), NEW task \in Nat, NEW i \in 1..Len(items)
    PROVE  /\ DuplicateItem(items, i, task) \in Seq(Item(S))
           /\ Grouped(items) => Grouped(DuplicateItem(items, i, task))
<1> DEFINE t == [items[i] EXCEPT !.task = task]
<1>1. t \in Item(S) /\ t.cond = items[i].cond
  BY ItemAt, ItemIs
<1>2. DuplicateItem(items, i, task) = InsertAt(items, i + 1, t)
  BY DEF DuplicateItem
<1> HIDE DEF t
<1>3. Fits(items, i + 1, t)
  BY <1>1 DEF Fits, Before, Behind
<1>4. i + 1 \in 1..Len(items) + 1
  OBVIOUS
<1> QED BY <1>1, <1>2, <1>3, <1>4, InsertAtIs, InsertGrouped

(* A dropped task fits: it takes the condition of its neighbours or keeps  *)
(* that of one of them.                                                    *)
LEMMA DroppedKeeps ==
    ASSUME NEW S, NEW s \in Seq(Item(S)), NEW at \in 1..Len(s) + 1, NEW t \in Item(S),
           NEW same \in BOOLEAN, NoCondition \in S
    PROVE  Dropped(s, at, t, same) \in Item(S) /\ Fits(s, at, Dropped(s, at, t, same))
<1>1. Before(s, at) \in S /\ Behind(s, at) \in S
  BY ItemAt, LenProperties DEF Before, Behind
<1>2. Dropped(s, at, t, same) =
          IF Before(s, at) # NoCondition /\ Before(s, at) = Behind(s, at)
          THEN [t EXCEPT !.cond = Before(s, at)]
          ELSE IF same /\ t.cond \in {Before(s, at), Behind(s, at)} THEN t
          ELSE [t EXCEPT !.cond = NoCondition]
  BY DEF Dropped, Before, Behind
<1>3. \A c \in S : [t EXCEPT !.cond = c] \in Item(S) /\ [t EXCEPT !.cond = c].cond = c
  BY DEF Item
<1>4. Dropped(s, at, t, same) \in Item(S)
  BY <1>1, <1>2, <1>3
<1>5. Fits(s, at, Dropped(s, at, t, same))
  BY <1>1, <1>2, <1>3 DEF Fits
<1> QED BY <1>4, <1>5

(* A task behind the last one of its condition, and not before another one *)
(* of it.                                                                  *)
LEMMA BehindLast ==
    ASSUME NEW S, NEW s \in Seq(Item(S)), NEW at \in 1..Len(s) + 1, NEW t \in Item(S), Grouped(s),
           t.cond \in {NoCondition, Before(s, at)}, Before(s, at) # Behind(s, at)
    PROVE  Grouped(InsertAt(s, at, t))
  BY InsertGrouped DEF Fits

(* A task that joins a condition goes behind the last task of it. Where    *)
(* there is none it stays in its place, which may be between two tasks of  *)
(* another one.                                                            *)
LEMMA JoinGroupKeeps ==
    ASSUME NEW S, NEW items \in Seq(Item(S)), NEW i \in 1..Len(items), NEW cond \in S,
           items[i].cond # cond
    PROVE  /\ JoinGroup(items, i, cond) \in Seq(Item(S))
           /\ Len(JoinGroup(items, i, cond)) = Len(items)
           /\ Grouped(items) /\ (\E j \in 1..Len(items) : items[j].cond = cond)
                  => /\ Grouped(JoinGroup(items, i, cond))
                     /\ \E j \in 1..Len(items) : JoinGroup(items, i, cond)[j].cond = cond
<1> DEFINE t == [items[i] EXCEPT !.cond = cond]
           last == LastOf(items, cond)
           rest == RemoveAt(items, i)
           at == IF i < last THEN last ELSE last + 1
<1>0. Len(items) \in Nat
  BY LenProperties
<1>1. t \in Item(S) /\ t.cond = cond
  BY ItemAt, ItemIs
<1>2. JoinGroup(items, i, cond) = IF last = 0 THEN ReplaceAt(items, i, t) ELSE InsertAt(rest, at, t)
  BY DEF JoinGroup, AfterGroup
<1>3. /\ last \in 0..Len(items)
      /\ last # 0 => items[last].cond = cond
      /\ \A j \in 1..Len(items) : items[j].cond = cond => j <= last
  BY LastOfIs DEF Item
<1>4. /\ rest \in Seq(Item(S)) /\ Len(rest) = Len(items) - 1
      /\ \A k \in 1..Len(items) - 1 : rest[k] = IF k < i THEN items[k] ELSE items[k + 1]
  BY RemoveAtIs
<1> HIDE DEF t, last, rest
<1>5. CASE last = 0
  <2>1. /\ ReplaceAt(items, i, t) \in Seq(Item(S))
        /\ Len(ReplaceAt(items, i, t)) = Len(items)
    BY <1>1, ExceptSeq DEF ReplaceAt
  <2>2. ~ \E j \in 1..Len(items) : items[j].cond = cond
    BY <1>0, <1>3, <1>5
  <2> QED BY <1>2, <1>5, <2>1, <2>2
<1>6. CASE last # 0
  <2>1. at \in 1..Len(rest) + 1 /\ i # last /\ last \in 1..Len(items)
    BY <1>0, <1>3, <1>4, <1>6
  <2>2. /\ InsertAt(rest, at, t) \in Seq(Item(S)) /\ Len(InsertAt(rest, at, t)) = Len(items)
        /\ InsertAt(rest, at, t)[at] = t
    <3> HIDE DEF at
    <3>1. /\ InsertAt(rest, at, t) \in Seq(Item(S)) /\ Len(InsertAt(rest, at, t)) = Len(rest) + 1
          /\ \A k \in 1..Len(rest) + 1 : InsertAt(rest, at, t)[k] =
                IF k < at THEN rest[k] ELSE IF k = at THEN t ELSE rest[k - 1]
      BY <1>1, <1>4, <2>1, InsertAtIs
    <3> QED BY <1>0, <1>4, <2>1, <3>1
  <2>3. Before(rest, at) = cond
    <3>1. CASE i < last
      <4>1. at = last /\ last > 1 /\ last - 1 \in 1..Len(items) - 1 /\ ~(last - 1 < i)
        BY <1>0, <2>1, <3>1
      <4> QED BY <1>3, <1>4, <1>6, <4>1 DEF Before
    <3>2. CASE last < i
      <4>1. at = last + 1 /\ last \in 1..Len(items) - 1 /\ last < i
        BY <1>0, <2>1, <3>2
      <4> QED BY <1>3, <1>4, <1>6, <4>1 DEF Before
    <3> QED BY <1>0, <2>1, <3>1, <3>2
  <2>4. Behind(rest, at) # Before(rest, at) \/ cond = NoCondition
    <3>1. \A j \in 1..Len(items) : j > last => items[j].cond # cond
      BY <1>0, <1>3, <2>1
    <3>2. at <= Len(rest) => \E j \in 1..Len(items) : j > last /\ rest[at] = items[j]
      <4>1. SUFFICES ASSUME at <= Len(rest) PROVE \E j \in 1..Len(items) : j > last /\ rest[at] = items[j]
        OBVIOUS
      <4>2. CASE at < i
        BY <1>0, <1>4, <2>1, <4>1, <4>2
      <4>3. CASE ~(at < i)
        <5>1. at + 1 \in 1..Len(items) /\ at + 1 > last /\ rest[at] = items[at + 1]
          BY <1>0, <1>4, <2>1, <4>1, <4>3
        <5> QED BY <5>1
      <4> QED BY <4>2, <4>3
    <3> QED BY <2>3, <3>1, <3>2 DEF Behind
  <2>5. ASSUME Grouped(items) PROVE Grouped(InsertAt(rest, at, t))
    <3>1. Grouped(rest)
      BY <2>5, RemoveGrouped DEF rest
    <3>2. CASE cond = NoCondition
      BY <1>1, <1>4, <2>1, <2>3, <3>1, <3>2, InsertGrouped DEF Fits
    <3>3. CASE cond # NoCondition
      BY <1>1, <1>4, <2>1, <2>3, <2>4, <3>1, <3>3, BehindLast
    <3> QED BY <3>2, <3>3
  <2>6. at \in 1..Len(items)
    BY <1>0, <1>4, <2>1
  <2> QED BY <1>1, <1>2, <1>6, <2>2, <2>5, <2>6
<1> QED BY <1>5, <1>6

(* A task that leaves its condition goes behind the last task of it,       *)
(* unless it is that one itself and tasks follow: then it is put one place *)
(* too far.                                                                *)
LEMMA LeaveGroupKeeps ==
    ASSUME NEW S, NEW items \in Seq(Item(S)), NEW i \in 1..Len(items), NoCondition \in S,
           \E j \in (1..Len(items)) \ {i} : items[j].cond = items[i].cond
    PROVE  /\ LeaveGroup(items, i) \in Seq(Item(S))
           /\ Grouped(items) /\ ~(i = LastOf(items, items[i].cond) /\ i < Len(items))
                  => Grouped(LeaveGroup(items, i))
<1> DEFINE t == [items[i] EXCEPT !.cond = NoCondition]
           cond == items[i].cond
           last == LastOf(items, cond)
           rest == RemoveAt(items, i)
           at == IF i < last THEN last ELSE last + 1
<1>0. Len(items) \in Nat /\ DOMAIN items = 1..Len(items)
  BY LenProperties
<1>1. t \in Item(S) /\ t.cond = NoCondition
  BY ItemAt, ItemIs
<1>2. LeaveGroup(items, i) = IF at > Len(items) THEN Append(rest, t) ELSE InsertAt(rest, at, t)
  BY <1>0 DEF LeaveGroup
<1>3. /\ last \in 0..Len(items)
      /\ last # 0 => items[last].cond = cond
      /\ \A j \in 1..Len(items) : items[j].cond = cond => j <= last
  BY LastOfIs DEF Item
<1>4. /\ rest \in Seq(Item(S)) /\ Len(rest) = Len(items) - 1
      /\ \A k \in 1..Len(items) - 1 : rest[k] = IF k < i THEN items[k] ELSE items[k + 1]
  BY RemoveAtIs
<1>5. i <= last
  BY <1>3
<1>6. Grouped(items) => Grouped(rest)
  BY RemoveGrouped
<1> HIDE DEF t, last, rest
<1>7. CASE at > Len(items)
  BY <1>1, <1>2, <1>4, <1>6, <1>7, AppendKeeps
<1>8. CASE ~(at > Len(items))
  <2>1. at \in 1..Len(rest) + 1
    BY <1>0, <1>3, <1>4, <1>5, <1>8
  <2>2. InsertAt(rest, at, t) \in Seq(Item(S))
    BY <1>1, <1>4, <2>1, InsertAtIs
  <2>3. ASSUME Grouped(items), ~(i = last /\ i < Len(items)) PROVE Grouped(InsertAt(rest, at, t))
    <3>1. i < last /\ at = last
      BY <1>0, <1>3, <1>5, <1>8, <2>3
    <3>2. Before(rest, at) = cond
      <4>1. last > 1 /\ last - 1 \in 1..Len(items) - 1 /\ ~(last - 1 < i)
        BY <1>0, <1>3, <3>1
      <4> QED BY <1>3, <1>4, <3>1, <4>1 DEF Before
    <3>3. last \in 1..Len(items) /\ (last <= Len(rest) => last + 1 \in 1..Len(items) /\ rest[last] = items[last + 1])
      BY <1>0, <1>3, <1>4, <3>1
    <3>4. cond # NoCondition => Behind(rest, at) # cond
      BY <1>0, <1>3, <1>4, <3>1, <3>3 DEF Behind
    <3>5. Fits(rest, at, t)
      BY <1>1, <3>2, <3>4 DEF Fits
    <3> QED BY <1>1, <1>4, <1>6, <2>1, <2>3, <3>5, InsertGrouped
  <2> QED BY <1>2, <1>8, <2>2, <2>3 DEF last
<1> QED BY <1>7, <1>8

-----------------------------------------------------------------------------
(* A value that each step takes from one set to the next. *)
LEMMA Reached ==
    ASSUME NEW n \in Nat, NEW P, NEW h, h[0] \in P[0],
           \A k \in 1..n : h[k - 1] \in P[k - 1] => h[k] \in P[k]
    PROVE  \A k \in 0..n : h[k] \in P[k]
<1> DEFINE T == {k \in 0..n : h[k] \notin P[k]}
<1>1. SUFFICES ASSUME T # {} PROVE FALSE
  OBVIOUS
<1>2. T \subseteq Nat
  OBVIOUS
<1>3. PICK k \in T : \A y \in T : k <= y
  <2> HIDE DEF T
  <2> QED BY <1>1, <1>2, LeastOf
<1>4. k \in 1..n /\ k - 1 \notin T /\ k - 1 \in 0..n
  BY <1>3
<1> QED BY <1>3, <1>4

(* The values of a recursive function on 0..n: they exist when every step  *)
(* leads from one set to the next.                                         *)
Steps(n, P, f) == \A k \in 1..n : \A x \in P[k - 1] : f[k][x] \in P[k]

Iterates(g, n, P, a, f) ==
    /\ g = [k \in 0..n |-> g[k]]
    /\ g[0] = a /\ \A k \in 1..n : g[k] = f[k][g[k - 1]]
    /\ \A k \in 0..n : g[k] \in P[k]

(* They exist when every step leads from one set to the next.              *)
LEMMA Iterated ==
    ASSUME NEW n \in Nat, NEW P, NEW a, a \in P[0], NEW f, Steps(n, P, f)
    PROVE  \E g : Iterates(g, n, P, a, f)
<1> DEFINE Is(g, m) == /\ g = [k \in 0..m |-> g[k]]
                       /\ g[0] = a /\ \A k \in 1..m : g[k] = f[k][g[k - 1]]
                       /\ \A k \in 0..m : g[k] \in P[k]
           T == {m \in 0..n : ~ \E g : Is(g, m)}
<1>1. SUFFICES ASSUME T # {} PROVE FALSE
  <2>1. n \in 0..n
    OBVIOUS
  <2>2. (\E g : Is(g, n)) => \E g : Iterates(g, n, P, a, f)
    BY DEF Iterates
  <2> HIDE DEF Is
  <2> QED BY <2>1, <2>2
<1>2. T \subseteq Nat
  OBVIOUS
<1>3. PICK m \in T : \A y \in T : m <= y
  <2> HIDE DEF T
  <2> QED BY <1>1, <1>2, LeastOf
<1>4. m \in 0..n /\ ~ \E g : Is(g, m)
  BY <1>3
<1>5. CASE m = 0
  <2>1. Is([k \in 0..0 |-> a], 0)
    OBVIOUS
  <2> HIDE DEF Is
  <2> QED BY <1>4, <1>5, <2>1
<1>6. CASE m # 0
  <2>1. m - 1 \in 0..n /\ m - 1 \notin T
    <3>1. m - 1 \in 0..n /\ ~(m <= m - 1)
      BY <1>4, <1>6
    <3> HIDE DEF T
    <3> QED BY <1>3, <3>1
  <2>2. PICK g : Is(g, m - 1)
    <3> HIDE DEF Is
    <3> QED BY <2>1
  <2> DEFINE e == [k \in 0..m |-> IF k = m THEN f[m][g[m - 1]] ELSE g[k]]
  <2>3. m \in 1..n /\ m - 1 \in 0..m - 1 /\ g[m - 1] \in P[m - 1]
    BY <1>4, <1>6, <2>2
  <2>4. f[m][g[m - 1]] \in P[m]
    BY <2>3 DEF Steps
  <2>5. ASSUME NEW k \in 1..m PROVE e[k] = f[k][e[k - 1]]
    <3>1. CASE k = m
      BY <1>6, <2>3, <3>1
    <3>2. CASE k # m
      <4>1. k \in 1..m - 1 /\ k - 1 \in 0..m /\ k - 1 # m /\ k \in 0..m
        BY <2>3, <3>2
      <4> QED BY <2>2, <3>2, <4>1
    <3> QED BY <3>1, <3>2
  <2>6. e[0] = a
    BY <1>6, <2>2, <2>3
  <2>7. ASSUME NEW k \in 0..m PROVE e[k] \in P[k]
    BY <2>2, <2>3, <2>4
  <2>8. e = [k \in 0..m |-> e[k]]
    OBVIOUS
  <2>9. Is(e, m)
    <3> HIDE DEF e
    <3> QED BY <2>5, <2>6, <2>7, <2>8
  <2> HIDE DEF Is
  <2> QED BY <1>4, <2>9
<1> QED BY <1>5, <1>6

(* One step of Without and of Joined, at position n + 1 - k.               *)
WithoutStep(x, k, n, gone) ==
    LET i == n + 1 - k IN IF i \in gone THEN RemoveAt(x, i) ELSE x

(* Deleting from the last position up.                                     *)
LEMMA WithoutKeeps ==
    ASSUME NEW S, NEW items \in Seq(Item(S)), NEW gone
    PROVE  /\ Without(items, gone) \in Seq(Item(S))
           /\ Grouped(items) => Grouped(Without(items, gone))
<1>0. PICK n : n = Len(items) /\ n \in Nat
  BY LenProperties
<1> DEFINE Q(m) == {s \in Seq(Item(S)) : Len(s) >= m /\ (Grouped(items) => Grouped(s))}
           P == [k \in 0..n |-> Q(n - k)]
           f == [k \in 1..n |-> [x \in P[k - 1] |-> WithoutStep(x, k, n, gone)]]
           Rec(h) == h = [k \in 0..n |-> IF k = 0 THEN items ELSE WithoutStep(h[k - 1], k, n, gone)]
           h == CHOOSE h : Rec(h)
<1>1. ASSUME NEW k \in 1..n, NEW x \in Q(n - (k - 1)) PROVE WithoutStep(x, k, n, gone) \in Q(n - k)
  <2>1. x \in Seq(Item(S)) /\ Len(x) >= n - (k - 1) /\ (Grouped(items) => Grouped(x)) /\ Len(x) \in Nat
    BY <1>0, <1>1
  <2>2. n + 1 - k \in 1..Len(x)
    BY <1>0, <2>1
  <2>3. RemoveAt(x, n + 1 - k) \in Seq(Item(S)) /\ Len(RemoveAt(x, n + 1 - k)) = Len(x) - 1
        /\ (Grouped(items) => Grouped(RemoveAt(x, n + 1 - k)))
    BY <2>1, <2>2, RemoveAtIs, RemoveGrouped
  <2> QED BY <1>0, <2>1, <2>3 DEF WithoutStep
<1>2. items \in Q(n)
  BY <1>0
<1> HIDE DEF Q
<1>3. P[0] = Q(n) /\ \A k \in 1..n : P[k] = Q(n - k) /\ P[k - 1] = Q(n - (k - 1))
  BY <1>0
<1>4. \A k \in 1..n : \A x \in P[k - 1] : f[k][x] = WithoutStep(x, k, n, gone)
                                          /\ WithoutStep(x, k, n, gone) \in P[k]
  BY <1>1, <1>3
<1> HIDE DEF P, f
<1>5. \E g : Rec(g)
  <2>1. Steps(n, P, f)
    BY <1>4 DEF Steps
  <2>2. PICK g : Iterates(g, n, P, items, f)
    <3>1. n \in Nat /\ items \in P[0]
      BY <1>0, <1>2, <1>3
    <3> QED BY <2>1, <3>1, Iterated
  <2>3. ASSUME NEW k \in 1..n PROVE g[k] = WithoutStep(g[k - 1], k, n, gone)
    <3>1. k - 1 \in 0..n
      BY <1>0
    <3> QED BY <1>4, <2>2, <3>1 DEF Iterates
  <2>4. g = [k \in 0..n |-> IF k = 0 THEN items ELSE WithoutStep(g[k - 1], k, n, gone)]
    <3>1. \A k \in 0..n : k = 0 \/ k \in 1..n
      BY <1>0
    <3> QED BY <2>2, <2>3, <3>1 DEF Iterates
  <2> QED BY <2>4
<1>6. Rec(h)
  BY <1>5
<1>7. Without(items, gone) = h[n]
  BY <1>0 DEF Without, WithoutStep
<1>8. h[0] = items /\ \A k \in 1..n : h[k] = WithoutStep(h[k - 1], k, n, gone)
  <2> HIDE DEF h
  <2> QED BY <1>0, <1>6
<1> HIDE DEF h
<1>9. \A k \in 0..n : h[k] \in P[k]
  <2>1. h[0] \in P[0]
    BY <1>2, <1>3, <1>8
  <2>2. \A k \in 1..n : h[k - 1] \in P[k - 1] => h[k] \in P[k]
    BY <1>4, <1>8
  <2> QED BY <1>0, <2>1, <2>2, Reached
<1>10. h[n] \in Q(0)
  <2>1. n \in 0..n /\ n - n = 0 /\ (n = 0 \/ n \in 1..n)
    BY <1>0
  <2> QED BY <1>3, <1>9, <2>1
<1> QED BY <1>7, <1>10 DEF Q

(* See WithoutStep.                                                        *)
JoinedStep(x, k, n, joining, cond) ==
    LET i == n + 1 - k IN IF i \in joining /\ x[i].cond # cond THEN JoinGroup(x, i, cond) ELSE x

(* Joining from the last position up, where a task of the condition is     *)
(* there already.                                                          *)
LEMMA JoinedKeeps ==
    ASSUME NEW S, NEW items \in Seq(Item(S)), NEW joining, NEW cond \in S
    PROVE  /\ Joined(items, joining, cond) \in Seq(Item(S))
           /\ Grouped(items) /\ (joining # {} => \E j \in 1..Len(items) : items[j].cond = cond)
                  => Grouped(Joined(items, joining, cond))
<1>0. PICK n : n = Len(items) /\ n \in Nat
  BY LenProperties
<1> DEFINE Apart(s) == Grouped(s) /\ (joining # {} => \E j \in 1..Len(s) : s[j].cond = cond)
           Q == {s \in Seq(Item(S)) : Len(s) = n /\ (Apart(items) => Apart(s))}
           P == [k \in 0..n |-> Q]
           f == [k \in 1..n |-> [x \in P[k - 1] |-> JoinedStep(x, k, n, joining, cond)]]
           Rec(h) == h = [k \in 0..n |-> IF k = 0 THEN items ELSE JoinedStep(h[k - 1], k, n, joining, cond)]
           h == CHOOSE h : Rec(h)
<1>1. ASSUME NEW k \in 1..n, NEW x \in Q PROVE JoinedStep(x, k, n, joining, cond) \in Q
  <2>1. PICK i : i = n + 1 - k
    OBVIOUS
  <2>2. i \in 1..Len(x) /\ x \in Seq(Item(S)) /\ Len(x) = n /\ (Apart(items) => Apart(x))
    BY <1>0, <1>1, <2>1
  <2> HIDE DEF Apart
  <2>3. ASSUME i \in joining, x[i].cond # cond PROVE JoinGroup(x, i, cond) \in Q
    <3>1. /\ JoinGroup(x, i, cond) \in Seq(Item(S))
          /\ Len(JoinGroup(x, i, cond)) = Len(x)
          /\ Grouped(x) /\ (\E j \in 1..Len(x) : x[j].cond = cond)
                  => /\ Grouped(JoinGroup(x, i, cond))
                     /\ \E j \in 1..Len(x) : JoinGroup(x, i, cond)[j].cond = cond
      BY <2>2, <2>3, JoinGroupKeeps
    <3>2. Apart(x) => Apart(JoinGroup(x, i, cond))
      BY <2>3, <3>1 DEF Apart
    <3> QED BY <2>2, <3>1, <3>2
  <2> QED BY <1>1, <2>1, <2>3 DEF JoinedStep
<1>2. items \in Q
  BY <1>0
<1> HIDE DEF Q, Apart
<1>3. P[0] = Q /\ \A k \in 1..n : P[k] = Q /\ P[k - 1] = Q
  BY <1>0
<1>4. \A k \in 1..n : \A x \in P[k - 1] : f[k][x] = JoinedStep(x, k, n, joining, cond)
                                          /\ JoinedStep(x, k, n, joining, cond) \in P[k]
  BY <1>1, <1>3
<1> HIDE DEF P, f
<1>5. \E g : Rec(g)
  <2>1. Steps(n, P, f)
    BY <1>4 DEF Steps
  <2>2. PICK g : Iterates(g, n, P, items, f)
    <3>1. n \in Nat /\ items \in P[0]
      BY <1>0, <1>2, <1>3
    <3> QED BY <2>1, <3>1, Iterated
  <2>3. ASSUME NEW k \in 1..n PROVE g[k] = JoinedStep(g[k - 1], k, n, joining, cond)
    <3>1. k - 1 \in 0..n
      BY <1>0
    <3> QED BY <1>4, <2>2, <3>1 DEF Iterates
  <2>4. g = [k \in 0..n |-> IF k = 0 THEN items ELSE JoinedStep(g[k - 1], k, n, joining, cond)]
    <3>1. \A k \in 0..n : k = 0 \/ k \in 1..n
      BY <1>0
    <3> QED BY <2>2, <2>3, <3>1 DEF Iterates
  <2> QED BY <2>4
<1>6. Rec(h)
  BY <1>5
<1>7. Joined(items, joining, cond) = h[n]
  BY <1>0 DEF Joined, JoinedStep
<1>8. h[0] = items /\ \A k \in 1..n : h[k] = JoinedStep(h[k - 1], k, n, joining, cond)
  <2> HIDE DEF h
  <2> QED BY <1>0, <1>6
<1> HIDE DEF h
<1>9. \A k \in 0..n : h[k] \in P[k]
  <2>1. h[0] \in P[0]
    BY <1>2, <1>3, <1>8
  <2>2. \A k \in 1..n : h[k - 1] \in P[k - 1] => h[k] \in P[k]
    BY <1>4, <1>8
  <2> QED BY <1>0, <2>1, <2>2, Reached
<1>10. h[n] \in Q
  <2>1. n \in 0..n /\ (n = 0 \/ n \in 1..n)
    BY <1>0
  <2> QED BY <1>3, <1>9, <2>1
<1> QED BY <1>7, <1>10 DEF Q, Apart

-----------------------------------------------------------------------------
(* Checklists whose tasks have conditions of S and, where g says so, stand *)
(* together.                                                               *)
Items(S, g) == {s \in Seq(Item(S)) : g => Grouped(s)}
Lists(S, g) == Seq(Items(S, g))

(* What is known of such checklists.                                       *)
LEMMA ListsAre ==
    ASSUME NEW S, NEW g \in BOOLEAN, NEW lists \in Lists(S, g)
    PROVE  /\ Len(lists) \in Nat /\ DOMAIN lists = 1..Len(lists)
           /\ \A c \in 1..Len(lists) :
                /\ lists[c] \in Items(S, g) /\ lists[c] \in Seq(Item(S))
                /\ g => Grouped(lists[c])
                /\ Len(lists[c]) \in Nat /\ DOMAIN lists[c] = 1..Len(lists[c])
                /\ \A i \in 1..Len(lists[c]) : lists[c][i] \in Item(S) /\ lists[c][i].cond \in S
<1>1. Len(lists) \in Nat /\ DOMAIN lists = 1..Len(lists)
  BY LenProperties DEF Lists
<1>2. ASSUME NEW c \in 1..Len(lists)
      PROVE  /\ lists[c] \in Items(S, g) /\ lists[c] \in Seq(Item(S))
             /\ g => Grouped(lists[c])
  <2>1. lists[c] \in Items(S, g)
    <3> HIDE DEF Items
    <3> QED BY ElementOfSeq DEF Lists
  <2> QED BY <2>1 DEF Items
<1>3. ASSUME NEW c \in 1..Len(lists)
      PROVE  /\ Len(lists[c]) \in Nat /\ DOMAIN lists[c] = 1..Len(lists[c])
             /\ \A i \in 1..Len(lists[c]) : lists[c][i] \in Item(S) /\ lists[c][i].cond \in S
  BY <1>2, LenProperties, ItemAt
<1> QED BY <1>1, <1>2, <1>3

(* They satisfy the definition the editor is checked against.              *)
LEMMA ListsTogether ==
    ASSUME NEW S, NEW lists \in Lists(S, TRUE)
    PROVE  Together(lists)
<1>1. DOMAIN lists = 1..Len(lists)
      /\ \A c \in 1..Len(lists) : Grouped(lists[c]) /\ DOMAIN lists[c] = 1..Len(lists[c])
  <2>1. PICK g \in BOOLEAN : g
    OBVIOUS
  <2>2. lists \in Lists(S, g)
    BY <2>1
  <2>3. DOMAIN lists = 1..Len(lists)
        /\ \A c \in 1..Len(lists) : (g => Grouped(lists[c])) /\ DOMAIN lists[c] = 1..Len(lists[c])
    BY <2>2, ListsAre
  <2> QED BY <2>1, <2>3
<1> QED BY <1>1 DEF Together, Grouped

(* They use no other conditions.                                           *)
LEMMA ListsUse ==
    ASSUME NEW S, NEW g \in BOOLEAN, NEW lists \in Lists(S, g)
    PROVE  Used(lists) \subseteq S \ {NoCondition}
<1>1. DOMAIN lists = 1..Len(lists)
      /\ \A c \in 1..Len(lists) :
           DOMAIN lists[c] = 1..Len(lists[c]) /\ \A i \in 1..Len(lists[c]) : lists[c][i].cond \in S
  BY ListsAre
<1> QED BY <1>1 DEF Used, UsedIn

(* Checklists as a playbook has them at first are such checklists.         *)
LEMMA ListsOf ==
    ASSUME NEW S, NEW g \in BOOLEAN, NEW lists \in Seq(Seq(Item(S))), g => Together(lists)
    PROVE  lists \in Lists(S, g)
<1>1. DOMAIN lists = 1..Len(lists) /\ Len(lists) \in Nat
      /\ \A c \in 1..Len(lists) : lists[c] \in Seq(Item(S))
  <2>1. PICK T : T = Seq(Item(S))
    OBVIOUS
  <2>2. lists \in Seq(T)
    BY <2>1
  <2>3. DOMAIN lists = 1..Len(lists) /\ Len(lists) \in Nat /\ \A c \in 1..Len(lists) : lists[c] \in T
    BY <2>2, LenProperties, ElementOfSeq
  <2> QED BY <2>1, <2>3
<1>2. ASSUME NEW c \in 1..Len(lists) PROVE lists[c] \in Items(S, g)
  <2>1. DOMAIN lists[c] = 1..Len(lists[c])
    BY <1>1, LenProperties
  <2>2. c \in DOMAIN lists /\ lists[c] \in Seq(Item(S))
    BY <1>1
  <2>3. ASSUME g PROVE Grouped(lists[c])
    BY <2>1, <2>2, <2>3 DEF Together, Grouped
  <2> QED BY <2>2, <2>3 DEF Items
<1>3. lists = [c \in 1..Len(lists) |-> lists[c]]
  BY <1>1
<1> HIDE DEF Items
<1>4. [c \in 1..Len(lists) |-> lists[c]] \in Seq(Items(S, g))
  BY <1>1, <1>2, IsASeq
<1> QED BY <1>3, <1>4 DEF Lists

(* More conditions, or no claim that the tasks stand together. *)
LEMMA ListsGrow ==
    ASSUME NEW S, NEW R, NEW g \in BOOLEAN, NEW h \in BOOLEAN, S \subseteq R, h => g,
           NEW lists \in Lists(S, g)
    PROVE  lists \in Lists(R, h)
<1>1. Item(S) \subseteq Item(R)
  BY DEF Item
<1>2. \A T, U : T \subseteq U => Seq(T) \subseteq Seq(U)
  BY SeqMonotonic
<1>3. Seq(Item(S)) \subseteq Seq(Item(R))
  BY <1>1, <1>2
<1>4. Items(S, g) \subseteq Items(R, h)
  BY <1>3 DEF Items
<1> HIDE DEF Items
<1>5. Seq(Items(S, g)) \subseteq Seq(Items(R, h))
  BY <1>2, <1>4
<1> QED BY <1>5 DEF Lists

-----------------------------------------------------------------------------
(* What every edit keeps: of which conditions the tasks are, and that they *)
(* stand together.                                                         *)
(* One checklist replaced.                                                 *)
With(lists, c, items) == [lists EXCEPT ![c] = items]

(* Replacing one checklist.                                                *)
LEMMA WithItems ==
    ASSUME NEW S, NEW g \in BOOLEAN, NEW lists \in Lists(S, g), NEW c \in 1..Len(lists),
           NEW items \in Items(S, g)
    PROVE  /\ With(lists, c, items) \in Lists(S, g)
           /\ Len(With(lists, c, items)) = Len(lists)
           /\ \A d \in 1..Len(lists) : With(lists, c, items)[d] = IF d = c THEN items ELSE lists[d]
<1>1. PICK T : T = Items(S, g)
  OBVIOUS
<1>2. lists \in Seq(T) /\ items \in T
  BY <1>1 DEF Lists
<1> QED BY <1>1, <1>2, ExceptSeq DEF Lists, With

(* The edits of one checklist, in its place among the others.              *)
LEMMA AddItemInList ==
    ASSUME NEW S, NEW g \in BOOLEAN, NEW lists \in Lists(S, g), NEW c \in 1..Len(lists),
           NoCondition \in S, NEW task \in Nat
    PROVE  With(lists, c, AddItem(lists[c], task)) \in Lists(S, g)
<1>1. AddItem(lists[c], task) \in Items(S, g)
  BY ListsAre, AddItemKeeps DEF Items
<1> QED BY <1>1, WithItems

(* A task and its copy.                                                    *)
LEMMA DuplicateItemInList ==
    ASSUME NEW S, NEW g \in BOOLEAN, NEW lists \in Lists(S, g), NEW c \in 1..Len(lists),
           NEW i \in 1..Len(lists[c]), NEW task \in Nat
    PROVE  With(lists, c, DuplicateItem(lists[c], i, task)) \in Lists(S, g)
<1>1. DuplicateItem(lists[c], i, task) \in Items(S, g)
  BY ListsAre, DuplicateItemKeeps DEF Items
<1> QED BY <1>1, WithItems

(* Taking a task away.                                                     *)
LEMMA ItemsWithout ==
    ASSUME NEW S, NEW g \in BOOLEAN, NEW items \in Items(S, g), NEW i \in 1..Len(items)
    PROVE  RemoveAt(items, i) \in Items(S, g)
<1>1. items \in Seq(Item(S)) /\ (g => Grouped(items))
  BY DEF Items
<1>2. RemoveAt(items, i) \in Seq(Item(S))
  BY <1>1, RemoveAtIs
<1>3. g => Grouped(RemoveAt(items, i))
  BY <1>1, RemoveGrouped
<1> QED BY <1>2, <1>3 DEF Items

(* A task that is deleted.                                                 *)
LEMMA DeleteItemInList ==
    ASSUME NEW S, NEW g \in BOOLEAN, NEW lists \in Lists(S, g), NEW c \in 1..Len(lists),
           NEW i \in 1..Len(lists[c])
    PROVE  With(lists, c, RemoveAt(lists[c], i)) \in Lists(S, g)
<1>1. RemoveAt(lists[c], i) \in Items(S, g)
  BY ListsAre, ItemsWithout
<1> QED BY <1>1, WithItems

(* Putting a task where it fits.                                           *)
LEMMA ItemsWith ==
    ASSUME NEW S, NEW g \in BOOLEAN, NEW items \in Items(S, g), NEW at \in 1..Len(items) + 1,
           NEW t \in Item(S), g => Fits(items, at, t)
    PROVE  InsertAt(items, at, t) \in Items(S, g)
<1>1. items \in Seq(Item(S)) /\ (g => Grouped(items))
  BY DEF Items
<1>2. InsertAt(items, at, t) \in Seq(Item(S))
  <2>1. PICK T : T = Item(S)
    OBVIOUS
  <2>2. items \in Seq(T) /\ t \in T
    BY <1>1, <2>1
  <2> QED BY <2>1, <2>2, InsertAtIs
<1>3. g => Grouped(InsertAt(items, at, t))
  BY <1>1, InsertGrouped
<1> QED BY <1>2, <1>3 DEF Items

(* A task that is dragged, within a checklist or to another one.           *)
LEMMA DragItemKeeps ==
    ASSUME NEW S, NEW g \in BOOLEAN, NEW lists \in Lists(S, g), NoCondition \in S,
           NEW from \in 1..Len(lists), NEW i \in 1..Len(lists[from]),
           NEW to \in 1..Len(lists), NEW at \in 1..Len(lists[to]) + 1,
           from = to => at <= Len(lists[to])
    PROVE  DragItem(lists, from, i, to, at) \in Lists(S, g)
<1> DEFINE t == lists[from][i]
           rest == RemoveAt(lists[from], i)
<1>1. /\ lists[from] \in Seq(Item(S)) /\ Len(lists[from]) \in Nat /\ t \in Item(S)
      /\ lists[to] \in Items(S, g) /\ lists[to] \in Seq(Item(S)) /\ lists[from] \in Items(S, g)
  BY ListsAre
<1>2. rest \in Items(S, g)
  BY <1>1, ItemsWithout
<1>3. rest \in Seq(Item(S)) /\ Len(rest) = Len(lists[from]) - 1
  BY <1>1, RemoveAtIs
<1> HIDE DEF t, rest
<1>4. CASE from = to
  <2>1. at \in 1..Len(rest) + 1
    BY <1>1, <1>3, <1>4
  <2>2. Dropped(rest, at, t, TRUE) \in Item(S) /\ Fits(rest, at, Dropped(rest, at, t, TRUE))
    BY <1>1, <1>3, <2>1, DroppedKeeps
  <2>3. PICK x : x = InsertAt(rest, at, Dropped(rest, at, t, TRUE))
    OBVIOUS
  <2>4. x \in Items(S, g)
    BY <1>2, <2>1, <2>2, <2>3, ItemsWith
  <2>5. DragItem(lists, from, i, to, at) = With(lists, from, x)
    BY <1>4, <2>3 DEF DragItem, With, t, rest
  <2> QED BY <2>4, <2>5, WithItems
<1>5. CASE from # to
  <2>1. PICK x : x = InsertAt(lists[to], at, Dropped(lists[to], at, t, FALSE))
    OBVIOUS
  <2>2. Dropped(lists[to], at, t, FALSE) \in Item(S) /\ Fits(lists[to], at, Dropped(lists[to], at, t, FALSE))
    BY <1>1, DroppedKeeps
  <2>3. x \in Items(S, g)
    BY <1>1, <2>1, <2>2, ItemsWith
  <2>4. PICK ls : ls = With(lists, from, rest)
    OBVIOUS
  <2>5. ls \in Lists(S, g) /\ Len(ls) = Len(lists) /\ ls[to] = lists[to]
    BY <1>2, <1>5, <2>4, WithItems
  <2>6. DragItem(lists, from, i, to, at) = With(ls, to, x)
    BY <1>5, <2>1, <2>4, <2>5 DEF DragItem, With, t, rest
  <2> QED BY <2>3, <2>5, <2>6, WithItems
<1> QED BY <1>4, <1>5

(* A new checklist is empty.                                               *)
LEMMA AddChecklistKeeps ==
    ASSUME NEW S, NEW g \in BOOLEAN, NEW lists \in Lists(S, g)
    PROVE  Append(lists, <<>>) \in Lists(S, g)
<1>1. <<>> \in Items(S, g)
  BY DEF Items, Grouped
<1>2. PICK T, e : T = Items(S, g) /\ e = <<>>
  OBVIOUS
<1>3. lists \in Seq(T) /\ e \in T
  BY <1>1, <1>2 DEF Lists
<1>4. Append(lists, e) \in Seq(T)
  BY <1>3, AppendProperties
<1> QED BY <1>2, <1>4 DEF Lists

(* A checklist that is deleted.                                            *)
LEMMA DeleteChecklistKeeps ==
    ASSUME NEW S, NEW g \in BOOLEAN, NEW lists \in Lists(S, g), NEW c \in 1..Len(lists)
    PROVE  RemoveAt(lists, c) \in Lists(S, g) /\ Len(RemoveAt(lists, c)) = Len(lists) - 1
  BY RemoveAtIs DEF Lists

(* A checklist that is dragged.                                            *)
LEMMA MoveChecklistKeeps ==
    ASSUME NEW S, NEW g \in BOOLEAN, NEW lists \in Lists(S, g),
           NEW from \in 1..Len(lists), NEW to \in 1..Len(lists)
    PROVE  Move(lists, from, to) \in Lists(S, g)
<1>1. PICK rest : rest = RemoveAt(lists, from)
  OBVIOUS
<1>2. rest \in Lists(S, g) /\ Len(rest) = Len(lists) - 1 /\ lists[from] \in Items(S, g)
      /\ Len(lists) \in Nat
  BY <1>1, DeleteChecklistKeeps, ListsAre
<1>3. to \in 1..Len(rest) + 1
  BY <1>2
<1>4. InsertAt(rest, to, lists[from]) \in Lists(S, g)
  <2>1. PICK T, e : T = Items(S, g) /\ e = lists[from]
    OBVIOUS
  <2>2. rest \in Seq(T) /\ e \in T
    BY <1>2, <2>1 DEF Lists
  <2>3. InsertAt(rest, to, e) \in Seq(T)
    BY <1>3, <2>2, InsertAtIs
  <2> QED BY <2>1, <2>3 DEF Lists
<1> QED BY <1>1, <1>4 DEF Move

(* The copy of a checklist has the conditions of the original.             *)
LEMMA DuplicateChecklistKeeps ==
    ASSUME NEW S, NEW g \in BOOLEAN, NEW lists \in Lists(S, g), NEW c \in 1..Len(lists),
           NEW task \in Nat
    PROVE  DuplicateChecklist(lists, c, task) \in Lists(S, g)
<1> DEFINE copy == [i \in DOMAIN lists[c] |-> [lists[c][i] EXCEPT !.task = task + i]]
<1>1. /\ lists[c] \in Seq(Item(S)) /\ Len(lists[c]) \in Nat /\ DOMAIN lists[c] = 1..Len(lists[c])
      /\ g => Grouped(lists[c])
      /\ \A i \in 1..Len(lists[c]) : lists[c][i] \in Item(S)
  BY ListsAre
<1>2. ASSUME NEW i \in 1..Len(lists[c])
      PROVE  copy[i] \in Item(S) /\ copy[i].cond = lists[c][i].cond
  <2>1. task + i \in Nat
    BY <1>1
  <2>2. copy[i] = [lists[c][i] EXCEPT !.task = task + i]
    BY <1>1
  <2> HIDE DEF copy
  <2> QED BY <1>1, <2>1, <2>2, ItemIs
<1>3. copy = [i \in 1..Len(lists[c]) |-> copy[i]]
  BY <1>1
<1> HIDE DEF copy
<1>4. copy \in Seq(Item(S)) /\ Len(copy) = Len(lists[c])
  <2>1. PICK n, T : n = Len(lists[c]) /\ T = Item(S)
    OBVIOUS
  <2>2. n \in Nat /\ copy = [i \in 1..n |-> copy[i]] /\ \A i \in 1..n : copy[i] \in T
    BY <1>1, <1>2, <1>3, <2>1
  <2>3. copy \in Seq(T)
    BY <2>2, IsASeq
  <2>4. Len(copy) = n
    BY <2>2, <2>3, LenProperties
  <2> QED BY <2>1, <2>3, <2>4
<1>5. copy \in Items(S, g)
  <2>1. ASSUME g PROVE Grouped(copy)
    BY <1>1, <1>2, <1>4, <2>1 DEF Grouped
  <2> QED BY <1>4, <2>1 DEF Items
<1>6. DuplicateChecklist(lists, c, task) = Append(lists, copy)
  BY DEF DuplicateChecklist, copy
<1>7. PICK T : T = Items(S, g)
  OBVIOUS
<1>8. Append(lists, copy) \in Seq(T)
  BY <1>5, <1>7, AppendProperties DEF Lists
<1> QED BY <1>6, <1>7, <1>8 DEF Lists

(* A task that leaves its condition.                                       *)
LEMMA LeaveInList ==
    ASSUME NEW S, NEW g \in BOOLEAN, NEW lists \in Lists(S, g), NEW c \in 1..Len(lists),
           NEW i \in 1..Len(lists[c]), NoCondition \in S,
           \E j \in (1..Len(lists[c])) \ {i} : lists[c][j].cond = lists[c][i].cond,
           g => ~(i = LastOf(lists[c], lists[c][i].cond) /\ i < Len(lists[c]))
    PROVE  With(lists, c, LeaveGroup(lists[c], i)) \in Lists(S, g)
<1>1. PICK items : items = lists[c]
  OBVIOUS
<1>2. /\ items \in Seq(Item(S)) /\ (g => Grouped(items)) /\ i \in 1..Len(items)
      /\ \E j \in (1..Len(items)) \ {i} : items[j].cond = items[i].cond
      /\ g => ~(i = LastOf(items, items[i].cond) /\ i < Len(items))
  BY <1>1, ListsAre
<1>3. /\ LeaveGroup(items, i) \in Seq(Item(S))
      /\ Grouped(items) /\ ~(i = LastOf(items, items[i].cond) /\ i < Len(items))
                  => Grouped(LeaveGroup(items, i))
  BY <1>2, LeaveGroupKeeps
<1>4. LeaveGroup(items, i) \in Items(S, g)
  BY <1>2, <1>3 DEF Items
<1> QED BY <1>1, <1>4, WithItems

(* The last checklist with a task of a condition that is used.             *)
LEMMA LastListIs ==
    ASSUME NEW S, NEW g \in BOOLEAN, NEW lists \in Lists(S, g), NEW cond \in Used(lists)
    PROVE  /\ LastListWith(lists, cond) \in 1..Len(lists)
           /\ \E j \in 1..Len(lists[LastListWith(lists, cond)]) :
                lists[LastListWith(lists, cond)][j].cond = cond
<1> DEFINE I == {c \in 1..Len(lists) : cond \in UsedIn(lists[c])}
<1>1. LastListWith(lists, cond) = IF I # {} THEN Max(I) ELSE 0
  BY DEF LastListWith, SelectLastInSeq
<1>2. Len(lists) \in Nat /\ DOMAIN lists = 1..Len(lists)
      /\ \A c \in 1..Len(lists) : DOMAIN lists[c] = 1..Len(lists[c])
  BY ListsAre
<1>3. I # {} /\ I \subseteq 1..Len(lists)
  BY <1>2 DEF Used
<1>4. \A c \in I : c \in 1..Len(lists) /\ \E j \in 1..Len(lists[c]) : lists[c][j].cond = cond
  BY <1>2 DEF UsedIn
<1> HIDE DEF I
<1>5. Max(I) \in I
  BY <1>2, <1>3, MaxIs
<1> QED BY <1>1, <1>3, <1>4, <1>5

(* A task that joins a condition that has tasks, here or in another        *)
(* checklist.                                                              *)
LEMMA MoveItemKeeps ==
    ASSUME NEW S, NEW g \in BOOLEAN, NEW lists \in Lists(S, g), NEW c \in 1..Len(lists),
           NEW i \in 1..Len(lists[c]), NEW cond \in Used(lists), lists[c][i].cond # cond
    PROVE  MoveItemToCondition(lists, c, i, cond) \in Lists(S, g)
<1>1. PICK target : target = LastListWith(lists, cond)
  OBVIOUS
<1>2. target \in 1..Len(lists) /\ \E j \in 1..Len(lists[target]) : lists[target][j].cond = cond
  BY <1>1, LastListIs
<1>3. cond \in S /\ cond # NoCondition
  BY ListsUse
<1>4. /\ lists[c] \in Seq(Item(S)) /\ (g => Grouped(lists[c])) /\ lists[c][i] \in Item(S)
      /\ lists[c] \in Items(S, g)
      /\ lists[target] \in Seq(Item(S)) /\ (g => Grouped(lists[target]))
      /\ lists[target] \in Items(S, g) /\ Len(lists[target]) \in Nat
  BY <1>2, ListsAre
<1>5. CASE target = c
  <2>1. /\ JoinGroup(lists[c], i, cond) \in Seq(Item(S))
        /\ g => Grouped(JoinGroup(lists[c], i, cond))
    BY <1>2, <1>3, <1>4, <1>5, JoinGroupKeeps
  <2>2. JoinGroup(lists[c], i, cond) \in Items(S, g)
    BY <2>1 DEF Items
  <2>3. MoveItemToCondition(lists, c, i, cond) = With(lists, c, JoinGroup(lists[c], i, cond))
    BY <1>1, <1>5 DEF MoveItemToCondition, With
  <2> QED BY <2>2, <2>3, WithItems
<1>6. CASE target # c
  <2>1. PICK s : s = lists[target]
    OBVIOUS
  <2>2. PICK last : last = LastOf(s, cond)
    OBVIOUS
  <2>3. PICK t : t = [lists[c][i] EXCEPT !.cond = cond]
    OBVIOUS
  <2>4. s \in Seq(Item(S)) /\ s \in Items(S, g) /\ (g => Grouped(s)) /\ Len(s) \in Nat
        /\ \E j \in 1..Len(s) : s[j].cond = cond
    BY <1>2, <1>4, <2>1
  <2>5. t \in Item(S) /\ t.cond = cond
    BY <1>3, <1>4, <2>3, ItemIs
  <2>6. last \in 0..Len(s) /\ (last # 0 => s[last].cond = cond)
        /\ \A j \in 1..Len(s) : s[j].cond = cond => j <= last
    BY <2>2, <2>4, LastOfIs DEF Item
  <2>7. last \in 1..Len(s) /\ s[last].cond = cond
    <3>1. PICK n \in Nat : n = Len(s)
      BY <2>4
    <3>2. PICK j \in 1..n : j <= last
      BY <2>4, <2>6, <3>1
    <3>3. last \in 0..n
      BY <2>6, <3>1
    <3>4. last \in 1..n /\ last # 0
      BY <3>1, <3>2, <3>3
    <3> QED BY <2>6, <3>1, <3>4
  <2>8. last + 1 \in 1..Len(s) + 1 /\ Before(s, last + 1) = cond
    BY <2>4, <2>7 DEF Before
  <2>9. Behind(s, last + 1) # cond
    BY <1>3, <2>4, <2>6, <2>7 DEF Behind
  <2>10. Fits(s, last + 1, t)
    BY <2>5, <2>8, <2>9 DEF Fits
  <2>11. InsertAt(s, last + 1, t) \in Items(S, g)
    BY <2>4, <2>5, <2>8, <2>10, ItemsWith
  <2>12. PICK ls : ls = With(lists, c, RemoveAt(lists[c], i))
    OBVIOUS
  <2>13. ls \in Lists(S, g) /\ Len(ls) = Len(lists) /\ ls[target] = s
    <3>1. RemoveAt(lists[c], i) \in Items(S, g)
      BY <1>4, ItemsWithout
    <3> QED BY <1>2, <1>6, <2>1, <2>12, <3>1, WithItems
  <2>14. PICK x : x = InsertAt(s, last + 1, t)
    OBVIOUS
  <2>15. target \notin {0, c}
    BY <1>2, <1>6
  <2>16. MoveItemToCondition(lists, c, i, cond) =
            [lists EXCEPT ![c] = RemoveAt(@, i),
                          ![target] = InsertAt(@, LastOf(@, cond) + 1, [lists[c][i] EXCEPT !.cond = cond])]
    BY <1>1, <2>15 DEF MoveItemToCondition
  <2>17. MoveItemToCondition(lists, c, i, cond) = With(ls, target, x)
    BY <1>2, <1>6, <2>1, <2>2, <2>3, <2>12, <2>13, <2>14, <2>16 DEF With
  <2> QED BY <1>2, <2>11, <2>13, <2>14, <2>17, WithItems
<1> QED BY <1>5, <1>6

(* No task has the condition any more, and the others stand together as    *)
(* before.                                                                 *)
LEMMA ClearConditionKeeps ==
    ASSUME NEW S, NEW g \in BOOLEAN, NEW lists \in Lists(S, g), NEW cond
    PROVE  ClearCondition(lists, cond) \in Lists((S \ {cond}) \cup {NoCondition}, g)
<1> DEFINE R == (S \ {cond}) \cup {NoCondition}
           cleared == ClearCondition(lists, cond)
           Of(c, i) == IF lists[c][i].cond = cond THEN [lists[c][i] EXCEPT !.cond = NoCondition]
                       ELSE lists[c][i]
<1>1. /\ Len(lists) \in Nat /\ DOMAIN lists = 1..Len(lists)
      /\ \A c \in 1..Len(lists) :
            /\ Len(lists[c]) \in Nat /\ DOMAIN lists[c] = 1..Len(lists[c])
            /\ g => Grouped(lists[c])
            /\ \A i \in 1..Len(lists[c]) : lists[c][i] \in Item(S)
  BY ListsAre
<1>2. /\ cleared = [c \in 1..Len(lists) |-> cleared[c]]
      /\ \A c \in 1..Len(lists) : cleared[c] = [i \in 1..Len(lists[c]) |-> Of(c, i)]
  BY <1>1 DEF ClearCondition
<1> HIDE DEF cleared
<1>3. ASSUME NEW c \in 1..Len(lists), NEW i \in 1..Len(lists[c])
      PROVE  Of(c, i) \in Item(R) /\ Of(c, i).cond = IF lists[c][i].cond = cond THEN NoCondition ELSE lists[c][i].cond
  <2>1. lists[c][i] \in Item(S)
    BY <1>1
  <2>2. CASE lists[c][i].cond = cond
    <3>1. PICK t : t = lists[c][i]
      OBVIOUS
    <3>2. Of(c, i) = [t EXCEPT !.cond = NoCondition] /\ NoCondition \in R
      BY <2>2, <3>1
    <3>3. [t EXCEPT !.cond = NoCondition].cond = NoCondition
          /\ [t EXCEPT !.cond = NoCondition] \in Item(R)
      BY <2>1, <3>1, <3>2 DEF Item
    <3> QED BY <2>2, <3>2, <3>3
  <2>3. CASE lists[c][i].cond # cond
    BY <2>1, <2>3 DEF Item
  <2> QED BY <2>2, <2>3
<1> HIDE DEF R, Of
<1>4. ASSUME NEW c \in 1..Len(lists) PROVE cleared[c] \in Items(R, g)
  <2>1. cleared[c] \in Seq(Item(R)) /\ Len(cleared[c]) = Len(lists[c])
    <3>1. PICK n, T, s : n = Len(lists[c]) /\ T = Item(R) /\ s = cleared[c]
      OBVIOUS
    <3>2. n \in Nat /\ s = [i \in 1..n |-> Of(c, i)] /\ \A i \in 1..n : Of(c, i) \in T
      BY <1>1, <1>2, <1>3, <3>1
    <3>3. s \in Seq(T)
      BY <3>2, IsASeq
    <3>4. Len(s) = n
      BY <3>2, <3>3, LenProperties
    <3> QED BY <3>1, <3>3, <3>4
  <2>2. ASSUME g PROVE Grouped(cleared[c])
    <3>1. \A i \in 1..Len(lists[c]) : cleared[c][i].cond =
              IF lists[c][i].cond = cond THEN NoCondition ELSE lists[c][i].cond
      BY <1>2, <1>3
    <3>2. Grouped(lists[c])
      BY <1>1, <2>2
    <3> QED BY <2>1, <3>1, <3>2 DEF Grouped
  <2> QED BY <2>1, <2>2 DEF Items
<1>5. cleared \in Lists(R, g)
  <2>1. PICK n, T : n = Len(lists) /\ T = Items(R, g)
    OBVIOUS
  <2>2. n \in Nat /\ cleared = [c \in 1..n |-> cleared[c]] /\ \A c \in 1..n : cleared[c] \in T
    BY <1>1, <1>2, <1>4, <2>1
  <2>3. cleared \in Seq(T)
    BY <2>2, IsASeq
  <2> QED BY <2>1, <2>3 DEF Lists
<1> QED BY <1>5 DEF cleared, R

(* An edit of every checklist by itself. *)
LEMMA EachKeeps ==
    ASSUME NEW S, NEW g \in BOOLEAN, NEW n \in Nat, NEW lists, lists = [c \in 1..n |-> lists[c]],
           \A c \in 1..n : lists[c] \in Items(S, g)
    PROVE  lists \in Lists(S, g)
<1>1. PICK T : T = Items(S, g)
  OBVIOUS
<1>2. lists \in Seq(T)
  BY <1>1, IsASeq
<1> QED BY <1>1, <1>2 DEF Lists

(* The selected tasks are deleted.                                         *)
LEMMA BulkDeleteKeeps ==
    ASSUME NEW S, NEW g \in BOOLEAN, NEW lists \in Lists(S, g), NEW selected
    PROVE  BulkDelete(lists, selected) \in Lists(S, g)
<1>1. PICK edited : edited = BulkDelete(lists, selected)
  OBVIOUS
<1>2. Len(lists) \in Nat /\ DOMAIN lists = 1..Len(lists)
      /\ \A c \in 1..Len(lists) : lists[c] \in Seq(Item(S)) /\ (g => Grouped(lists[c]))
  BY ListsAre
<1>3. ASSUME NEW c \in 1..Len(lists) PROVE edited[c] \in Items(S, g)
  <2>1. edited[c] = Without(lists[c], SelectedIn(selected, c))
    BY <1>1, <1>2 DEF BulkDelete
  <2>2. lists[c] \in Seq(Item(S)) /\ (g => Grouped(lists[c]))
    BY <1>2
  <2>3. /\ Without(lists[c], SelectedIn(selected, c)) \in Seq(Item(S))
        /\ g => Grouped(Without(lists[c], SelectedIn(selected, c)))
    BY <2>2, WithoutKeeps
  <2> QED BY <2>1, <2>3 DEF Items
<1>4. edited = [c \in 1..Len(lists) |-> edited[c]]
  BY <1>1, <1>2 DEF BulkDelete
<1> QED BY <1>1, <1>2, <1>3, <1>4, EachKeeps

(* Only where a task of the condition is already do the tasks that join it *)
(* stand together with it.                                                 *)
LEMMA BulkAddKeeps ==
    ASSUME NEW S, NEW g \in BOOLEAN, NEW lists \in Lists(S, g), NEW selected, NEW cond \in S,
           g => \A p \in selected : cond \in UsedIn(lists[p[1]])
    PROVE  BulkAddToCondition(lists, selected, cond) \in Lists(S, g)
<1>1. PICK edited : edited = BulkAddToCondition(lists, selected, cond)
  OBVIOUS
<1>2. Len(lists) \in Nat /\ DOMAIN lists = 1..Len(lists)
      /\ \A c \in 1..Len(lists) : lists[c] \in Seq(Item(S)) /\ (g => Grouped(lists[c]))
  BY ListsAre
<1>3. ASSUME NEW c \in 1..Len(lists) PROVE edited[c] \in Items(S, g)
  <2>1. PICK items, joining : items = lists[c] /\ joining = SelectedIn(selected, c)
    OBVIOUS
  <2>2. edited[c] = Joined(items, joining, cond)
    BY <1>1, <1>2, <2>1 DEF BulkAddToCondition
  <2>3. items \in Seq(Item(S)) /\ (g => Grouped(items)) /\ DOMAIN items = 1..Len(items)
    BY <1>2, <2>1, LenProperties
  <2>4. Joined(items, joining, cond) \in Seq(Item(S))
    BY <2>3, JoinedKeeps
  <2>5. ASSUME g PROVE Grouped(Joined(items, joining, cond))
    <3>1. ASSUME joining # {} PROVE \E j \in 1..Len(items) : items[j].cond = cond
      <4>1. PICK p \in selected : p[1] = c
        BY <2>1, <3>1 DEF SelectedIn
      <4>2. cond \in UsedIn(items)
        BY <2>1, <2>5, <4>1
      <4> QED BY <2>3, <4>2 DEF UsedIn
    <3> QED BY <2>3, <2>5, <3>1, JoinedKeeps
  <2> QED BY <2>2, <2>4, <2>5 DEF Items
<1>4. edited = [c \in 1..Len(lists) |-> edited[c]]
  BY <1>1, <1>2 DEF BulkAddToCondition
<1> QED BY <1>1, <1>2, <1>3, <1>4, EachKeeps

(* The conditions a playbook has at first are those its checklists use.    *)
LEMMA UseOf ==
    ASSUME NEW S, NEW g \in BOOLEAN, NEW lists \in Lists(S, g)
    PROVE  /\ lists \in Lists(Used(lists) \cup {NoCondition}, g)
<1>1. /\ Len(lists) \in Nat /\ DOMAIN lists = 1..Len(lists)
      /\ \A c \in 1..Len(lists) :
            /\ Len(lists[c]) \in Nat /\ DOMAIN lists[c] = 1..Len(lists[c])
            /\ lists[c] \in Seq(Item(S))
            /\ g => Grouped(lists[c])
            /\ \A i \in 1..Len(lists[c]) : lists[c][i] \in Item(S)
  BY ListsAre
<1>2. PICK R : R = Used(lists) \cup {NoCondition}
  OBVIOUS
<1>3. ASSUME NEW c \in 1..Len(lists), NEW i \in 1..Len(lists[c]) PROVE lists[c][i] \in Item(R)
  <2>1. lists[c][i] \in Item(S)
    BY <1>1
  <2>2. lists[c][i].cond \in R
    <3>1. PICK x : x = lists[c][i].cond
      OBVIOUS
    <3>2. x # NoCondition => x \in UsedIn(lists[c])
      BY <1>1, <3>1 DEF UsedIn
    <3>3. x # NoCondition => x \in Used(lists)
      BY <1>1, <3>2 DEF Used
    <3> QED BY <1>2, <3>1, <3>3
  <2> QED BY <2>1, <2>2 DEF Item
<1>4. ASSUME NEW c \in 1..Len(lists) PROVE lists[c] \in Items(R, g)
  <2>1. PICK n, T, s : n = Len(lists[c]) /\ T = Item(R) /\ s = lists[c]
    OBVIOUS
  <2>2. n \in Nat /\ s \in Seq(Item(S)) /\ n = Len(s) /\ \A i \in 1..n : s[i] \in T
    BY <1>1, <1>3, <2>1
  <2>3. s = [i \in 1..n |-> s[i]]
    BY <2>2, LenProperties
  <2>4. [i \in 1..n |-> s[i]] \in Seq(T)
    BY <2>2, IsASeq
  <2> QED BY <1>1, <2>1, <2>3, <2>4 DEF Items
<1>5. lists = [c \in 1..Len(lists) |-> lists[c]]
  <2>1. PICK T : T = Items(S, g)
    OBVIOUS
  <2>2. lists \in Seq(T)
    BY <2>1 DEF Lists
  <2> QED BY <2>2, LenProperties
<1> QED BY <1>1, <1>2, <1>4, <1>5, EachKeeps

(* A task without a condition gets one that no other task has. *)
LEMMA FirstOfCondition ==
    ASSUME NEW S, NEW g \in BOOLEAN, NEW lists \in Lists(S, g), NEW c \in 1..Len(lists),
           NEW i \in 1..Len(lists[c]), lists[c][i].cond = NoCondition,
           NEW cond, cond \notin S
    PROVE  [lists EXCEPT ![c][i].cond = cond] \in Lists(S \cup {cond}, g)
<1>1. PICK items, t : items = lists[c] /\ t = [items[i] EXCEPT !.cond = cond]
  OBVIOUS
<1>2. PICK R : R = S \cup {cond}
  OBVIOUS
<1>3. lists \in Lists(R, g)
  BY <1>2, ListsGrow
<1>4. /\ items \in Seq(Item(R)) /\ (g => Grouped(items)) /\ items[i] \in Item(R)
      /\ Len(items) \in Nat /\ i \in 1..Len(items)
  BY <1>1, <1>3, ListsAre
<1>5. \A j \in 1..Len(items) : items[j].cond # cond
  <2>1. \A j \in 1..Len(lists[c]) : lists[c][j].cond \in S
    BY ListsAre
  <2> QED BY <1>1, <2>1
<1>6. items[i].cond = NoCondition
  BY <1>1
<1>7. t \in Item(R) /\ t.cond = cond
  BY <1>1, <1>2, <1>4, ItemIs
<1>8. PICK s : s = [items EXCEPT ![i] = t]
  OBVIOUS
<1>9. s \in Seq(Item(R)) /\ Len(s) = Len(items)
      /\ \A j \in 1..Len(items) : s[j] = IF j = i THEN t ELSE items[j]
  <2>1. PICK T : T = Item(R)
    OBVIOUS
  <2>2. items \in Seq(T) /\ t \in T
    BY <1>4, <1>7, <2>1
  <2> QED BY <1>4, <1>8, <2>1, <2>2, ExceptSeq
<1>10. ASSUME g PROVE Grouped(s)
  <2>1. Grouped(items)
    BY <1>4, <1>10
  <2>2. \A j \in 1..Len(items) : s[j].cond = IF j = i THEN cond ELSE items[j].cond
    BY <1>7, <1>9
  <2> SUFFICES ASSUME NEW x \in 1..Len(items), NEW y \in 1..Len(items), NEW z \in 1..Len(items),
                      x < y, y < z, s[x].cond = s[z].cond, s[x].cond # NoCondition
               PROVE  s[y].cond = s[x].cond
    BY <1>9 DEF Grouped
  <2>3. x # i /\ z # i
    BY <1>4, <1>5, <2>2
  <2>4. items[x].cond = items[z].cond /\ items[x].cond # NoCondition
    BY <2>2, <2>3
  <2>5. items[y].cond = items[x].cond
    BY <2>1, <2>4 DEF Grouped
  <2> QED BY <1>6, <2>2, <2>3, <2>4, <2>5
<1>11. s \in Items(R, g)
  BY <1>9, <1>10 DEF Items
<1>12. PICK ls : ls = With(lists, c, s)
  OBVIOUS
<1>13. ls \in Lists(R, g)
  BY <1>3, <1>11, <1>12, WithItems
<1>14. [lists EXCEPT ![c][i].cond = cond] = ls
  BY <1>1, <1>8, <1>12 DEF With
<1> QED BY <1>2, <1>13, <1>14

-----------------------------------------------------------------------------
(* All the checklists there are: shown, sent, stored, read and remembered. *)
Docs == {value, check, prop, server, refetch.doc}
        \cup {s.doc : s \in saves} \cup {k.shown : k \in creating}

(* The conditions there have been, and none.                               *)
All == 0..(9 + used.created)

(* The playbook is opened with the tasks of each condition together.       *)
OpenedTogether == \A lists \in Templates : Together(lists)

(* Nothing was done that parts them.                                       *)
Ok == OpenedTogether /\ why \cap {"leftLast", "addedInPlace"} = {}

(* Conditions to be deleted or created, and those that checklists may use. *)
Deleted == {d.cond : d \in deleting}
Created == {k.cond : k \in creating}
Safe    == (conditions \cap known) \ (Deleted \cup Created)

(* Every checklist refers to conditions there have been.                   *)
DocsHeld == \A d \in Docs : d.edits \subseteq 1..N /\ d.lists \in Lists(All, Ok)

(* A request for a condition has a number no task had when it was made,    *)
(* for a task that had none.                                               *)
Asked ==
    /\ \A d \in deleting : "cond" \in DOMAIN d
    /\ \A k \in creating :
         /\ {"cond", "list", "item", "shown"} \subseteq DOMAIN k
         /\ k.cond \in All \ 0..9
         /\ k.shown.lists \in Lists(0..(k.cond - 1), Ok)
         /\ k.list \in 1..Len(k.shown.lists)
         /\ k.item \in 1..Len(k.shown.lists[k.list])
         /\ k.shown.lists[k.list][k.item].cond = NoCondition
    /\ \A k, l \in creating : k.cond = l.cond => k = l
    /\ conditions \subseteq All

(* While nothing was undone, checklists with every edit use only           *)
(* conditions that are stored, known and not about to go.                  *)
CondsHeld ==
    why \cap Bad = {} =>
        /\ Deleted \subseteq All \ Created
        /\ \A k \in creating : k.step = "stored" => k.cond \in conditions
        /\ \A d \in Docs : d.edits = 1..N => d.lists \in Lists(Safe \cup {NoCondition}, FALSE)

LInv == DocsHeld /\ Asked /\ CondsHeld

(* A truth value, as the lemmas on checklists want it.                     *)
LEMMA OkIs == Ok \in BOOLEAN
  BY DEF Ok, OpenedTogether

(* Steps that bring no new document. *)
LEMMA NoNewDoc ==
    ASSUME LInv, Docs' \subseteq Docs, N' = N, All \subseteq All', why \subseteq why',
           why \cap Bad = {} => Safe \subseteq Safe'
    PROVE  /\ DocsHeld'
           /\ why' \cap Bad = {} =>
                \A d \in Docs' : d.edits = 1..N' => d.lists \in Lists(Safe' \cup {NoCondition}, FALSE)
<1>1. ASSUME NEW d \in Docs' PROVE d.edits \subseteq 1..N' /\ d.lists \in Lists(All', Ok')
  <2>1. d.edits \subseteq 1..N /\ d.lists \in Lists(All, Ok)
    BY DEF LInv, DocsHeld
  <2>2. Ok' \in BOOLEAN /\ (Ok' => Ok)
    BY DEF Ok, OpenedTogether
  <2> QED BY <2>1, <2>2, OkIs, ListsGrow
<1>2. ASSUME why' \cap Bad = {}, NEW d \in Docs', d.edits = 1..N'
      PROVE  d.lists \in Lists(Safe' \cup {NoCondition}, FALSE)
  <2>1. why \cap Bad = {} /\ d \in Docs /\ d.edits = 1..N
    BY <1>2
  <2>2. d.lists \in Lists(Safe \cup {NoCondition}, FALSE) /\ Safe \subseteq Safe'
    BY <2>1 DEF LInv, CondsHeld
  <2> QED BY <2>2, ListsGrow
<1> QED BY <1>1, <1>2 DEF DocsHeld

(* An edit brings one. *)
LEMMA OneNewDoc ==
    ASSUME IInv, LInv, NEW STATE lists, NEW STATE edits, NEW STATE reasons,
           Set(lists, edits, reasons), creating' \subseteq creating, edits \subseteq 1..N,
           lists \in Lists(All, Ok'),
           why' \cap Bad = {} /\ edits = 1..N => lists \in Lists(Safe' \cup {NoCondition}, FALSE)
    PROVE  /\ DocsHeld'
           /\ why' \cap Bad = {} =>
                \A d \in Docs' : d.edits = 1..N' => d.lists \in Lists(Safe' \cup {NoCondition}, FALSE)
           /\ All' = All
<1>1. N \in Nat /\ N' = N + 1 /\ All' = All
  <2>1. PICK m : m = used.moves + (IF lists = value.lists THEN 0 ELSE 1)
    OBVIOUS
  <2>2. used' = [used EXCEPT !.edits = @ + 1, !.moves = m]
    BY <2>1 DEF Set
  <2>3. used \in [edits : Nat, moves : Nat, created : Nat, trouble : Nat]
    BY DEF IInv, Bounds
  <2> QED BY <2>2, <2>3 DEF N, All
<1>2. value' = [lists |-> lists, edits |-> edits \cup {N + 1}]
  BY <1>1 DEF Set, N
<1>3. Docs' \subseteq Docs \cup {value'}
  BY DEF Docs, Set
<1>4. why \subseteq why' /\ Ok' \in BOOLEAN /\ (Ok' => Ok)
  BY DEF Set, Ok, OpenedTogether
<1>5. ASSUME NEW d \in Docs PROVE d.edits \subseteq 1..N /\ d.lists \in Lists(All, Ok')
  <2>1. d.edits \subseteq 1..N /\ d.lists \in Lists(All, Ok)
    BY DEF LInv, DocsHeld
  <2> QED BY <2>1, <1>4, OkIs, ListsGrow
<1>6. N + 1 \in 1..(N + 1) /\ N + 1 \notin 1..N /\ 1..N \subseteq 1..(N + 1)
      /\ 1..(N + 1) = 1..N \cup {N + 1}
  BY <1>1
<1>7. DocsHeld'
  <2>1. SUFFICES ASSUME NEW d \in Docs' PROVE d.edits \subseteq 1..(N + 1) /\ d.lists \in Lists(All, Ok')
    BY <1>1 DEF DocsHeld
  <2>2. CASE d \in Docs
    BY <1>5, <1>6, <2>2
  <2>3. CASE d = value'
    <3>1. d.edits = edits \cup {N + 1} /\ d.lists = lists
      BY <1>2, <2>3
    <3> QED BY <1>6, <3>1
  <2> QED BY <1>3, <2>2, <2>3
<1>8. ASSUME why' \cap Bad = {}, NEW d \in Docs', d.edits = 1..N'
      PROVE  d.lists \in Lists(Safe' \cup {NoCondition}, FALSE)
  <2>1. d = value'
    BY <1>1, <1>3, <1>5, <1>6, <1>8
  <2>2. edits \cup {N + 1} = 1..(N + 1)
    BY <1>1, <1>2, <1>8, <2>1
  <2>3. edits = 1..N
    BY <1>6, <2>2
  <2> QED BY <1>2, <1>8, <2>1, <2>3
<1> QED BY <1>1, <1>7, <1>8

(* What an edit of the checklists keeps: tasks of which conditions there   *)
(* are and, unless it says otherwise, that they stand together.            *)
Keeps(from, to, ok) ==
    \A S : NoCondition \in S =>
        \A h \in BOOLEAN : (h => ok) /\ from \in Lists(S, h) => to \in Lists(S, h)

(* Steps that ask for no condition and store none.                         *)
AskedBefore ==
    /\ creating' \subseteq creating
    /\ \A d \in deleting' : "cond" \in DOMAIN d
    /\ conditions' \subseteq conditions
    /\ All \subseteq All'
    /\ why \subseteq why'

(* The requests for conditions that were under way, when no other one is   *)
(* added.                                                                  *)
LEMMA AskedStays ==
    ASSUME Asked, AskedBefore
    PROVE  Asked'
<1>1. Ok' \in BOOLEAN /\ (Ok' => Ok)
  BY DEF Ok, OpenedTogether, AskedBefore
<1>2. ASSUME NEW k \in creating' PROVE k.shown.lists \in Lists(0..(k.cond - 1), Ok')
  <2>1. k.shown.lists \in Lists(0..(k.cond - 1), Ok)
    BY DEF Asked, AskedBefore
  <2> QED BY <1>1, <2>1, OkIs, ListsGrow
<1> QED BY <1>2 DEF Asked, AskedBefore

(* Every edit that keeps what edits keep, and leaves the conditions alone. *)
LEMMA RearrangeHolds ==
    ASSUME IInv, LInv, NEW STATE lists, NEW STATE reasons, Rearrange(lists, reasons),
           Keeps(value.lists, lists, Ok')
    PROVE  LInv'
<1> DEFINE all == reasons \cup (IF value.edits = 1..used.edits THEN {} ELSE {"reverted"})
<1>1. Set(lists, value.edits, all)
  BY DEF Rearrange, Edit
<1> HIDE DEF all
<1>2. UNCHANGED <<known, creating, deleting, conditions>> /\ why \subseteq why'
  BY <1>1 DEF Rearrange, Set
<1>3. value.edits \subseteq 1..N /\ value.lists \in Lists(All, Ok) /\ value \in Docs
  BY DEF LInv, DocsHeld, Docs
<1>4. Ok' \in BOOLEAN /\ (Ok' => Ok) /\ NoCondition \in All
  <2>1. used.created \in Nat
    BY DEF IInv, Bounds
  <2> QED BY <1>2, <2>1 DEF Ok, OpenedTogether, All, NoCondition
<1>5. lists \in Lists(All, Ok')
  <2>1. value.lists \in Lists(All, Ok')
    BY <1>3, <1>4, OkIs, ListsGrow
  <2> QED BY <1>4, <2>1 DEF Keeps
<1>6. Safe' = Safe /\ Deleted' = Deleted /\ Created' = Created
  BY <1>2 DEF Safe, Deleted, Created
<1>7. ASSUME why' \cap Bad = {}, value.edits = 1..N
      PROVE  lists \in Lists(Safe' \cup {NoCondition}, FALSE)
  <2>1. value.lists \in Lists(Safe \cup {NoCondition}, FALSE)
    BY <1>2, <1>3, <1>7 DEF LInv, CondsHeld
  <2> QED BY <1>6, <2>1 DEF Keeps
<1>8. /\ DocsHeld'
      /\ why' \cap Bad = {} =>
            \A d \in Docs' : d.edits = 1..N' => d.lists \in Lists(Safe' \cup {NoCondition}, FALSE)
      /\ All' = All
  BY <1>1, <1>2, <1>3, <1>5, <1>7, OneNewDoc
<1>9. Asked'
  BY <1>2, <1>8, AskedStays DEF LInv, Asked, AskedBefore
<1>10. CondsHeld'
  BY <1>2, <1>6, <1>8 DEF LInv, CondsHeld
<1> QED BY <1>8, <1>9, <1>10 DEF LInv

-----------------------------------------------------------------------------
(* The edits of one checklist. *)
LEMMA SameKeeps ==
    ASSUME NEW lists, NEW ok PROVE Keeps(lists, lists, ok)
  BY DEF Keeps

(* A task is added.                                                        *)
LEMMA AddItemIs ==
    ASSUME NEW lists, NEW ok, NEW c \in DOMAIN lists, NEW task \in Nat
    PROVE  Keeps(lists, [lists EXCEPT ![c] = AddItem(lists[c], task)], ok)
<1> SUFFICES ASSUME NEW S, NoCondition \in S, NEW h \in BOOLEAN, h => ok, lists \in Lists(S, h)
             PROVE  [lists EXCEPT ![c] = AddItem(lists[c], task)] \in Lists(S, h)
  BY DEF Keeps
<1>1. c \in 1..Len(lists)
  BY ListsAre
<1> QED BY <1>1, AddItemInList DEF With

(* A task is duplicated.                                                   *)
LEMMA DuplicateItemIs ==
    ASSUME NEW lists, NEW ok, NEW c \in DOMAIN lists, NEW i \in DOMAIN lists[c], NEW task \in Nat
    PROVE  Keeps(lists, [lists EXCEPT ![c] = DuplicateItem(lists[c], i, task)], ok)
<1> SUFFICES ASSUME NEW S, NoCondition \in S, NEW h \in BOOLEAN, h => ok, lists \in Lists(S, h)
             PROVE  [lists EXCEPT ![c] = DuplicateItem(lists[c], i, task)] \in Lists(S, h)
  BY DEF Keeps
<1>1. c \in 1..Len(lists) /\ i \in 1..Len(lists[c])
  BY ListsAre
<1> QED BY <1>1, DuplicateItemInList DEF With

(* A task is deleted.                                                      *)
LEMMA DeleteItemIs ==
    ASSUME NEW lists, NEW ok, NEW c \in DOMAIN lists, NEW i \in DOMAIN lists[c]
    PROVE  Keeps(lists, [lists EXCEPT ![c] = RemoveAt(lists[c], i)], ok)
<1> SUFFICES ASSUME NEW S, NoCondition \in S, NEW h \in BOOLEAN, h => ok, lists \in Lists(S, h)
             PROVE  [lists EXCEPT ![c] = RemoveAt(lists[c], i)] \in Lists(S, h)
  BY DEF Keeps
<1>1. c \in 1..Len(lists) /\ i \in 1..Len(lists[c])
  BY ListsAre
<1> QED BY <1>1, DeleteItemInList DEF With

(* A task leaves its condition.                                            *)
LEMMA LeaveGroupIs ==
    ASSUME NEW lists, NEW ok, NEW c \in DOMAIN lists, NEW i \in DOMAIN lists[c],
           \E j \in DOMAIN lists[c] \ {i} : lists[c][j].cond = lists[c][i].cond,
           ok => ~(i = LastOf(lists[c], lists[c][i].cond) /\ i < Len(lists[c]))
    PROVE  Keeps(lists, [lists EXCEPT ![c] = LeaveGroup(lists[c], i)], ok)
<1> SUFFICES ASSUME NEW S, NoCondition \in S, NEW h \in BOOLEAN, h => ok, lists \in Lists(S, h)
             PROVE  [lists EXCEPT ![c] = LeaveGroup(lists[c], i)] \in Lists(S, h)
  BY DEF Keeps
<1>1. c \in 1..Len(lists) /\ i \in 1..Len(lists[c]) /\ DOMAIN lists[c] = 1..Len(lists[c])
  BY ListsAre
<1>2. h => ~(i = LastOf(lists[c], lists[c][i].cond) /\ i < Len(lists[c]))
  OBVIOUS
<1>3. \E j \in (1..Len(lists[c])) \ {i} : lists[c][j].cond = lists[c][i].cond
  BY <1>1
<1>4. With(lists, c, LeaveGroup(lists[c], i)) \in Lists(S, h)
  BY <1>1, <1>2, <1>3, LeaveInList
<1> QED BY <1>4 DEF With

(* A task is dragged.                                                      *)
LEMMA DragItemIs ==
    ASSUME NEW lists, NEW ok, NEW from \in DOMAIN lists, NEW i \in DOMAIN lists[from],
           NEW to \in DOMAIN lists, NEW at \in 1..Len(lists[to]) + 1,
           from = to => at <= Len(lists[to])
    PROVE  Keeps(lists, DragItem(lists, from, i, to, at), ok)
<1> SUFFICES ASSUME NEW S, NoCondition \in S, NEW h \in BOOLEAN, h => ok, lists \in Lists(S, h)
             PROVE  DragItem(lists, from, i, to, at) \in Lists(S, h)
  BY DEF Keeps
<1>1. from \in 1..Len(lists) /\ i \in 1..Len(lists[from]) /\ to \in 1..Len(lists)
  BY ListsAre
<1> QED BY <1>1, DragItemKeeps

(* A task is put under a condition.                                        *)
LEMMA MoveItemIs ==
    ASSUME NEW lists, NEW ok, NEW c \in DOMAIN lists, NEW i \in DOMAIN lists[c],
           NEW cond \in Used(lists), lists[c][i].cond # cond
    PROVE  Keeps(lists, MoveItemToCondition(lists, c, i, cond), ok)
<1> SUFFICES ASSUME NEW S, NoCondition \in S, NEW h \in BOOLEAN, h => ok, lists \in Lists(S, h)
             PROVE  MoveItemToCondition(lists, c, i, cond) \in Lists(S, h)
  BY DEF Keeps
<1>1. c \in 1..Len(lists) /\ i \in 1..Len(lists[c])
  BY ListsAre
<1> QED BY <1>1, MoveItemKeeps

(* The edits of whole checklists. *)
LEMMA AddChecklistIs ==
    ASSUME NEW lists, NEW ok
    PROVE  Keeps(lists, Append(lists, <<>>), ok)
  BY AddChecklistKeeps DEF Keeps

(* A checklist is duplicated.                                              *)
LEMMA DuplicateChecklistIs ==
    ASSUME NEW lists, NEW ok, NEW c \in DOMAIN lists, NEW task \in Nat
    PROVE  Keeps(lists, DuplicateChecklist(lists, c, task), ok)
<1> SUFFICES ASSUME NEW S, NoCondition \in S, NEW h \in BOOLEAN, h => ok, lists \in Lists(S, h)
             PROVE  DuplicateChecklist(lists, c, task) \in Lists(S, h)
  BY DEF Keeps
<1>1. c \in 1..Len(lists)
  BY ListsAre
<1> QED BY <1>1, DuplicateChecklistKeeps

(* A checklist is deleted.                                                 *)
LEMMA DeleteChecklistIs ==
    ASSUME NEW lists, NEW ok, NEW c \in DOMAIN lists
    PROVE  Keeps(lists, RemoveAt(lists, c), ok)
<1> SUFFICES ASSUME NEW S, NoCondition \in S, NEW h \in BOOLEAN, h => ok, lists \in Lists(S, h)
             PROVE  RemoveAt(lists, c) \in Lists(S, h)
  BY DEF Keeps
<1>1. c \in 1..Len(lists)
  BY ListsAre
<1> QED BY <1>1, DeleteChecklistKeeps

(* A checklist is dragged.                                                 *)
LEMMA MoveChecklistIs ==
    ASSUME NEW lists, NEW ok, NEW from \in DOMAIN lists, NEW to \in DOMAIN lists
    PROVE  Keeps(lists, Move(lists, from, to), ok)
<1> SUFFICES ASSUME NEW S, NoCondition \in S, NEW h \in BOOLEAN, h => ok, lists \in Lists(S, h)
             PROVE  Move(lists, from, to) \in Lists(S, h)
  BY DEF Keeps
<1>1. from \in 1..Len(lists) /\ to \in 1..Len(lists)
  BY ListsAre
<1> QED BY <1>1, MoveChecklistKeeps

(* The edits of what was selected. *)
LEMMA BulkDeleteIs ==
    ASSUME NEW lists, NEW ok, NEW selected
    PROVE  Keeps(lists, BulkDelete(lists, selected), ok)
  BY BulkDeleteKeeps DEF Keeps

(* The selected tasks join a condition that every checklist they are in    *)
(* has already.                                                            *)
LEMMA BulkAddIs ==
    ASSUME NEW lists, NEW ok, NEW selected, NEW cond \in Used(lists),
           ok => \A p \in selected : cond \in UsedIn(lists[p[1]])
    PROVE  Keeps(lists, BulkAddToCondition(lists, selected, cond), ok)
<1> SUFFICES ASSUME NEW S, NoCondition \in S, NEW h \in BOOLEAN, h => ok, lists \in Lists(S, h)
             PROVE  BulkAddToCondition(lists, selected, cond) \in Lists(S, h)
  BY DEF Keeps
<1>1. cond \in S
  BY ListsUse
<1>2. h => \A p \in selected : cond \in UsedIn(lists[p[1]])
  OBVIOUS
<1> QED BY <1>1, <1>2, BulkAddKeeps

(* Every edit of a task: the two that touch the conditions are given       *)
(* below.                                                                  *)
LEMMA ItemEditHolds ==
    ASSUME IInv, LInv, ItemEdit,
           \A cond \in Used(value.lists) : OnDeleteCondition(cond) => LInv',
           \A c \in DOMAIN value.lists : \A i \in DOMAIN value.lists[c] : OnCreateCondition(c, i) => LInv'
    PROVE  LInv'
<1>0. Fresh \in Nat
  BY DEF IInv, Bounds, Fresh
<1>1. CASE UpdateItems
  BY <1>1, RearrangeHolds, SameKeeps DEF UpdateItems
<1>2. ASSUME NEW c \in DOMAIN value.lists, OnAddChecklistItem(c) PROVE LInv'
  <2>1. Keeps(value.lists, OnChecklist(c, AddItem(value.lists[c], Fresh)), Ok')
    BY <1>0, AddItemIs DEF OnChecklist
  <2> QED BY <1>2, <2>1, RearrangeHolds DEF OnAddChecklistItem
<1>3. ASSUME NEW c \in DOMAIN value.lists, NEW i \in DOMAIN value.lists[c],
             OnDuplicateChecklistItem(c, i) PROVE LInv'
  <2>1. Keeps(value.lists, OnChecklist(c, DuplicateItem(value.lists[c], i, Fresh)), Ok')
    BY <1>0, DuplicateItemIs DEF OnChecklist
  <2> QED BY <1>3, <2>1, RearrangeHolds DEF OnDuplicateChecklistItem
<1>4. ASSUME NEW c \in DOMAIN value.lists, NEW i \in DOMAIN value.lists[c],
             OnDeleteChecklistItem(c, i) PROVE LInv'
  <2>1. Keeps(value.lists, OnChecklist(c, RemoveAt(value.lists[c], i)), Ok')
    BY DeleteItemIs DEF OnChecklist
  <2> QED BY <1>4, <2>1, RearrangeHolds DEF OnDeleteChecklistItem
<1>5. ASSUME NEW c \in DOMAIN value.lists, NEW i \in DOMAIN value.lists[c],
             OnRemoveFromCondition(c, i) PROVE LInv'
  <2> DEFINE items == value.lists[c]
             cond == items[i].cond
             last == LastOf(items, cond)
  <2>1. CASE \E j \in DOMAIN items \ {i} : items[j].cond = cond
    <3>1. Rearrange(OnChecklist(c, LeaveGroup(items, i)),
                    IF i = last /\ last < Len(items) THEN {"leftLast"} ELSE {})
      BY <1>5, <2>1 DEF OnRemoveFromCondition
    <3>2. Ok' => ~(i = LastOf(items, items[i].cond) /\ i < Len(items))
      BY <3>1 DEF Ok, Rearrange, Edit, Set
    <3>3. Keeps(value.lists, OnChecklist(c, LeaveGroup(items, i)), Ok')
      BY <2>1, <3>2, LeaveGroupIs DEF OnChecklist
    <3> QED BY <3>1, <3>3, RearrangeHolds
  <2>2. CASE ~ \E j \in DOMAIN items \ {i} : items[j].cond = cond
    <3>1. OnDeleteCondition(cond) /\ cond # NoCondition
      BY <1>5, <2>2 DEF OnRemoveFromCondition
    <3>2. cond \in Used(value.lists)
      BY <3>1 DEF Used, UsedIn
    <3> QED BY <3>1, <3>2
  <2> QED BY <2>1, <2>2
<1>6. ASSUME NEW c \in DOMAIN value.lists, NEW i \in DOMAIN value.lists[c], NEW cond,
             OnMoveItemToCondition(c, i, cond) PROVE LInv'
  <2>1. cond \in Used(value.lists) /\ value.lists[c][i].cond # cond
    BY <1>6 DEF OnMoveItemToCondition, Available
  <2>2. Keeps(value.lists, MoveItemToCondition(value.lists, c, i, cond), Ok')
    BY <2>1, MoveItemIs
  <2> QED BY <1>6, <2>2, RearrangeHolds DEF OnMoveItemToCondition
<1>7. ASSUME NEW c \in DOMAIN value.lists, NEW i \in DOMAIN value.lists[c],
             NEW to \in DOMAIN value.lists, NEW at \in 1..Len(value.lists[to]) + 1,
             OnDragItem(c, i, to, at) PROVE LInv'
  <2>1. c = to => at <= Len(value.lists[to])
    BY <1>7 DEF OnDragItem
  <2>2. Keeps(value.lists, DragItem(value.lists, c, i, to, at), Ok')
    BY <2>1, DragItemIs
  <2> QED BY <1>7, <2>2, RearrangeHolds DEF OnDragItem
<1> QED BY <1>1, <1>2, <1>3, <1>4, <1>5, <1>6, <1>7 DEF ItemEdit

(* Every edit of a whole checklist.                                        *)
LEMMA ChecklistEditHolds ==
    ASSUME IInv, LInv, ChecklistEdit
    PROVE  LInv'
<1>0. Fresh \in Nat
  BY DEF IInv, Bounds, Fresh
<1>1. CASE OnAddChecklist
  BY <1>1, AddChecklistIs, RearrangeHolds DEF OnAddChecklist
<1>2. ASSUME NEW c \in DOMAIN value.lists, OnDuplicateChecklist(c) PROVE LInv'
  BY <1>0, <1>2, DuplicateChecklistIs, RearrangeHolds DEF OnDuplicateChecklist
<1>3. ASSUME NEW c \in DOMAIN value.lists, OnDeleteChecklist(c) PROVE LInv'
  BY <1>3, DeleteChecklistIs, RearrangeHolds DEF OnDeleteChecklist
<1>4. ASSUME NEW c \in DOMAIN value.lists, NEW to \in DOMAIN value.lists, OnDragChecklist(c, to)
      PROVE  LInv'
  BY <1>4, MoveChecklistIs, RearrangeHolds DEF OnDragChecklist
<1> QED BY <1>1, <1>2, <1>3, <1>4 DEF ChecklistEdit

(* Every bulk action.                                                      *)
LEMMA BulkEditHolds ==
    ASSUME IInv, LInv, BulkEdit
    PROVE  LInv'
<1>1. ASSUME NEW selected, HandleBulkDelete(selected) PROVE LInv'
  BY <1>1, BulkDeleteIs, RearrangeHolds DEF HandleBulkDelete
<1>2. ASSUME NEW selected, NEW cond, HandleBulkAddToCondition(selected, cond) PROVE LInv'
  <2> DEFINE reasons == IF \E p \in selected : cond \notin UsedIn(value.lists[p[1]])
                        THEN {"addedInPlace"} ELSE {}
  <2>1. cond \in Used(value.lists)
        /\ Rearrange(BulkAddToCondition(value.lists, selected, cond), reasons)
    BY <1>2 DEF HandleBulkAddToCondition, Available
  <2>2. Ok' => \A p \in selected : cond \in UsedIn(value.lists[p[1]])
    BY <2>1 DEF Ok, Rearrange, Edit, Set
  <2>3. Keeps(value.lists, BulkAddToCondition(value.lists, selected, cond), Ok')
    BY <2>1, <2>2, BulkAddIs
  <2> QED BY <2>1, <2>3, RearrangeHolds
<1> QED BY <1>1, <1>2 DEF BulkEdit

-----------------------------------------------------------------------------
(* Conditions. *)
LEMMA DeleteConditionHolds ==
    ASSUME IInv, LInv, NEW cond \in Used(value.lists), OnDeleteCondition(cond)
    PROVE  LInv'
<1>1. PICK lists : lists = ClearCondition(value.lists, cond)
  OBVIOUS
<1> DEFINE all == {} \cup (IF value.edits = 1..used.edits THEN {} ELSE {"reverted"})
           d == [cond |-> cond, step |-> "sent"]
<1>2. Set(lists, value.edits, all) /\ deleting' = deleting \cup {d}
      /\ UNCHANGED <<known, creating, conditions>>
  BY <1>1 DEF OnDeleteCondition, Edit, Set
<1>3. d.cond = cond /\ "cond" \in DOMAIN d
  OBVIOUS
<1> HIDE DEF all, d
<1>4. value.edits \subseteq 1..N /\ value.lists \in Lists(All, Ok) /\ value \in Docs
  BY DEF LInv, DocsHeld, Docs
<1>5. Ok' \in BOOLEAN /\ (Ok' => Ok) /\ NoCondition \in All /\ why \subseteq why'
  <2>1. used.created \in Nat
    BY DEF IInv, Bounds
  <2> QED BY <1>2, <2>1 DEF Set, Ok, OpenedTogether, All, NoCondition
<1>6. lists \in Lists(All, Ok')
  <2>1. lists \in Lists((All \ {cond}) \cup {NoCondition}, Ok)
    BY <1>1, <1>4, OkIs, ClearConditionKeeps
  <2>2. (All \ {cond}) \cup {NoCondition} \subseteq All
    BY <1>5
  <2> QED BY <1>5, <2>1, <2>2, OkIs, ListsGrow
<1>7. Safe' = Safe \ {cond} /\ Deleted' = Deleted \cup {cond} /\ Created' = Created
  BY <1>2, <1>3 DEF Safe, Deleted, Created
<1>8. ASSUME why' \cap Bad = {}, value.edits = 1..N
      PROVE  lists \in Lists(Safe' \cup {NoCondition}, FALSE)
  <2>1. value.lists \in Lists(Safe \cup {NoCondition}, FALSE)
    BY <1>5, <1>4, <1>8 DEF LInv, CondsHeld
  <2>2. PICK R : R = Safe \cup {NoCondition}
    OBVIOUS
  <2>3. lists \in Lists((R \ {cond}) \cup {NoCondition}, FALSE)
    BY <1>1, <2>1, <2>2, ClearConditionKeeps
  <2>4. (R \ {cond}) \cup {NoCondition} = Safe' \cup {NoCondition}
    BY <1>7, <2>2
  <2> QED BY <2>3, <2>4
<1>9. /\ DocsHeld'
      /\ why' \cap Bad = {} =>
            \A e \in Docs' : e.edits = 1..N' => e.lists \in Lists(Safe' \cup {NoCondition}, FALSE)
      /\ All' = All
  BY <1>2, <1>4, <1>6, <1>8, OneNewDoc
<1>10. Asked'
  BY <1>2, <1>3, <1>5, <1>9, AskedStays DEF LInv, Asked, AskedBefore
<1>11. CondsHeld'
  <2>1. SUFFICES ASSUME why' \cap Bad = {}
                 PROVE  /\ Deleted' \subseteq All' \ Created'
                        /\ \A k \in creating' : k.step = "stored" => k.cond \in conditions'
    BY <1>9 DEF CondsHeld
  <2>2. why \cap Bad = {}
    BY <1>5, <2>1
  <2>3. value.edits = 1..N
    BY <1>2, <2>1 DEF Set, all, Bad, N
  <2>4. value.lists \in Lists(Safe \cup {NoCondition}, FALSE)
    BY <1>4, <2>2, <2>3 DEF LInv, CondsHeld
  <2>5. cond \in Safe
    <3>1. PICK R : R = Safe \cup {NoCondition}
      OBVIOUS
    <3>2. PICK h \in BOOLEAN : value.lists \in Lists(R, h)
      BY <2>4, <3>1
    <3>3. Used(value.lists) \subseteq R \ {NoCondition}
      BY <3>2, ListsUse
    <3> QED BY <3>1, <3>3
  <2>6. cond \in All \ Created
    BY <2>5 DEF Safe, LInv, Asked
  <2> QED BY <1>2, <1>7, <1>9, <2>2, <2>6 DEF LInv, CondsHeld
<1> QED BY <1>9, <1>10, <1>11 DEF LInv

(* Steps that leave the checklists and the requests for conditions alone,  *)
(* or drop some of these.                                                  *)
LEMMA FewerHold ==
    ASSUME LInv, Docs' \subseteq Docs, N' = N, All' = All, why \subseteq why',
           creating' \subseteq creating, deleting' \subseteq deleting,
           conditions' = conditions, known' = known
    PROVE  LInv'
<1>1. Created' \subseteq Created /\ Deleted' \subseteq Deleted
  BY DEF Created, Deleted
<1>2. Safe \subseteq Safe'
  BY <1>1 DEF Safe
<1>3. /\ DocsHeld'
      /\ why' \cap Bad = {} =>
            \A e \in Docs' : e.edits = 1..N' => e.lists \in Lists(Safe' \cup {NoCondition}, FALSE)
  BY <1>2, NoNewDoc
<1>4. Asked'
  BY AskedStays DEF LInv, Asked, AskedBefore
<1>5. CondsHeld'
  BY <1>1, <1>3 DEF LInv, CondsHeld
<1> QED BY <1>3, <1>4, <1>5 DEF LInv

(* The condition is gone from the database; it was off the checklists      *)
(* before.                                                                 *)
LEMMA DeleteStoredHolds ==
    ASSUME LInv, NEW d \in deleting, DeleteStored(d)
    PROVE  LInv'
<1> DEFINE e == [d EXCEPT !.step = "stored"]
<1>1. deleting' = (deleting \ {d}) \cup {e} /\ conditions' = conditions \ {d.cond}
  BY DEF DeleteStored, Step
<1>2. e.cond = d.cond /\ "cond" \in DOMAIN e
  BY DEF LInv, Asked
<1> HIDE DEF e
<1>3. UNCHANGED <<known, creating, why, Docs, All, N>>
  BY DEF DeleteStored, Docs, All, N
<1>4. Deleted' = Deleted /\ Created' = Created /\ d.cond \in Deleted
  BY <1>1, <1>2, <1>3 DEF Deleted, Created
<1>5. Safe' = Safe
  BY <1>1, <1>3, <1>4 DEF Safe
<1>6. /\ DocsHeld'
      /\ why' \cap Bad = {} =>
            \A c \in Docs' : c.edits = 1..N' => c.lists \in Lists(Safe' \cup {NoCondition}, FALSE)
  BY <1>3, <1>5, NoNewDoc
<1>7. Asked'
  BY <1>1, <1>2, <1>3, AskedStays DEF LInv, Asked, AskedBefore
<1>8. CondsHeld'
  <2>1. ASSUME why \cap Bad = {}, NEW k \in creating, k.step = "stored" PROVE k.cond \in conditions'
    <3>1. k.cond \in conditions /\ k.cond \in Created /\ Deleted \cap Created = {}
      BY <2>1 DEF LInv, CondsHeld, Created
    <3> QED BY <1>1, <1>4, <3>1
  <2> QED BY <1>3, <1>4, <1>6, <2>1 DEF LInv, CondsHeld
<1> QED BY <1>6, <1>7, <1>8 DEF LInv

(* It is gone from the store of the webapp as well.                        *)
LEMMA DeleteAnsweredHolds ==
    ASSUME LInv, NEW d \in deleting, DeleteAnswered(d)
    PROVE  LInv'
<1>1. deleting' = deleting \ {d} /\ known' = known \ {d.cond}
  BY DEF DeleteAnswered
<1>2. UNCHANGED <<conditions, creating, why, Docs, All, N>>
  BY DEF DeleteAnswered, Docs, All, N
<1>3. Created' = Created /\ Deleted' \subseteq Deleted /\ Safe \subseteq Safe'
  BY <1>1, <1>2 DEF Deleted, Created, Safe
<1>4. /\ DocsHeld'
      /\ why' \cap Bad = {} =>
            \A c \in Docs' : c.edits = 1..N' => c.lists \in Lists(Safe' \cup {NoCondition}, FALSE)
  BY <1>2, <1>3, NoNewDoc
<1>5. Asked'
  BY <1>1, <1>2, AskedStays DEF LInv, Asked, AskedBefore
<1>6. CondsHeld'
  BY <1>2, <1>3, <1>4 DEF LInv, CondsHeld
<1> QED BY <1>4, <1>5, <1>6 DEF LInv

(* The condition that is asked for has the next number: no task has it. *)
LEMMA CreateConditionHolds ==
    ASSUME IInv, LInv, NEW c \in DOMAIN value.lists, NEW i \in DOMAIN value.lists[c],
           OnCreateCondition(c, i)
    PROVE  LInv'
<1> DEFINE k == [ cond |-> 10 + used.created, list |-> c, item |-> i, shown |-> value, step |-> "sent" ]
<1>1. creating' = creating \cup {k}
  BY DEF OnCreateCondition
<1>2. /\ k.cond = 10 + used.created /\ k.list = c /\ k.item = i /\ k.shown = value /\ k.step = "sent"
      /\ {"cond", "list", "item", "shown"} \subseteq DOMAIN k
  OBVIOUS
<1> HIDE DEF k
<1>3. PICK m \in Nat : m = used.created
  BY DEF IInv, Bounds
<1>4. N' = N /\ used'.created = m + 1
  <2>1. used \in [edits : Nat, moves : Nat, created : Nat, trouble : Nat]
    BY DEF IInv, Bounds
  <2> QED BY <1>3, <2>1 DEF OnCreateCondition, N
<1>5. All = 0..(9 + m) /\ All' = 0..(10 + m) /\ All \subseteq All' /\ k.cond = 10 + m
      /\ k.cond \notin All /\ k.cond \in All' \ 0..9 /\ 0..(k.cond - 1) = All
  BY <1>2, <1>3, <1>4 DEF All
<1>6. UNCHANGED <<conditions, known, deleting, why, value>> /\ value \in Docs
  BY DEF OnCreateCondition, Docs
<1>7. Docs' \subseteq Docs
  BY <1>1, <1>2, <1>6 DEF OnCreateCondition, Docs
<1>8. Created' = Created \cup {k.cond} /\ Deleted' = Deleted
  BY <1>1, <1>6 DEF Created, Deleted
<1>9. Safe \subseteq Safe'
  BY <1>5, <1>6, <1>8 DEF Safe, LInv, Asked
<1>10. /\ DocsHeld'
       /\ why' \cap Bad = {} =>
            \A d \in Docs' : d.edits = 1..N' => d.lists \in Lists(Safe' \cup {NoCondition}, FALSE)
  BY <1>4, <1>5, <1>6, <1>7, <1>9, NoNewDoc
<1>11. Ok' \in BOOLEAN /\ (Ok' => Ok) /\ (Ok => Ok')
  BY <1>6 DEF Ok, OpenedTogether
<1>12. Asked'
  <2>1. ASSUME NEW l \in creating
        PROVE  /\ {"cond", "list", "item", "shown"} \subseteq DOMAIN l
               /\ l.cond \in All' \ 0..9
               /\ l.shown.lists \in Lists(0..(l.cond - 1), Ok')
               /\ l.list \in 1..Len(l.shown.lists)
               /\ l.item \in 1..Len(l.shown.lists[l.list])
               /\ l.shown.lists[l.list][l.item].cond = NoCondition
               /\ l.cond # k.cond
    <3>1. l.shown.lists \in Lists(0..(l.cond - 1), Ok) /\ l.cond \in All \ 0..9
      BY DEF LInv, Asked
    <3>2. l.shown.lists \in Lists(0..(l.cond - 1), Ok')
      BY <1>11, <3>1, OkIs, ListsGrow
    <3> QED BY <1>5, <3>1, <3>2 DEF LInv, Asked
  <2>2. /\ value.lists \in Lists(All, Ok)
        /\ c \in 1..Len(value.lists) /\ i \in 1..Len(value.lists[c])
    <3>1. value.lists \in Lists(All, Ok)
      BY <1>6 DEF LInv, DocsHeld
    <3> QED BY <3>1, OkIs, ListsAre
  <2>3. value.lists \in Lists(0..(k.cond - 1), Ok')
    BY <1>5, <1>11, <2>2, OkIs, ListsGrow
  <2>4. value.lists[c][i].cond = NoCondition
    BY DEF OnCreateCondition
  <2>5. conditions' \subseteq All' /\ \A d \in deleting' : "cond" \in DOMAIN d
    BY <1>5, <1>6 DEF LInv, Asked
  <2>6. \A l \in creating' :
               /\ {"cond", "list", "item", "shown"} \subseteq DOMAIN l
               /\ l.cond \in All' \ 0..9
               /\ l.shown.lists \in Lists(0..(l.cond - 1), Ok')
               /\ l.list \in 1..Len(l.shown.lists)
               /\ l.item \in 1..Len(l.shown.lists[l.list])
               /\ l.shown.lists[l.list][l.item].cond = NoCondition
    BY <1>1, <1>2, <1>5, <2>1, <2>2, <2>3, <2>4
  <2>7. \A l, o \in creating' : l.cond = o.cond => l = o
    BY <1>1, <2>1 DEF LInv, Asked
  <2> QED BY <2>5, <2>6, <2>7 DEF Asked
<1>13. CondsHeld'
  <2>1. \A l \in creating' : l.step = "stored" => l \in creating
    BY <1>1, <1>2
  <2>2. why \cap Bad = {} => Deleted' \subseteq All' \ Created'
    BY <1>5, <1>8 DEF LInv, CondsHeld
  <2> QED BY <1>6, <1>10, <2>1, <2>2 DEF LInv, CondsHeld
<1> QED BY <1>10, <1>12, <1>13 DEF LInv

(* It is stored; the request keeps its number.                             *)
LEMMA CreateStoredHolds ==
    ASSUME LInv, NEW k \in creating, CreateStored(k)
    PROVE  LInv'
<1> DEFINE l == [k EXCEPT !.step = "stored"]
<1>1. creating' = (creating \ {k}) \cup {l} /\ conditions' = conditions \cup {k.cond}
  BY DEF CreateStored, Step
<1>2. /\ {"cond", "list", "item", "shown"} \subseteq DOMAIN l
      /\ l.cond = k.cond /\ l.list = k.list /\ l.item = k.item /\ l.shown = k.shown
  BY DEF LInv, Asked
<1> HIDE DEF l
<1>3. UNCHANGED <<known, deleting, why, All, N>> /\ Docs' \subseteq Docs
  BY <1>1, <1>2 DEF CreateStored, Docs, All, N
<1>4. Created' = Created /\ Deleted' = Deleted /\ k.cond \in Created
  BY <1>1, <1>2, <1>3 DEF Created, Deleted
<1>5. Safe' = Safe
  BY <1>1, <1>3, <1>4 DEF Safe
<1>6. /\ DocsHeld'
      /\ why' \cap Bad = {} =>
            \A c \in Docs' : c.edits = 1..N' => c.lists \in Lists(Safe' \cup {NoCondition}, FALSE)
  BY <1>3, <1>5, NoNewDoc
<1>7. Ok' = Ok
  BY <1>3 DEF Ok, OpenedTogether
<1>8. Asked'
  <2>1. \A o \in creating' : \E q \in creating :
            o.cond = q.cond /\ o.list = q.list /\ o.item = q.item /\ o.shown = q.shown
            /\ {"cond", "list", "item", "shown"} \subseteq DOMAIN o
    BY <1>1, <1>2 DEF LInv, Asked
  <2>2. \A o, q \in creating' : o.cond = q.cond => o = q
    BY <1>1, <1>2 DEF LInv, Asked
  <2>3. conditions' \subseteq All'
    BY <1>1, <1>3 DEF LInv, Asked
  <2>4. \A o \in creating' :
         /\ {"cond", "list", "item", "shown"} \subseteq DOMAIN o
         /\ o.cond \in All' \ 0..9
         /\ o.shown.lists \in Lists(0..(o.cond - 1), Ok')
         /\ o.list \in 1..Len(o.shown.lists)
         /\ o.item \in 1..Len(o.shown.lists[o.list])
         /\ o.shown.lists[o.list][o.item].cond = NoCondition
    <3> SUFFICES ASSUME NEW o \in creating'
                 PROVE  /\ {"cond", "list", "item", "shown"} \subseteq DOMAIN o
                        /\ o.cond \in All' \ 0..9
                        /\ o.shown.lists \in Lists(0..(o.cond - 1), Ok')
                        /\ o.list \in 1..Len(o.shown.lists)
                        /\ o.item \in 1..Len(o.shown.lists[o.list])
                        /\ o.shown.lists[o.list][o.item].cond = NoCondition
      OBVIOUS
    <3>1. PICK q \in creating : o.cond = q.cond /\ o.list = q.list /\ o.item = q.item /\ o.shown = q.shown
      BY <2>1
    <3>2. /\ q.cond \in All \ 0..9
          /\ q.shown.lists \in Lists(0..(q.cond - 1), Ok)
          /\ q.list \in 1..Len(q.shown.lists)
          /\ q.item \in 1..Len(q.shown.lists[q.list])
          /\ q.shown.lists[q.list][q.item].cond = NoCondition
      BY DEF LInv, Asked
    <3> QED BY <1>3, <1>7, <2>1, <3>1, <3>2
  <2> QED BY <1>3, <2>2, <2>3, <2>4 DEF LInv, Asked
<1>9. CondsHeld'
  <2>1. why \cap Bad = {} => \A o \in creating' : o.step = "stored" => o.cond \in conditions'
    BY <1>1, <1>2 DEF LInv, CondsHeld
  <2> QED BY <1>3, <1>4, <1>6, <2>1 DEF LInv, CondsHeld
<1> QED BY <1>6, <1>8, <1>9 DEF LInv

(* A task gets it in the checklists that were shown when it was asked for. *)
LEMMA CreateAnsweredHolds ==
    ASSUME IInv, LInv, NEW k \in creating, CreateAnswered(k)
    PROVE  LInv'
<1>1. PICK old, lists : old = k.shown.lists /\ lists = [old EXCEPT ![k.list][k.item].cond = k.cond]
  OBVIOUS
<1> DEFINE reasons == IF k.shown.edits = 1..used.edits THEN {} ELSE {"closure"}
<1>2. /\ Set(lists, k.shown.edits, reasons)
      /\ creating' = creating \ {k} /\ known' = known \cup {k.cond} /\ k.step = "stored"
      /\ UNCHANGED <<conditions, deleting>> /\ why \subseteq why'
  BY <1>1 DEF CreateAnswered, Set
<1>3. /\ k.cond \in All \ 0..9 /\ k.cond \in Nat
      /\ old \in Lists(0..(k.cond - 1), Ok)
      /\ k.list \in 1..Len(old) /\ k.item \in 1..Len(old[k.list])
      /\ old[k.list][k.item].cond = NoCondition
      /\ k.shown \in Docs /\ k.shown.edits \subseteq 1..N
  <2>1. k.shown \in Docs
    BY DEF Docs
  <2>2. k.shown.edits \subseteq 1..N
    BY <2>1 DEF LInv, DocsHeld
  <2>3. k.cond \in All \ 0..9 /\ k.shown.lists \in Lists(0..(k.cond - 1), Ok)
        /\ k.list \in 1..Len(k.shown.lists) /\ k.item \in 1..Len(k.shown.lists[k.list])
        /\ k.shown.lists[k.list][k.item].cond = NoCondition
    BY DEF LInv, Asked
  <2>4. All \subseteq Nat
    BY DEF All
  <2> QED BY <1>1, <2>1, <2>2, <2>3, <2>4
<1>4. Ok' \in BOOLEAN /\ (Ok' => Ok)
  BY <1>2 DEF Ok, OpenedTogether
<1>5. lists \in Lists(All, Ok')
  <2>1. PICK S : S = 0..(k.cond - 1)
    OBVIOUS
  <2>2. k.cond \notin S /\ S \cup {k.cond} \subseteq All
    <3>1. PICK m : m = k.cond /\ m \in Nat
      BY <1>3
    <3>2. All = 0..(9 + used.created) /\ used.created \in Nat
      BY DEF IInv, Bounds, All
    <3>3. m <= 9 + used.created
      BY <1>3, <3>1, <3>2
    <3> QED BY <2>1, <3>1, <3>2, <3>3
  <2>3. lists \in Lists(S \cup {k.cond}, Ok)
    BY <1>1, <1>3, <2>1, <2>2, OkIs, FirstOfCondition
  <2> QED BY <1>4, <2>2, <2>3, OkIs, ListsGrow
<1>6. Created' = Created \ {k.cond} /\ Deleted' = Deleted /\ k.cond \in Created
  <2>1. \A l \in creating : l.cond = k.cond => l = k
    BY DEF LInv, Asked
  <2> QED BY <1>2, <2>1 DEF Created, Deleted
<1>7. ASSUME why' \cap Bad = {}, k.shown.edits = 1..N
      PROVE  lists \in Lists(Safe' \cup {NoCondition}, FALSE)
  <2>1. PICK S : S = Safe \cup {NoCondition}
    OBVIOUS
  <2>2. old \in Lists(S, FALSE) /\ k.cond \in conditions /\ k.cond \notin Deleted
    BY <1>1, <1>2, <1>3, <1>6, <1>7, <2>1 DEF LInv, CondsHeld
  <2>3. k.cond \notin S
    BY <1>3, <1>6, <2>1 DEF Safe, NoCondition
  <2>4. lists \in Lists(S \cup {k.cond}, FALSE)
    <3>1. PICK h \in BOOLEAN : h = FALSE
      OBVIOUS
    <3>2. old \in Lists(S, h)
      BY <2>2, <3>1
    <3>3. lists \in Lists(S \cup {k.cond}, h)
      BY <1>1, <1>3, <2>3, <3>2, FirstOfCondition
    <3> QED BY <3>1, <3>3
  <2>5. S \cup {k.cond} \subseteq Safe' \cup {NoCondition}
    BY <1>2, <1>6, <2>1, <2>2 DEF Safe
  <2>6. PICK T : T = S \cup {k.cond}
    OBVIOUS
  <2>7. PICK U : U = Safe' \cup {NoCondition}
    OBVIOUS
  <2>8. lists \in Lists(T, FALSE) /\ T \subseteq U
    BY <2>4, <2>5, <2>6, <2>7
  <2> QED BY <2>7, <2>8, ListsGrow
<1> HIDE DEF reasons
<1>8. /\ DocsHeld'
      /\ why' \cap Bad = {} =>
            \A e \in Docs' : e.edits = 1..N' => e.lists \in Lists(Safe' \cup {NoCondition}, FALSE)
      /\ All' = All
  BY <1>2, <1>3, <1>5, <1>7, OneNewDoc
<1>9. Asked'
  BY <1>2, <1>8, AskedStays DEF LInv, Asked, AskedBefore
<1>10. CondsHeld'
  BY <1>2, <1>6, <1>8 DEF LInv, CondsHeld
<1> QED BY <1>8, <1>9, <1>10 DEF LInv

(* A request for a condition fails: nothing is undone.                     *)
LEMMA ConditionFailsHolds ==
    ASSUME IInv, LInv, ConditionFails
    PROVE  LInv'
<1>1. used \in [edits : Nat, moves : Nat, created : Nat, trouble : Nat]
  BY DEF IInv, Bounds
<1>2. N' = N /\ All' = All
  BY <1>1 DEF ConditionFails, N, All
<1>3. creating' \subseteq creating /\ deleting' \subseteq deleting
  BY DEF ConditionFails
<1>4. Docs' \subseteq Docs /\ why' = why /\ conditions' = conditions /\ known' = known
  BY <1>3 DEF ConditionFails, Docs
<1> QED BY <1>2, <1>3, <1>4, FewerHold

(* Saving brings no document and no request for a condition.               *)
LEMMA SavingHolds ==
    ASSUME IInv, LInv,
           \/ Send \/ QueryRead \/ QueryAnswered \/ UNCHANGED vars
           \/ \E s \in saves : Stored(s) \/ Saved(s) \/ SaveFails(s)
    PROVE  LInv'
<1>1. used \in [edits : Nat, moves : Nat, created : Nat, trouble : Nat]
  BY DEF IInv, Bounds
<1>2. CASE Send
  <2>1. Docs' \subseteq Docs
    BY <1>2 DEF Send, Docs
  <2> QED BY <1>2, <2>1, FewerHold DEF Send, N, All
<1>3. CASE QueryRead
  <2>1. Docs' \subseteq Docs
    BY <1>3 DEF QueryRead, Docs
  <2> QED BY <1>3, <2>1, FewerHold DEF QueryRead, N, All
<1>4. CASE QueryAnswered
  <2>1. Docs' \subseteq Docs
    BY <1>4 DEF QueryAnswered, Docs
  <2> QED BY <1>4, <2>1, FewerHold DEF QueryAnswered, N, All
<1>5. CASE UNCHANGED vars
  <2>1. Docs' \subseteq Docs
    BY <1>5 DEF vars, Docs
  <2> QED BY <1>5, <2>1, FewerHold DEF vars, N, All
<1>6. ASSUME NEW s \in saves, Stored(s) PROVE LInv'
  <2>1. Docs' \subseteq Docs
    BY <1>6 DEF Stored, Docs
  <2> QED BY <1>6, <2>1, FewerHold DEF Stored, N, All
<1>7. ASSUME NEW s \in saves, Saved(s) PROVE LInv'
  <2>1. Docs' \subseteq Docs
    BY <1>7 DEF Saved, Docs
  <2> QED BY <1>7, <2>1, FewerHold DEF Saved, N, All
<1>8. ASSUME NEW s \in saves, SaveFails(s) PROVE LInv'
  <2>1. Docs' \subseteq Docs
    BY <1>8 DEF SaveFails, Docs
  <2>2. N' = N /\ All' = All
    BY <1>1, <1>8 DEF SaveFails, N, All
  <2> QED BY <1>8, <2>1, <2>2, FewerHold DEF SaveFails
<1> QED BY <1>2, <1>3, <1>4, <1>5, <1>6, <1>7, <1>8

(* The playbook as it is opened.                                           *)
LEMMA InitHolds == Init => LInv
<1> SUFFICES ASSUME Init PROVE LInv
  OBVIOUS
<1>1. PICK lists \in Templates : server = [lists |-> lists, edits |-> {}]
  BY DEF Init
<1>2. /\ conditions = Used(lists) /\ known = Used(lists) /\ used.created = 0 /\ N = 0
      /\ prop = server /\ value = server /\ check = server /\ refetch.doc = server
      /\ saves = {} /\ creating = {} /\ deleting = {}
  BY <1>1 DEF Init, N
<1>3. Docs = {server} /\ server.lists = lists /\ server.edits = {}
  BY <1>1, <1>2 DEF Docs
<1>4. All = 0..9 /\ Created = {} /\ Deleted = {} /\ Safe = Used(lists) /\ Used(lists) \subseteq 1..9
  BY <1>2, EditorAssumption DEF All, Created, Deleted, Safe
<1>5. PICK R : R = Used(lists) \cup {NoCondition}
  OBVIOUS
<1>6. lists \in Seq(Seq(Item(Nat)))
  BY EditorAssumption DEF Item, Task
<1>7. ASSUME NEW g \in BOOLEAN, g => Together(lists) PROVE lists \in Lists(R, g)
  <2>1. lists \in Lists(Nat, g)
    BY <1>6, <1>7, ListsOf
  <2> QED BY <1>5, <2>1, UseOf
<1>8. Ok => Together(lists)
  BY DEF Ok, OpenedTogether
<1>9. lists \in Lists(R, Ok)
  BY <1>7, <1>8, OkIs
<1>10. lists \in Lists(All, Ok)
  <2>1. R \subseteq All
    BY <1>4, <1>5 DEF NoCondition
  <2> QED BY <1>9, <2>1, OkIs, ListsGrow
<1>11. lists \in Lists(Safe \cup {NoCondition}, FALSE)
  BY <1>4, <1>5, <1>7
<1>12. DocsHeld
  BY <1>3, <1>10 DEF DocsHeld
<1>13. Asked
  <2>1. conditions \subseteq All
    BY <1>2, <1>4
  <2> QED BY <1>2, <2>1 DEF Asked
<1>14. CondsHeld
  BY <1>2, <1>3, <1>4, <1>11 DEF CondsHeld
<1> QED BY <1>12, <1>13, <1>14 DEF LInv

(* Each action, then stuttering.                                           *)
LEMMA NextHolds ==
    ASSUME IInv, LInv, [Next]_vars
    PROVE  LInv'
<1>1. \A cond \in Used(value.lists) : OnDeleteCondition(cond) => LInv'
  BY DeleteConditionHolds
<1>2. \A c \in DOMAIN value.lists : \A i \in DOMAIN value.lists[c] : OnCreateCondition(c, i) => LInv'
  BY CreateConditionHolds
<1>3. ItemEdit => LInv'
  BY <1>1, <1>2, ItemEditHolds
<1>4. CASE UNCHANGED vars
  BY <1>4, SavingHolds
<1>5. CASE Next
  BY <1>1, <1>3, <1>5, ChecklistEditHolds, BulkEditHolds, DeleteStoredHolds, DeleteAnsweredHolds,
     CreateStoredHolds, CreateAnsweredHolds, ConditionFailsHolds, SavingHolds DEF Next
<1> QED BY <1>4, <1>5

(* The inductive invariant about the checklists: those that are shown,     *)
(* sent, stored or remembered.                                             *)
THEOREM ListsInvariant == Spec => [](IInv /\ LInv)
<1>1. Init => IInv /\ LInv
  BY InitKeeps, InitHolds
<1>2. (IInv /\ LInv) /\ [Next]_vars => (IInv /\ LInv)'
  BY NextKeeps, NextHolds
<1> QED BY <1>1, <1>2, PTL DEF Spec

(* When all is answered the stored checklists refer only to conditions     *)
(* that are stored and known, unless a save failed or was overtaken, or an *)
(* edit was made to something that lacks earlier ones (useDeleteCondition, *)
(* useCreateCondition and useUpdatePlaybook know nothing of each other).   *)
THEOREM NoConditionGoesMissing == Spec => []NoConditionIsMissing
<1>1. IInv /\ LInv => NoConditionIsMissing
  <2> SUFFICES ASSUME IInv, LInv, Quiet, why \cap Bad = {}
               PROVE  Used(server.lists) \subseteq conditions \cap known
    BY DEF NoConditionIsMissing, Bad
  <2>1. server.edits = 1..N
    BY DEF IInv, Clean, Numbered, LastIsKept, Quiet
  <2>2. PICK R : R = Safe \cup {NoCondition}
    OBVIOUS
  <2>3. PICK h \in BOOLEAN : server.lists \in Lists(R, h)
    BY <2>1, <2>2 DEF LInv, CondsHeld, Docs
  <2>4. Used(server.lists) \subseteq R \ {NoCondition}
    BY <2>3, ListsUse
  <2> QED BY <2>2, <2>4 DEF Safe
<1> QED BY <1>1, ListsInvariant, PTL

(* In a playbook that is opened with the tasks of each condition together  *)
(* they stay together whatever is done, except by the two edits that are   *)
(* named in why (onRemoveFromCondition, handleBulkAddToCondition).         *)
THEOREM GroupsStay ==
    ASSUME OpenedTogether
    PROVE  Spec => []GroupsStayTogether
<1>1. IInv /\ LInv => GroupsStayTogether
  <2> SUFFICES ASSUME LInv, why \cap {"leftLast", "addedInPlace"} = {}
               PROVE  Together(value.lists)
    BY DEF GroupsStayTogether
  <2>1. Ok
    BY OpenedTogether DEF Ok
  <2>2. value.lists \in Lists(All, TRUE)
    BY <2>1 DEF LInv, DocsHeld, Docs
  <2> QED BY <2>2, ListsTogether
<1> QED BY <1>1, ListsInvariant, PTL
=============================================================================
