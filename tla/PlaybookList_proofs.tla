------------------------- MODULE PlaybookList_proofs -------------------------
(***************************************************************************)
(* What the buttons of the list of playbooks hold, which choices it keeps, *)
(* and what it shows at rest, for every number of playbooks, page size and *)
(* bound.                                                                  *)
(***************************************************************************)
EXTENDS PlaybookList, SequenceTheorems, TLAPS

(* A change of the choices begins loading; the screen may keep the old.    *)
LEMMA SetParamsLoads ==
    ASSUME NEW p, NEW under, SetParams(p, under)
    PROVE  ButtonsHoldParams'
BY DEF SetParams, ButtonsHoldParams

(* Where nothing of the list changes and loading does not end, the buttons *)
(* hold what they held.                                                    *)
LEMMA ListUntouched ==
    ASSUME ButtonsHoldParams, UNCHANGED <<params, items, total, screen>>,
           loading' = loading \/ loading' = TRUE
    PROVE  ButtonsHoldParams'
BY DEF ButtonsHoldParams

LEMMA UserStep ==
    ASSUME ButtonsHoldParams, User
    PROVE  ButtonsHoldParams'
<1>1. ASSUME NEW p, Choice(p)
      PROVE  ButtonsHoldParams'
  BY <1>1, SetParamsLoads DEF Choice
<1>2. ASSUME NEW c \in Columns, SortBy(c)
      PROVE  ButtonsHoldParams'
  BY <1>1, <1>2 DEF SortBy
<1>3. CASE OnNextPage
  BY <1>1, <1>3 DEF OnNextPage
<1>4. CASE OnPrevPage
  BY <1>1, <1>4 DEF OnPrevPage
<1>5. CASE SetWithArchived
  BY <1>5, SetParamsLoads DEF SetWithArchived
<1>6. ASSUME NEW term \in BOOLEAN, SetSearchTerm(term)
      PROVE  ButtonsHoldParams'
  BY <1>6, ListUntouched DEF SetSearchTerm, view
<1>7. ASSUME NEW kind \in {"archive", "restore"}, NEW b \in Playbooks, OpenModal(kind, b)
      PROVE  ButtonsHoldParams'
  BY <1>7, ListUntouched DEF OpenModal, view
<1>8. ASSUME NEW kind \in {"archive", "restore"}, OnCancel(kind) \/ OnConfirm(kind)
      PROVE  ButtonsHoldParams'
  BY <1>8, ListUntouched DEF OnCancel, OnConfirm, view
<1>9. ASSUME NEW op \in {"duplicate", "leave"}, NEW b \in Playbooks, OnRow(op, b)
      PROVE  ButtonsHoldParams'
  BY <1>9, ListUntouched DEF OnRow, view
<1> QED
  BY <1>2, <1>3, <1>4, <1>5, <1>6, <1>7, <1>8, <1>9 DEF User

(* An answer makes the screen again from what it brings.                   *)
LEMMA AnswerStep ==
    ASSUME ButtonsHoldParams, Answer
    PROVE  ButtonsHoldParams'
<1>1. ASSUME NEW i \in DOMAIN calls, ShowPage(i)
      PROVE  ButtonsHoldParams'
  BY <1>1 DEF ShowPage, Render, ButtonsHoldParams
<1>2. ASSUME NEW i \in DOMAIN calls, Archived(i)
      PROVE  ButtonsHoldParams'
  BY <1>2, ListUntouched DEF Archived, view
<1>3. ASSUME NEW i \in DOMAIN calls, SetPageLeft(i)
      PROVE  ButtonsHoldParams'
  BY <1>3, SetParamsLoads DEF SetPageLeft
<1>4. ASSUME NEW i \in DOMAIN calls, FetchAgain(i)
      PROVE  ButtonsHoldParams'
  BY <1>4, ListUntouched DEF FetchAgain
<1> QED
  BY <1>1, <1>2, <1>3, <1>4 DEF Answer

LEMMA Step ==
    ASSUME ButtonsHoldParams, [Next]_vars
    PROVE  ButtonsHoldParams'
<1>1. CASE User
  BY <1>1, UserStep
<1>2. CASE Answer
  BY <1>2, AnswerStep
<1>3. CASE Search
  BY <1>3, SetParamsLoads DEF Search
<1>4. ASSUME NEW i \in DOMAIN calls, Serve(i) \/ Fail(i)
      PROVE  ButtonsHoldParams'
  BY <1>4, ListUntouched DEF Serve, Fail, view
<1>5. ASSUME NEW b \in Playbooks, ArchivedByOther(b)
      PROVE  ButtonsHoldParams'
  BY <1>5, ListUntouched DEF ArchivedByOther, view
<1>6. ASSUME NEW kind \in {"archive", "restore"}, BannerTimeout(kind)
      PROVE  ButtonsHoldParams'
  BY <1>6, ListUntouched DEF BannerTimeout, view
<1>7. CASE UNCHANGED vars
  BY <1>7, ListUntouched DEF vars, view
<1> QED
  BY <1>1, <1>2, <1>3, <1>4, <1>5, <1>6, <1>7 DEF Next

(* Whenever nothing loads, the buttons of the list of playbooks hold the   *)
(* list's own params, and the rows are its items (content.current).        *)
THEOREM ButtonsStayCurrent == Spec => []ButtonsHoldParams
<1>1. Init => ButtonsHoldParams
  BY DEF Init, ButtonsHoldParams
<1>2. ButtonsHoldParams /\ [Next]_vars => ButtonsHoldParams'
  BY Step
<1> QED
  BY <1>1, <1>2, PTL DEF Spec

-----------------------------------------------------------------------------
(* Sequences, whatever they hold. *)

IsSeq(s) == Len(s) \in Nat /\ s = [i \in 1 .. Len(s) |-> s[i]]

LEMMA AnySeq ==
    ASSUME NEW S, NEW s \in Seq(S)
    PROVE  IsSeq(s) /\ DOMAIN s = 1 .. Len(s)
BY LenProperties DEF IsSeq

LEMMA HoldsItsElements ==
    ASSUME NEW s, IsSeq(s), NEW T
    PROVE  s \in Seq({s[i] : i \in 1 .. Len(s)} \cup T) /\ DOMAIN s = 1 .. Len(s)
<1>1. \A i \in 1 .. Len(s) : s[i] \in {s[j] : j \in 1 .. Len(s)} \cup T
  OBVIOUS
<1>2. [i \in 1 .. Len(s) |-> s[i]] \in Seq({s[j] : j \in 1 .. Len(s)} \cup T)
  BY <1>1, IsASeq DEF IsSeq
<1> QED
  BY <1>2 DEF IsSeq

LEMMA NothingIsSeq == IsSeq(<<>>) /\ Len(<<>>) = 0 /\ DOMAIN <<>> = {}
<1>1. <<>> \in Seq({}) /\ Len(<<>>) = 0
  BY EmptySeq
<1>2. IsSeq(<<>>) /\ DOMAIN <<>> = 1 .. 0
  BY <1>1, AnySeq
<1> QED
  BY <1>1, <1>2

(* A function on a beginning of the naturals is one.                       *)
LEMMA MadeIsSeq ==
    ASSUME NEW n \in Nat, NEW s, s = [i \in 1 .. n |-> s[i]]
    PROVE  IsSeq(s) /\ Len(s) = n
<1>1. [i \in 1 .. n |-> s[i]] \in Seq({s[i] : i \in 1 .. n})
  BY IsASeq
<1>2. s \in Seq({s[i] : i \in 1 .. n}) /\ DOMAIN s = 1 .. n
  BY <1>1
<1>3. IsSeq(s) /\ DOMAIN s = 1 .. Len(s) /\ Len(s) \in Nat
  BY <1>2, AnySeq DEF IsSeq
<1>4. Len(s) = n
  BY <1>2, <1>3
<1> QED
  BY <1>3, <1>4

LEMMA AppendIsSeq ==
    ASSUME NEW s, IsSeq(s), NEW e
    PROVE  /\ IsSeq(Append(s, e)) /\ Len(Append(s, e)) = Len(s) + 1
           /\ \A i \in 1 .. Len(s) : Append(s, e)[i] = s[i]
           /\ Append(s, e)[Len(s) + 1] = e
<1> DEFINE S == {s[i] : i \in 1 .. Len(s)} \cup {e}
<1>1. s \in Seq(S) /\ e \in S
  BY HoldsItsElements
<1> HIDE DEF S
<1>2. /\ Append(s, e) \in Seq(S) /\ Len(Append(s, e)) = Len(s) + 1
      /\ \A i \in 1 .. Len(s) : Append(s, e)[i] = s[i]
      /\ Append(s, e)[Len(s) + 1] = e
  BY <1>1, AppendProperties
<1>3. IsSeq(Append(s, e))
  BY <1>2, AnySeq
<1> QED
  BY <1>2, <1>3

LEMMA TailIsSeq ==
    ASSUME NEW s, IsSeq(s), s # <<>>
    PROVE  /\ IsSeq(Tail(s)) /\ Len(Tail(s)) = Len(s) - 1 /\ Len(s) \in Nat \ {0}
           /\ \A i \in 1 .. (Len(s) - 1) : Tail(s)[i] = s[i + 1]
           /\ Head(s) = s[1]
<1> DEFINE S == {s[i] : i \in 1 .. Len(s)} \cup {}
<1>1. s \in Seq(S)
  BY HoldsItsElements
<1> HIDE DEF S
<1>2. Tail(s) \in Seq(S) /\ Len(Tail(s)) = Len(s) - 1
      /\ \A i \in 1 .. Len(Tail(s)) : Tail(s)[i] = s[i + 1]
  BY <1>1, HeadTailProperties
<1>3. Len(s) \in Nat \ {0}
  BY <1>1, EmptySeq
<1>4. IsSeq(Tail(s))
  BY <1>2, AnySeq
<1>5. Head(s) = s[1]
  BY <1>1, <1>3
<1> QED
  BY <1>2, <1>3, <1>4, <1>5

LEMMA CutIsSeq ==
    ASSUME NEW s, IsSeq(s), NEW m \in Int, NEW n \in Int, 1 <= m, n <= Len(s), m <= n + 1
    PROVE  /\ IsSeq(SubSeq(s, m, n)) /\ Len(SubSeq(s, m, n)) = n - m + 1
           /\ \A i \in 1 .. (n - m + 1) : SubSeq(s, m, n)[i] = s[m + i - 1]
<1> DEFINE S == {s[i] : i \in 1 .. Len(s)}
<1>1. \A i \in m .. n : s[i] \in S
  BY DEF IsSeq
<1> HIDE DEF S
<1>2. /\ SubSeq(s, m, n) \in Seq(S)
      /\ Len(SubSeq(s, m, n)) = IF m <= n THEN n - m + 1 ELSE 0
      /\ \A i \in 1 .. (n - m + 1) : SubSeq(s, m, n)[i] = s[m + i - 1]
  BY <1>1, SubSeqProperties
<1>3. IsSeq(SubSeq(s, m, n))
  BY <1>2, AnySeq
<1>4. Len(SubSeq(s, m, n)) = n - m + 1
  BY <1>2
<1> QED
  BY <1>2, <1>3, <1>4

LEMMA RemovedIsSeq ==
    ASSUME NEW s, IsSeq(s), NEW i \in 1 .. Len(s)
    PROVE  /\ IsSeq(RemoveAt(s, i)) /\ Len(RemoveAt(s, i)) = Len(s) - 1
           /\ \A j \in 1 .. (Len(s) - 1) :
                RemoveAt(s, i)[j] = IF j < i THEN s[j] ELSE s[j + 1]
<1> DEFINE a == SubSeq(s, 1, i - 1)
           b == SubSeq(s, i + 1, Len(s))
           S == {a[j] : j \in 1 .. Len(a)} \cup {b[j] : j \in 1 .. Len(b)}
<1>1. Len(s) \in Nat /\ i \in Int /\ 1 <= i /\ i <= Len(s)
  BY DEF IsSeq
<1>2. /\ IsSeq(a) /\ Len(a) = i - 1
      /\ \A j \in 1 .. (i - 1) : a[j] = s[j]
  BY <1>1, CutIsSeq
<1>3. /\ IsSeq(b) /\ Len(b) = Len(s) - i
      /\ \A j \in 1 .. (Len(s) - i) : b[j] = s[i + j]
  <2>1. i + 1 \in Int /\ Len(s) \in Int /\ 1 <= i + 1 /\ i + 1 <= Len(s) + 1 /\ Len(s) <= Len(s)
    BY <1>1
  <2>2. /\ IsSeq(b) /\ Len(b) = Len(s) - (i + 1) + 1
        /\ \A j \in 1 .. (Len(s) - (i + 1) + 1) : b[j] = s[(i + 1) + j - 1]
    BY <2>1, CutIsSeq
  <2>3. Len(s) - (i + 1) + 1 = Len(s) - i
    BY <1>1
  <2>4. ASSUME NEW j \in 1 .. (Len(s) - i)
        PROVE  b[j] = s[i + j]
    <3>1. (i + 1) + j - 1 = i + j /\ j \in 1 .. (Len(s) - (i + 1) + 1)
      BY <1>1
    <3>2. b[j] = s[(i + 1) + j - 1]
      BY <2>2, <3>1
    <3> QED
      BY <3>1, <3>2
  <2>5. Len(b) = Len(s) - i
    BY <2>2, <2>3
  <2> HIDE DEF b
  <2> QED
    BY <2>2, <2>4, <2>5
<1>4. a \in Seq(S) /\ b \in Seq(S)
  <2>1. a \in Seq({a[j] : j \in 1 .. Len(a)} \cup {b[j] : j \in 1 .. Len(b)})
    BY <1>2, HoldsItsElements
  <2>2. b \in Seq({b[j] : j \in 1 .. Len(b)} \cup {a[j] : j \in 1 .. Len(a)})
    BY <1>3, HoldsItsElements
  <2>3. {b[j] : j \in 1 .. Len(b)} \cup {a[j] : j \in 1 .. Len(a)} = S
    OBVIOUS
  <2> QED
    BY <2>1, <2>2, <2>3
<1>5. RemoveAt(s, i) = a \o b
  BY DEF RemoveAt
<1> HIDE DEF a, b, S
<1>6. /\ a \o b \in Seq(S) /\ Len(a \o b) = Len(a) + Len(b)
      /\ \A j \in 1 .. (Len(a) + Len(b)) : (a \o b)[j] = IF j <= Len(a) THEN a[j] ELSE b[j - Len(a)]
  BY <1>4, ConcatProperties
<1>7. Len(a) + Len(b) = Len(s) - 1
  BY <1>1, <1>2, <1>3
<1>8. ASSUME NEW j \in 1 .. (Len(s) - 1)
      PROVE  (a \o b)[j] = IF j < i THEN s[j] ELSE s[j + 1]
  <2>1. CASE j < i
    BY <1>1, <1>2, <1>6, <1>7, <2>1
  <2>2. CASE ~(j < i)
    <3>1. j - (i - 1) \in 1 .. (Len(s) - i) /\ i + (j - (i - 1)) = j + 1 /\ ~(j <= i - 1)
      BY <1>1, <2>2
    <3> QED
      BY <1>2, <1>3, <1>6, <1>7, <2>2, <3>1
  <2> QED
    BY <2>1, <2>2
<1> QED
  BY <1>5, <1>6, <1>7, <1>8, AnySeq

-----------------------------------------------------------------------------
(* Params, calls and searches are records. *)

IsParams(p) ==
    p = [sort |-> p.sort, direction |-> p.direction, page |-> p.page,
         search_term |-> p.search_term, with_archived |-> p.with_archived]

IsCall(c) ==
    c = [op |-> c.op, id |-> c.id, for |-> c.for, step |-> c.step, answer |-> c.answer,
         late |-> c.late]

IsSearch(s) == s = [term |-> s.term, for |-> s.for, live |-> s.live]

LEMMA ParamsSet ==
    ASSUME NEW p, IsParams(p), NEW v
    PROVE  /\ IsParams([p EXCEPT !.page = v]) /\ IsParams([p EXCEPT !.with_archived = v])
           /\ IsParams([p EXCEPT !.direction = v])
           /\ [p EXCEPT !.page = v] = [sort |-> p.sort, direction |-> p.direction, page |-> v,
                    search_term |-> p.search_term, with_archived |-> p.with_archived]
           /\ [p EXCEPT !.with_archived = v] = [sort |-> p.sort, direction |-> p.direction,
                    page |-> p.page, search_term |-> p.search_term, with_archived |-> v]
           /\ [p EXCEPT !.direction = v] = [sort |-> p.sort, direction |-> v,
                    page |-> p.page, search_term |-> p.search_term,
                    with_archived |-> p.with_archived]
           /\ [p EXCEPT !.search_term = v] = [sort |-> p.sort, direction |-> p.direction,
                    page |-> p.page, search_term |-> v, with_archived |-> p.with_archived]
BY DEF IsParams

LEMMA ParamsSetTwo ==
    ASSUME NEW p, IsParams(p), NEW v, NEW w
    PROVE  /\ [p EXCEPT !.search_term = v, !.page = w] =
                [sort |-> p.sort, direction |-> p.direction, page |-> w,
                 search_term |-> v, with_archived |-> p.with_archived]
           /\ [p EXCEPT !.sort = v, !.direction = w] =
                [sort |-> v, direction |-> w, page |-> p.page,
                 search_term |-> p.search_term, with_archived |-> p.with_archived]
<1>1. PICK q : q = [p EXCEPT !.search_term = v]
  OBVIOUS
<1>2. q = [sort |-> p.sort, direction |-> p.direction, page |-> p.page,
           search_term |-> v, with_archived |-> p.with_archived]
  BY <1>1, ParamsSet
<1>3. [q EXCEPT !.page = w] = [sort |-> p.sort, direction |-> p.direction, page |-> w,
                               search_term |-> v, with_archived |-> p.with_archived]
  BY <1>2
<1>4. PICK r : r = [p EXCEPT !.sort = v]
  OBVIOUS
<1>5. r = [sort |-> v, direction |-> p.direction, page |-> p.page,
           search_term |-> p.search_term, with_archived |-> p.with_archived]
  BY <1>4 DEF IsParams
<1>6. [r EXCEPT !.direction = w] =
        [sort |-> v, direction |-> w, page |-> p.page,
         search_term |-> p.search_term, with_archived |-> p.with_archived]
  BY <1>5
<1> QED
  BY <1>1, <1>3, <1>4, <1>6

LEMMA CallMade ==
    ASSUME NEW op, NEW id, NEW p
    PROVE  /\ IsCall(Call(op, id, p)) /\ Call(op, id, p).op = op /\ Call(op, id, p).id = id
           /\ Call(op, id, p).for = p /\ Call(op, id, p).step = "sent"
           /\ ~Call(op, id, p).late
BY DEF Call, IsCall

LEMMA CallSet ==
    ASSUME NEW c, IsCall(c), NEW v, NEW w
    PROVE  /\ [c EXCEPT !.late = v] = [op |-> c.op, id |-> c.id, for |-> c.for,
                    step |-> c.step, answer |-> c.answer, late |-> v]
           /\ [c EXCEPT !.step = v, !.answer = w] = [op |-> c.op, id |-> c.id, for |-> c.for,
                    step |-> v, answer |-> w, late |-> c.late]
<1>1. [c EXCEPT !.late = v] = [op |-> c.op, id |-> c.id, for |-> c.for,
                               step |-> c.step, answer |-> c.answer, late |-> v]
  BY DEF IsCall
<1>2. PICK d : d = [c EXCEPT !.step = v]
  OBVIOUS
<1>3. d = [op |-> c.op, id |-> c.id, for |-> c.for, step |-> v, answer |-> c.answer,
           late |-> c.late]
  BY <1>2 DEF IsCall
<1>4. [d EXCEPT !.answer = w] = [op |-> c.op, id |-> c.id, for |-> c.for,
                                 step |-> v, answer |-> w, late |-> c.late]
  BY <1>3
<1> QED
  BY <1>1, <1>2, <1>4

LEMMA CallAnswered ==
    ASSUME NEW c, IsCall(c), NEW a, NEW d, d = [c EXCEPT !.step = "done", !.answer = a]
    PROVE  d = [op |-> c.op, id |-> c.id, for |-> c.for, step |-> "done", answer |-> a,
                late |-> c.late]
<1>1. PICK v : v = "done"
  OBVIOUS
<1>2. d = [c EXCEPT !.step = v, !.answer = a]
  BY <1>1
<1> QED
  BY <1>1, <1>2, CallSet

LEMMA CallLate ==
    ASSUME NEW c, IsCall(c), NEW v, NEW d, d = [c EXCEPT !.late = v]
    PROVE  /\ IsCall(d) /\ d.op = c.op /\ d.id = c.id /\ d.for = c.for
           /\ d.step = c.step /\ d.answer = c.answer /\ d.late = v
<1>1. d = [op |-> c.op, id |-> c.id, for |-> c.for, step |-> c.step, answer |-> c.answer,
           late |-> v]
  BY CallSet
<1> QED
  BY <1>1 DEF IsCall

(* A call that another answer overtook is the same call.                   *)
LEMMA CallFlagged ==
    ASSUME NEW c, IsCall(c), NEW flag \in BOOLEAN, NEW d, d = [c EXCEPT !.late = flag]
    PROVE  IsCall(d) /\ d.op = c.op /\ d.for = c.for /\ (flag => d.late)
<1>1. PICK v : v = flag
  OBVIOUS
<1>2. d = [c EXCEPT !.late = v]
  BY <1>1
<1>3. IsCall(d) /\ d.op = c.op /\ d.for = c.for /\ d.late = v
  BY <1>2, CallLate
<1> QED
  BY <1>1, <1>3

LEMMA CallOvertaken ==
    ASSUME NEW c, IsCall(c), NEW op, NEW d, d = [c EXCEPT !.late = op \in {"list", "count"}]
    PROVE  IsCall(d) /\ d.op = c.op /\ d.for = c.for /\ (op = "list" => d.late)
<1> DEFINE flag == op \in {"list", "count"}
<1>1. d = [c EXCEPT !.late = flag]
  OBVIOUS
<1>2. flag \in BOOLEAN /\ (op = "list" => flag)
  OBVIOUS
<1> HIDE DEF flag
<1>3. IsCall(d) /\ d.op = c.op /\ d.for = c.for /\ (flag => d.late)
  BY <1>1, <1>2, CallFlagged, Zenon
<1> QED
  BY <1>2, <1>3

LEMMA SearchSet ==
    ASSUME NEW s, IsSearch(s), NEW v
    PROVE  [s EXCEPT !.live = v] = [term |-> s.term, for |-> s.for, live |-> v]
BY DEF IsSearch

-----------------------------------------------------------------------------
(* The calls under way, and what steps do to them. *)

CallsInv == IsSeq(calls) /\ \A i \in 1 .. Len(calls) : IsCall(calls[i])

(* Each of these calls is one of those under way, maybe answered by now.   *)
Remaining(s) ==
    /\ IsSeq(s)
    /\ \A j \in 1 .. Len(s) :
        /\ IsCall(s[j])
        /\ \E k \in 1 .. Len(calls) : s[j].op = calls[k].op /\ s[j].for = calls[k].for

LEMMA AllRemain ==
    ASSUME CallsInv
    PROVE  Remaining(calls)
BY DEF CallsInv, Remaining

LEMMA EndedCalls ==
    ASSUME CallsInv, NEW i \in DOMAIN calls
    PROVE  /\ i \in 1 .. Len(calls) /\ Len(calls) \in Nat
           /\ IsSeq(Ended(i)) /\ Len(Ended(i)) = Len(calls) - 1
           /\ \A j \in 1 .. (Len(calls) - 1) : j < i =>
                /\ IsCall(Ended(i)[j])
                /\ Ended(i)[j].op = calls[j].op /\ Ended(i)[j].for = calls[j].for
                /\ calls[i].op = "list" => Ended(i)[j].late
           /\ \A j \in 1 .. (Len(calls) - 1) : ~(j < i) => Ended(i)[j] = calls[j + 1]
<1>1. DOMAIN calls = 1 .. Len(calls) /\ Len(calls) \in Nat
  BY HoldsItsElements DEF CallsInv, IsSeq
<1>2. i \in 1 .. Len(calls) /\ Len(calls) - 1 \in Nat
  BY <1>1
<1> DEFINE n == Len(calls) - 1
           e == Ended(i)
<1>3. e = [j \in 1 .. n |-> IF j < i
                THEN [calls[j] EXCEPT !.late = calls[i].op \in {"list", "count"}]
                ELSE calls[j + 1]]
  BY DEF Ended
<1>4. e = [j \in 1 .. n |-> e[j]]
  BY <1>3
<1>5. IsSeq(e) /\ Len(e) = n
  <2> HIDE DEF e
  <2>1. n \in Nat
    BY <1>2
  <2> HIDE DEF n
  <2> QED
    BY <1>4, <2>1, MadeIsSeq
<1>6. ASSUME NEW j \in 1 .. n, j < i
      PROVE  /\ IsCall(e[j]) /\ e[j].op = calls[j].op /\ e[j].for = calls[j].for
             /\ calls[i].op = "list" => e[j].late
  <2>1. j \in 1 .. Len(calls) /\ IsCall(calls[j])
    BY <1>1 DEF CallsInv
  <2>2. e[j] = [calls[j] EXCEPT !.late = calls[i].op \in {"list", "count"}]
    BY <1>3, <1>6
  <2>3. PICK c, op, d : c = calls[j] /\ op = calls[i].op /\ d = e[j]
    OBVIOUS
  <2>4. IsCall(c) /\ d = [c EXCEPT !.late = op \in {"list", "count"}]
    BY <2>1, <2>2, <2>3, Zenon
  <2>5. IsCall(d) /\ d.op = c.op /\ d.for = c.for /\ (op = "list" => d.late)
    BY <2>4, CallOvertaken, Zenon
  <2> HIDE DEF e
  <2> QED
    BY <2>3, <2>5
<1>7. ASSUME NEW j \in 1 .. n, ~(j < i)
      PROVE  e[j] = calls[j + 1]
  BY <1>3, <1>7
<1> HIDE DEF e
<1> QED
  BY <1>1, <1>2, <1>5, <1>6, <1>7 DEF e

LEMMA EndedRemain ==
    ASSUME CallsInv, NEW i \in DOMAIN calls
    PROVE  Remaining(Ended(i))
<1>1. /\ i \in 1 .. Len(calls) /\ Len(calls) \in Nat
      /\ IsSeq(Ended(i)) /\ Len(Ended(i)) = Len(calls) - 1
      /\ \A j \in 1 .. (Len(calls) - 1) : j < i =>
            /\ IsCall(Ended(i)[j])
            /\ Ended(i)[j].op = calls[j].op /\ Ended(i)[j].for = calls[j].for
      /\ \A j \in 1 .. (Len(calls) - 1) : ~(j < i) => Ended(i)[j] = calls[j + 1]
  BY EndedCalls
<1>2. ASSUME NEW j \in 1 .. Len(Ended(i))
      PROVE  /\ IsCall(Ended(i)[j])
             /\ \E k \in 1 .. Len(calls) : /\ Ended(i)[j].op = calls[k].op
                                           /\ Ended(i)[j].for = calls[k].for
  <2>1. j \in 1 .. (Len(calls) - 1) /\ j \in 1 .. Len(calls) /\ j + 1 \in 1 .. Len(calls)
    BY <1>1
  <2>2. CASE j < i
    BY <1>1, <2>1, <2>2
  <2>3. CASE ~(j < i)
    BY <1>1, <2>1, <2>3 DEF CallsInv
  <2> QED
    BY <2>2, <2>3
<1> QED
  BY <1>1, <1>2 DEF Remaining

LEMMA RemovedRemain ==
    ASSUME CallsInv, NEW i \in DOMAIN calls
    PROVE  Remaining(RemoveAt(calls, i))
<1>1. DOMAIN calls = 1 .. Len(calls) /\ Len(calls) \in Nat
  BY HoldsItsElements DEF CallsInv, IsSeq
<1>2. /\ IsSeq(RemoveAt(calls, i)) /\ Len(RemoveAt(calls, i)) = Len(calls) - 1
      /\ \A j \in 1 .. (Len(calls) - 1) :
            RemoveAt(calls, i)[j] = IF j < i THEN calls[j] ELSE calls[j + 1]
  BY <1>1, RemovedIsSeq DEF CallsInv
<1>3. \A j \in 1 .. (Len(calls) - 1) : j \in 1 .. Len(calls) /\ j + 1 \in 1 .. Len(calls)
  BY <1>1
<1> QED
  BY <1>2, <1>3 DEF Remaining, CallsInv

(* A call that is served keeps its place and what it is for.               *)
Answered(s, i, a) ==
    /\ IsSeq(s) /\ Len(s) = Len(calls) /\ i \in 1 .. Len(calls)
    /\ s[i] = [op |-> calls[i].op, id |-> calls[i].id, for |-> calls[i].for,
               step |-> "done", answer |-> a, late |-> calls[i].late]
    /\ \A j \in 1 .. Len(calls) : j # i => s[j] = calls[j]

LEMMA ServedCalls ==
    ASSUME CallsInv, NEW i \in DOMAIN calls, NEW a, NEW s,
           s = [calls EXCEPT ![i].step = "done", ![i].answer = a]
    PROVE  Answered(s, i, a)
<1>1. /\ DOMAIN calls = 1 .. Len(calls) /\ Len(calls) \in Nat
      /\ calls = [j \in 1 .. Len(calls) |-> calls[j]]
  BY HoldsItsElements DEF CallsInv, IsSeq
<1> DEFINE d == [calls[i] EXCEPT !.step = "done", !.answer = a]
<1>2. s = [calls EXCEPT ![i] = d]
  BY <1>1
<1>3. d = [op |-> calls[i].op, id |-> calls[i].id, for |-> calls[i].for,
           step |-> "done", answer |-> a, late |-> calls[i].late]
  <2>1. i \in 1 .. Len(calls) /\ IsCall(calls[i])
    BY <1>1 DEF CallsInv
  <2>2. d = [calls[i] EXCEPT !.step = "done", !.answer = a]
    OBVIOUS
  <2> HIDE DEF d
  <2> QED
    BY <2>1, <2>2, CallAnswered, Zenon
<1> HIDE DEF d
<1>4. /\ s = [j \in 1 .. Len(calls) |-> s[j]]
      /\ s[i] = d /\ \A j \in 1 .. Len(calls) : j # i => s[j] = calls[j]
  BY <1>1, <1>2
<1>5. IsSeq(s) /\ Len(s) = Len(calls)
  BY <1>1, <1>4, MadeIsSeq
<1>6. s[i] = [op |-> calls[i].op, id |-> calls[i].id, for |-> calls[i].for,
              step |-> "done", answer |-> a, late |-> calls[i].late]
  BY <1>3, <1>4
<1>7. i \in 1 .. Len(calls)
  BY <1>1
<1> QED
  BY <1>4, <1>5, <1>6, <1>7 DEF Answered

LEMMA AnsweredRemain ==
    ASSUME CallsInv, NEW s, NEW i, NEW a, Answered(s, i, a)
    PROVE  Remaining(s)
<1>1. IsCall(s[i]) /\ s[i].op = calls[i].op /\ s[i].for = calls[i].for
  BY DEF Answered, IsCall
<1> QED
  BY <1>1 DEF Answered, Remaining, CallsInv

(* A call that begins comes last.                                          *)
LEMMA BegunCall ==
    ASSUME NEW s, Remaining(s), NEW op, NEW id, NEW p
    PROVE  LET t == Append(s, Call(op, id, p))
           IN  /\ IsSeq(t) /\ Len(t) = Len(s) + 1 /\ Len(s) \in Nat
               /\ \A j \in 1 .. Len(s) : t[j] = s[j]
               /\ IsCall(t[Len(t)]) /\ t[Len(t)].op = op /\ t[Len(t)].id = id
               /\ t[Len(t)].for = p /\ t[Len(t)].step = "sent" /\ ~t[Len(t)].late
<1> DEFINE c == Call(op, id, p)
<1>1. IsCall(c) /\ c.op = op /\ c.id = id /\ c.for = p /\ c.step = "sent" /\ ~c.late
  BY CallMade
<1> HIDE DEF c
<1>2. /\ IsSeq(Append(s, c)) /\ Len(Append(s, c)) = Len(s) + 1 /\ Len(s) \in Nat
      /\ \A j \in 1 .. Len(s) : Append(s, c)[j] = s[j]
      /\ Append(s, c)[Len(s) + 1] = c
  BY AppendIsSeq DEF Remaining, IsSeq
<1> QED
  BY <1>1, <1>2 DEF c

-----------------------------------------------------------------------------
(* What was chosen, what is fetched, and what waits to change it. *)

SameButTerm(p, q) ==
    p.sort = q.sort /\ p.direction = q.direction /\ p.with_archived = q.with_archived

SameChoices(p, q) == SameButTerm(p, q) /\ p.search_term = q.search_term

Rash == {"typing", "frozen", "underWay"}

(* Searches that wait hold the other choices of now.                       *)
SearchesAgree(waiting, p) ==
    /\ IsSeq(waiting)
    /\ \A i \in 1 .. Len(waiting) :
        IsSearch(waiting[i]) /\ IsParams(waiting[i].for) /\ SameButTerm(waiting[i].for, p)

(* So do calls to archive, which will set the params they hold.            *)
ArchivesAgree(under, p) ==
    \A i \in 1 .. Len(under) : under[i].op \in {"archive", "count"} =>
        IsParams(under[i].for) /\ SameChoices(under[i].for, p)

(* The term the user sees is that of the search typed last. *)
LastTerm(waiting, p) ==
    IF Len(waiting) = 0 THEN p.search_term ELSE waiting[Len(waiting)].term

KeptInv ==
    why \cap Rash = {} =>
        /\ IsParams(params) /\ IsParams(asked)
        /\ SearchesAgree(pending, params)
        /\ ArchivesAgree(calls, params)
        /\ SameButTerm(params, asked)
        /\ asked.search_term = LastTerm(pending, params)

(* A history only grows.                                                   *)
LEMMA WhyGrows ==
    ASSUME [Next]_vars
    PROVE  why \subseteq why'
<1>1. ASSUME NEW p, Choice(p) PROVE why \subseteq why'
  BY <1>1 DEF Choice, Chosen
<1>2. CASE User
  BY <1>1, <1>2 DEF User, SortBy, OnNextPage, OnPrevPage, SetWithArchived, SetSearchTerm,
        OpenModal, OnCancel, OnConfirm, OnRow, Chosen
<1>3. CASE Answer
  BY <1>3 DEF Answer, ShowPage, Archived, SetPageLeft, FetchAgain
<1>4. CASE Search
  BY <1>4 DEF Search
<1>5. ASSUME NEW i \in DOMAIN calls, Serve(i) \/ Fail(i) PROVE why \subseteq why'
  BY <1>5 DEF Serve, Fail
<1>6. ASSUME NEW b \in Playbooks, ArchivedByOther(b) PROVE why \subseteq why'
  BY <1>6 DEF ArchivedByOther
<1>7. ASSUME NEW kind \in {"archive", "restore"}, BannerTimeout(kind) PROVE why \subseteq why'
  BY <1>7 DEF BannerTimeout
<1>8. CASE UNCHANGED vars
  BY <1>8 DEF vars
<1> QED
  BY <1>2, <1>3, <1>4, <1>5, <1>6, <1>7, <1>8 DEF Next

(* Searches that are cut off by a rendering keep their term and params.    *)
LEMMA DeadSearches ==
    ASSUME NEW waiting, NEW dead, NEW p, SearchesAgree(waiting, p),
           dead = [i \in DOMAIN waiting |-> [waiting[i] EXCEPT !.live = FALSE]]
    PROVE  SearchesAgree(dead, p) /\ LastTerm(dead, p) = LastTerm(waiting, p)
<1>1. DOMAIN waiting = 1 .. Len(waiting) /\ Len(waiting) \in Nat
  BY HoldsItsElements DEF SearchesAgree, IsSeq
<1>2. dead = [i \in 1 .. Len(waiting) |-> dead[i]]
  BY <1>1
<1>3. IsSeq(dead) /\ Len(dead) = Len(waiting)
  BY <1>1, <1>2, MadeIsSeq
<1>4. ASSUME NEW i \in 1 .. Len(waiting)
      PROVE  dead[i] = [term |-> waiting[i].term, for |-> waiting[i].for, live |-> FALSE]
  <2>1. IsSearch(waiting[i])
    BY DEF SearchesAgree
  <2>2. dead[i] = [waiting[i] EXCEPT !.live = FALSE]
    BY <1>1
  <2> QED
    BY <2>1, <2>2, SearchSet, Zenon
<1>5. ASSUME NEW i \in 1 .. Len(waiting)
      PROVE  /\ IsSearch(dead[i]) /\ dead[i].for = waiting[i].for
             /\ dead[i].term = waiting[i].term
  <2>1. PICK d : d = dead[i]
    OBVIOUS
  <2>2. d = [term |-> waiting[i].term, for |-> waiting[i].for, live |-> FALSE]
    BY <1>4, <2>1
  <2>3. IsSearch(d) /\ d.for = waiting[i].for /\ d.term = waiting[i].term
    BY <2>2 DEF IsSearch
  <2> QED
    BY <2>1, <2>3
<1>6. SearchesAgree(dead, p)
  BY <1>3, <1>5 DEF SearchesAgree
<1>7. Len(waiting) # 0 => Len(waiting) \in 1 .. Len(waiting)
  BY <1>1
<1>8. LastTerm(dead, p) = LastTerm(waiting, p)
  BY <1>3, <1>5, <1>7 DEF LastTerm
<1> QED
  BY <1>6, <1>8

(* Nothing chosen, nothing set: calls begin and end, and a page is shown.  *)
LEMMA NothingChosen ==
    ASSUME KeptInv, why \subseteq why', UNCHANGED <<params, asked>>,
           UNCHANGED pending
           \/ pending' = [i \in DOMAIN pending |-> [pending[i] EXCEPT !.live = FALSE]],
           why \cap Rash = {} => ArchivesAgree(calls', params)
    PROVE  KeptInv'
<1> SUFFICES ASSUME why' \cap Rash = {}
             PROVE  /\ IsParams(params') /\ IsParams(asked')
                    /\ SearchesAgree(pending', params')
                    /\ ArchivesAgree(calls', params')
                    /\ SameButTerm(params', asked')
                    /\ asked'.search_term = LastTerm(pending', params')
  BY DEF KeptInv
<1>1. /\ IsParams(params) /\ IsParams(asked)
      /\ SearchesAgree(pending, params)
      /\ ArchivesAgree(calls', params)
      /\ SameButTerm(params, asked)
      /\ asked.search_term = LastTerm(pending, params)
  BY DEF KeptInv
<1>2. SearchesAgree(pending', params) /\ LastTerm(pending', params) = LastTerm(pending, params)
  BY <1>1, DeadSearches
<1> QED
  BY <1>1, <1>2

(* Calls that were there before still agree.                               *)
LEMMA RemainingAgree ==
    ASSUME NEW s, Remaining(s), NEW p, ArchivesAgree(calls, p)
    PROVE  ArchivesAgree(s, p)
BY DEF Remaining, ArchivesAgree

(* A call that begins does no harm, unless it is to archive with others.   *)
LEMMA BegunAgrees ==
    ASSUME NEW s, Remaining(s), NEW p, ArchivesAgree(calls, p), NEW op, NEW id, NEW q,
           op \in {"archive", "count"} => IsParams(q) /\ SameChoices(q, p)
    PROVE  ArchivesAgree(Append(s, Call(op, id, q)), p)
<1>1. PICK t : t = Append(s, Call(op, id, q))
  OBVIOUS
<1>2. /\ Len(t) = Len(s) + 1 /\ Len(s) \in Nat
      /\ \A j \in 1 .. Len(s) : t[j] = s[j]
      /\ t[Len(t)].op = op /\ t[Len(t)].for = q
  BY <1>1, BegunCall
<1>3. ArchivesAgree(s, p)
  BY RemainingAgree
<1>4. ASSUME NEW j \in 1 .. Len(t), t[j].op \in {"archive", "count"}
      PROVE  IsParams(t[j].for) /\ SameChoices(t[j].for, p)
  <2>1. j \in 1 .. Len(s) \/ j = Len(t)
    BY <1>2
  <2> QED
    BY <1>2, <1>3, <1>4, <2>1 DEF ArchivesAgree
<1> QED
  BY <1>1, <1>4 DEF ArchivesAgree

LEMMA SelfSame == \A p : SameChoices(p, p)
BY DEF SameChoices, SameButTerm

-----------------------------------------------------------------------------
(* The steps that choose or set. *)

(* Before a choice that could not go wrong nothing waits, nothing is under *)
(* way for a row, and the buttons hold the params.                         *)
LEMMA CalmChoice ==
    ASSUME CallsInv, why' \cap Rash = {}, Hasty \subseteq why', pending = <<>> \/ IsSeq(pending)
    PROVE  /\ screen.params = params /\ pending = <<>>
           /\ \A i \in 1 .. Len(calls) : calls[i].op = "list"
<1>1. DOMAIN calls = 1 .. Len(calls)
  BY HoldsItsElements DEF CallsInv
<1> QED
  BY <1>1 DEF Hasty, Rash, OwnCall

LEMMA FreshList ==
    ASSUME CallsInv, \A i \in 1 .. Len(calls) : calls[i].op = "list", NEW p
    PROVE  ArchivesAgree(Append(calls, Call("list", 0, p)), p)
<1>1. Remaining(calls)
  BY AllRemain
<1>2. ArchivesAgree(calls, p)
  BY DEF ArchivesAgree
<1> QED
  BY <1>1, <1>2, BegunAgrees

(* An empty sequence of searches agrees with everything.                   *)
LEMMA NoneWait ==
    ASSUME NEW waiting, waiting = <<>>, NEW p
    PROVE  SearchesAgree(waiting, p) /\ LastTerm(waiting, p) = p.search_term
<1>1. IsSeq(waiting) /\ Len(waiting) = 0
  BY NothingIsSeq
<1> QED
  BY <1>1 DEF SearchesAgree, LastTerm

(* A choice made in calm sets what was chosen.                             *)
LEMMA SetAfresh ==
    ASSUME CallsInv, KeptInv, NEW p, SetParams(p, calls), why' = why \cup Hasty,
           UNCHANGED pending
           \/ pending' = [i \in DOMAIN pending |-> [pending[i] EXCEPT !.live = FALSE]],
           screen.params = params /\ IsParams(params) /\ IsParams(asked)
             /\ SameChoices(params, asked) =>
                IsParams(p) /\ IsParams(asked') /\ SameChoices(p, asked')
    PROVE  KeptInv'
<1> SUFFICES ASSUME why' \cap Rash = {}
             PROVE  /\ IsParams(params') /\ IsParams(asked')
                    /\ SearchesAgree(pending', params')
                    /\ ArchivesAgree(calls', params')
                    /\ SameButTerm(params', asked')
                    /\ asked'.search_term = LastTerm(pending', params')
  BY DEF KeptInv
<1>1. /\ IsParams(params) /\ IsParams(asked)
      /\ SearchesAgree(pending, params)
      /\ SameButTerm(params, asked)
      /\ asked.search_term = LastTerm(pending, params)
  BY DEF KeptInv
<1>2. /\ screen.params = params /\ pending = <<>>
      /\ \A i \in 1 .. Len(calls) : calls[i].op = "list"
  BY <1>1, CalmChoice DEF SearchesAgree
<1>3. SameChoices(params, asked)
  BY <1>1, <1>2, NoneWait DEF SameChoices
<1>4. IsParams(p) /\ IsParams(asked') /\ SameChoices(p, asked')
  BY <1>1, <1>2, <1>3
<1>5. SearchesAgree(pending, p) /\ LastTerm(pending, p) = p.search_term
  BY <1>2, NoneWait
<1>6. SearchesAgree(pending', p) /\ LastTerm(pending', p) = p.search_term
  BY <1>5, DeadSearches
<1>7. params' = p /\ calls' = Append(calls, Call("list", 0, p))
  BY DEF SetParams
<1>8. ArchivesAgree(calls', p)
  BY <1>2, <1>7, FreshList
<1> QED
  BY <1>4, <1>6, <1>7, <1>8 DEF SameChoices

LEMMA ChoiceKeeps ==
    ASSUME CallsInv, KeptInv, NEW p, Choice(p),
           screen.params = params /\ IsParams(params) /\ IsParams(asked)
             /\ SameChoices(params, asked) =>
                IsParams(p) /\ IsParams(asked') /\ SameChoices(p, asked')
    PROVE  KeptInv'
<1>1. SetParams(p, calls) /\ why' = why \cup Hasty
  BY DEF Choice, Chosen
<1>2. UNCHANGED pending
      \/ pending' = [i \in DOMAIN pending |-> [pending[i] EXCEPT !.live = FALSE]]
  BY DEF Choice, Render
<1> QED
  BY <1>1, <1>2, SetAfresh

LEMMA SortByKeeps ==
    ASSUME CallsInv, KeptInv, NEW c \in Columns, SortBy(c)
    PROVE  KeptInv'
<1> DEFINE p == screen.params
           next == IF p.sort = c
                   THEN [p EXCEPT !.direction = IF @ = "asc" THEN "desc" ELSE "asc"]
                   ELSE [p EXCEPT !.sort = c, !.direction = "desc"]
<1>1. Choice(next) /\ asked' = [asked EXCEPT !.sort = next.sort, !.direction = next.direction]
  BY DEF SortBy
<1>2. ASSUME p = params, IsParams(params), IsParams(asked), SameChoices(params, asked)
      PROVE  IsParams(next) /\ IsParams(asked') /\ SameChoices(next, asked')
  <2>1. PICK d : next = [sort |-> c, direction |-> d, page |-> p.page,
                         search_term |-> p.search_term, with_archived |-> p.with_archived]
    <3>1. CASE p.sort = c
      <4>1. PICK d : next = [p EXCEPT !.direction = d]
        BY <3>1
      <4> HIDE DEF next
      <4>2. next = [sort |-> p.sort, direction |-> d, page |-> p.page,
                    search_term |-> p.search_term, with_archived |-> p.with_archived]
        BY <1>2, <4>1, ParamsSet
      <4> QED
        BY <3>1, <4>2
    <3>2. CASE p.sort # c
      <4>1. PICK d : next = [p EXCEPT !.sort = c, !.direction = d]
        BY <3>2
      <4> HIDE DEF next
      <4>2. next = [sort |-> c, direction |-> d, page |-> p.page,
                    search_term |-> p.search_term, with_archived |-> p.with_archived]
        BY <1>2, <4>1, ParamsSetTwo, Zenon
      <4> QED
        BY <4>2
    <3> QED
      BY <3>1, <3>2
  <2> HIDE DEF next
  <2>2. IsParams(next) /\ next.sort = c /\ next.direction = d
        /\ next.search_term = p.search_term /\ next.with_archived = p.with_archived
    BY <2>1 DEF IsParams
  <2>3. asked' = [sort |-> c, direction |-> d, page |-> asked.page,
                  search_term |-> asked.search_term, with_archived |-> asked.with_archived]
    <3>1. asked' = [asked EXCEPT !.sort = c, !.direction = d]
      BY <1>1, <2>2
    <3> QED
      BY <1>2, <3>1, ParamsSetTwo, Zenon
  <2>4. /\ IsParams(asked') /\ asked'.sort = c /\ asked'.direction = d
        /\ asked'.search_term = asked.search_term
        /\ asked'.with_archived = asked.with_archived
    BY <2>3 DEF IsParams
  <2> QED
    BY <1>2, <2>2, <2>4 DEF SameChoices, SameButTerm
<1> HIDE DEF next
<1> QED
  BY <1>1, <1>2, ChoiceKeeps

LEMMA PageKeeps ==
    ASSUME CallsInv, KeptInv, OnNextPage \/ OnPrevPage
    PROVE  KeptInv'
<1>1. PICK n : Choice([screen.params EXCEPT !.page = n]) /\ asked' = asked
  BY DEF OnNextPage, OnPrevPage
<1> DEFINE p == [screen.params EXCEPT !.page = n]
<1>2. ASSUME screen.params = params, IsParams(params), IsParams(asked), SameChoices(params, asked)
      PROVE  IsParams(p) /\ IsParams(asked') /\ SameChoices(p, asked')
  <2>1. p = [sort |-> params.sort, direction |-> params.direction, page |-> n,
             search_term |-> params.search_term, with_archived |-> params.with_archived]
    BY <1>2, ParamsSet
  <2> HIDE DEF p
  <2> QED
    BY <1>1, <1>2, <2>1 DEF IsParams, SameChoices, SameButTerm
<1>3. Choice(p)
  BY <1>1
<1> HIDE DEF p
<1> QED
  BY <1>2, <1>3, ChoiceKeeps

LEMMA ArchivedShownKeeps ==
    ASSUME CallsInv, KeptInv, SetWithArchived
    PROVE  KeptInv'
<1> DEFINE p == [screen.params EXCEPT !.with_archived = ~@]
<1>1. /\ SetParams(p, calls) /\ why' = why \cup Hasty /\ pending' = pending
      /\ asked' = [asked EXCEPT !.with_archived = p.with_archived]
  BY DEF SetWithArchived, Chosen
<1>2. ASSUME screen.params = params, IsParams(params), IsParams(asked), SameChoices(params, asked)
      PROVE  IsParams(p) /\ IsParams(asked') /\ SameChoices(p, asked')
  <2>1. PICK v : p = [params EXCEPT !.with_archived = v]
    BY <1>2
  <2> HIDE DEF p
  <2>2. p = [sort |-> params.sort, direction |-> params.direction, page |-> params.page,
             search_term |-> params.search_term, with_archived |-> v]
    BY <1>2, <2>1, ParamsSet
  <2>3. p.with_archived = v
    BY <2>2
  <2>4. asked' = [sort |-> asked.sort, direction |-> asked.direction, page |-> asked.page,
                  search_term |-> asked.search_term, with_archived |-> v]
    BY <1>1, <1>2, <2>3, ParamsSet
  <2> QED
    BY <1>2, <2>2, <2>4 DEF IsParams, SameChoices, SameButTerm
<1> HIDE DEF p
<1> QED
  BY <1>1, <1>2, SetAfresh

LEMMA SearchKeeps ==
    ASSUME CallsInv, KeptInv, Search
    PROVE  KeptInv'
<1> SUFFICES ASSUME why' \cap Rash = {}
             PROVE  /\ IsParams(params') /\ IsParams(asked')
                    /\ SearchesAgree(pending', params')
                    /\ ArchivesAgree(calls', params')
                    /\ SameButTerm(params', asked')
                    /\ asked'.search_term = LastTerm(pending', params')
  BY DEF KeptInv
<1> DEFINE s == Head(pending)
           p == [s.for EXCEPT !.search_term = s.term, !.page = 0]
<1>1. /\ pending # <<>> /\ pending' = Tail(pending) /\ asked' = asked
      /\ SetParams(p, calls) /\ why' = why \cup (Hasty \ {"typing", "frozen"})
  BY DEF Search
<1>2. /\ IsParams(params) /\ IsParams(asked)
      /\ SearchesAgree(pending, params)
      /\ SameButTerm(params, asked)
      /\ asked.search_term = LastTerm(pending, params)
  BY <1>1 DEF KeptInv
<1>3. /\ IsSeq(Tail(pending)) /\ Len(Tail(pending)) = Len(pending) - 1
      /\ Len(pending) \in Nat \ {0}
      /\ \A i \in 1 .. (Len(pending) - 1) : Tail(pending)[i] = pending[i + 1]
      /\ s = pending[1]
  BY <1>1, <1>2, TailIsSeq DEF SearchesAgree
<1>4. IsParams(s.for) /\ SameButTerm(s.for, params)
  BY <1>2, <1>3 DEF SearchesAgree
<1>5. p = [sort |-> s.for.sort, direction |-> s.for.direction, page |-> 0,
           search_term |-> s.term, with_archived |-> s.for.with_archived]
  BY <1>4, ParamsSetTwo, Zenon
<1> HIDE DEF p
<1>6. IsParams(p) /\ SameButTerm(p, params) /\ p.search_term = s.term
  BY <1>4, <1>5 DEF IsParams, SameButTerm
<1>7. params' = p /\ calls' = Append(calls, Call("list", 0, p))
  BY <1>1 DEF SetParams
<1>8. \A i \in 1 .. Len(calls) : calls[i].op = "list"
  <2>1. DOMAIN calls = 1 .. Len(calls)
    BY HoldsItsElements DEF CallsInv
  <2> QED
    BY <1>1, <2>1 DEF Hasty, Rash, OwnCall
<1>9. ArchivesAgree(calls', p)
  BY <1>7, <1>8, FreshList
<1>10. SearchesAgree(pending', p)
  <2>1. \A i \in 1 .. (Len(pending) - 1) : i + 1 \in 1 .. Len(pending)
    BY <1>3
  <2> QED
    BY <1>1, <1>2, <1>3, <1>6, <2>1 DEF SearchesAgree, SameButTerm
<1>11. LastTerm(pending', p) = LastTerm(pending, params)
  <2> HIDE DEF s
  <2>1. CASE Len(pending) = 1
    BY <1>1, <1>3, <1>6, <2>1 DEF LastTerm
  <2>2. CASE Len(pending) # 1
    <3>1. Len(pending) - 1 \in 1 .. (Len(pending) - 1) /\ Len(pending) - 1 # 0
          /\ (Len(pending) - 1) + 1 = Len(pending) /\ Len(pending) # 0
      BY <1>3, <2>2
    <3>2. Tail(pending)[Len(pending) - 1] = pending[Len(pending)]
      BY <1>3, <3>1
    <3> QED
      BY <1>1, <1>3, <3>1, <3>2 DEF LastTerm
  <2> QED
    BY <2>1, <2>2
<1> QED
  BY <1>1, <1>2, <1>6, <1>7, <1>9, <1>10, <1>11 DEF SameButTerm

LEMMA TypingKeeps ==
    ASSUME CallsInv, KeptInv, NEW term \in BOOLEAN, SetSearchTerm(term)
    PROVE  KeptInv'
<1> SUFFICES ASSUME why' \cap Rash = {}
             PROVE  /\ IsParams(params') /\ IsParams(asked')
                    /\ SearchesAgree(pending', params')
                    /\ ArchivesAgree(calls', params')
                    /\ SameButTerm(params', asked')
                    /\ asked'.search_term = LastTerm(pending', params')
  BY DEF KeptInv
<1> DEFINE search == [term |-> term, for |-> screen.params, live |-> TRUE]
<1>1. /\ pending' = Append(pending, search)
         \/ (pending # <<>> /\ pending' = Append(Front(pending), search))
      /\ asked' = [asked EXCEPT !.search_term = term]
      /\ params' = params /\ calls' = calls /\ why' = why \cup (Hasty \ {"typing"})
  BY DEF SetSearchTerm, Chosen, view
<1>2. /\ IsParams(params) /\ IsParams(asked)
      /\ SearchesAgree(pending, params)
      /\ ArchivesAgree(calls, params)
      /\ SameButTerm(params, asked)
  BY <1>1 DEF KeptInv
<1>3. screen.params = params
  BY <1>1 DEF Hasty, Rash
<1>4. IsSearch(search) /\ search.for = params /\ search.term = term
  BY <1>3 DEF IsSearch
<1> HIDE DEF search
<1>5. ASSUME NEW waiting, SearchesAgree(waiting, params), pending' = Append(waiting, search)
      PROVE  SearchesAgree(pending', params) /\ LastTerm(pending', params) = term
  <2>1. /\ IsSeq(pending') /\ Len(pending') = Len(waiting) + 1 /\ Len(waiting) \in Nat
        /\ \A i \in 1 .. Len(waiting) : pending'[i] = waiting[i]
        /\ pending'[Len(pending')] = search
    BY <1>5, AppendIsSeq DEF SearchesAgree, IsSeq
  <2>2. ASSUME NEW i \in 1 .. Len(pending')
        PROVE  /\ IsSearch(pending'[i]) /\ IsParams(pending'[i].for)
               /\ SameButTerm(pending'[i].for, params)
    <3>1. i \in 1 .. Len(waiting) \/ i = Len(pending')
      BY <2>1
    <3>2. SameButTerm(params, params)
      BY DEF SameButTerm
    <3> QED
      BY <1>2, <1>4, <1>5, <2>1, <3>1, <3>2 DEF SearchesAgree
  <2>3. LastTerm(pending', params) = term
    BY <1>4, <2>1 DEF LastTerm
  <2> QED
    BY <2>1, <2>2, <2>3 DEF SearchesAgree
<1>6. pending # <<>> => SearchesAgree(Front(pending), params)
  <2> SUFFICES ASSUME pending # <<>>
               PROVE  SearchesAgree(Front(pending), params)
    OBVIOUS
  <2>1. Len(pending) \in Nat \ {0} /\ IsSeq(pending)
    BY <1>2, TailIsSeq DEF SearchesAgree
  <2>2. PICK n : n = Len(pending) - 1
    OBVIOUS
  <2>3. 1 \in Int /\ n \in Int /\ 1 <= 1 /\ n <= Len(pending) /\ 1 <= n + 1 /\ n - 1 + 1 = n
    BY <2>1, <2>2
  <2>4. /\ IsSeq(SubSeq(pending, 1, n)) /\ Len(SubSeq(pending, 1, n)) = n
        /\ \A i \in 1 .. n : SubSeq(pending, 1, n)[i] = pending[1 + i - 1]
    BY <2>1, <2>3, CutIsSeq
  <2>5. \A i \in 1 .. n : 1 + i - 1 = i /\ i \in 1 .. Len(pending)
    BY <2>1, <2>2
  <2>6. PICK front : front = SubSeq(pending, 1, n) /\ front = Front(pending)
    BY <2>2 DEF Front
  <2>7. IsSeq(front) /\ Len(front) = n /\ \A i \in 1 .. n : front[i] = pending[i]
    BY <2>4, <2>5, <2>6
  <2>8. SearchesAgree(front, params)
    BY <1>2, <2>5, <2>7 DEF SearchesAgree
  <2> QED
    BY <2>6, <2>8
<1>7. SearchesAgree(pending', params) /\ LastTerm(pending', params) = term
  BY <1>1, <1>2, <1>5, <1>6
<1>8. asked' = [sort |-> asked.sort, direction |-> asked.direction, page |-> asked.page,
                search_term |-> term, with_archived |-> asked.with_archived]
  BY <1>1, <1>2, ParamsSet
<1>9. IsParams(asked') /\ SameButTerm(params, asked') /\ asked'.search_term = term
  BY <1>2, <1>8 DEF IsParams, SameButTerm
<1> QED
  BY <1>1, <1>2, <1>7, <1>9

(* Archiving sets the params it held, which are those of now but the page. *)
LEMMA PageLeftKeeps ==
    ASSUME CallsInv, KeptInv, NEW i \in DOMAIN calls, SetPageLeft(i)
    PROVE  KeptInv'
<1> SUFFICES ASSUME why' \cap Rash = {}
             PROVE  /\ IsParams(params') /\ IsParams(asked')
                    /\ SearchesAgree(pending', params')
                    /\ ArchivesAgree(calls', params')
                    /\ SameButTerm(params', asked')
                    /\ asked'.search_term = LastTerm(pending', params')
  BY DEF KeptInv
<1>1. PICK p, n :
        /\ p = [calls[i].for EXCEPT !.page = n]
        /\ calls[i].op = "count" /\ asked' = asked
        /\ SetParams(p, Ended(i))
        /\ UNCHANGED pending
           \/ pending' = [j \in DOMAIN pending |-> [pending[j] EXCEPT !.live = FALSE]]
        /\ why \subseteq why'
  BY DEF SetPageLeft, Render
<1>2. /\ IsParams(params) /\ IsParams(asked)
      /\ SearchesAgree(pending, params)
      /\ ArchivesAgree(calls, params)
      /\ SameButTerm(params, asked)
      /\ asked.search_term = LastTerm(pending, params)
  BY <1>1 DEF KeptInv
<1>3. i \in 1 .. Len(calls)
  BY HoldsItsElements DEF CallsInv
<1>4. IsParams(calls[i].for) /\ SameChoices(calls[i].for, params)
  BY <1>1, <1>2, <1>3 DEF ArchivesAgree
<1>5. p = [sort |-> calls[i].for.sort, direction |-> calls[i].for.direction, page |-> n,
           search_term |-> calls[i].for.search_term,
           with_archived |-> calls[i].for.with_archived]
  BY <1>1, <1>4, ParamsSet
<1>6. IsParams(p) /\ SameChoices(p, params)
  BY <1>4, <1>5 DEF IsParams, SameChoices, SameButTerm
<1>7. params' = p /\ calls' = Append(Ended(i), Call("list", 0, p))
  BY <1>1 DEF SetParams
<1>8. SearchesAgree(pending, p) /\ LastTerm(pending, p) = LastTerm(pending, params)
  BY <1>2, <1>6 DEF SearchesAgree, LastTerm, SameChoices, SameButTerm
<1>9. SearchesAgree(pending', p) /\ LastTerm(pending', p) = LastTerm(pending, params)
  BY <1>1, <1>8, DeadSearches
<1>10. ArchivesAgree(calls', p)
  <2>1. Remaining(Ended(i))
    BY EndedRemain
  <2>2. ArchivesAgree(calls, p)
    BY <1>2, <1>6 DEF ArchivesAgree, SameChoices, SameButTerm
  <2> QED
    BY <1>7, <2>1, <2>2, BegunAgrees
<1> QED
  BY <1>1, <1>2, <1>6, <1>7, <1>9, <1>10 DEF SameChoices, SameButTerm

-----------------------------------------------------------------------------
(* The other steps. *)

(* A call of a row is for the params the buttons hold, an archive call for *)
(* those of the list.                                                      *)
LEMMA RowKeeps ==
    ASSUME CallsInv, KeptInv,
           NEW op, NEW id, NEW q, op \in {"archive", "count"} => q = params,
           calls' = Append(calls, Call(op, id, q)),
           UNCHANGED <<params, asked, pending>>, why \subseteq why'
    PROVE  KeptInv'
<1>1. ASSUME why \cap Rash = {} PROVE ArchivesAgree(calls', params)
  <2>1. ArchivesAgree(calls, params) /\ IsParams(params)
    BY <1>1 DEF KeptInv
  <2>2. op \in {"archive", "count"} => IsParams(q) /\ SameChoices(q, params)
    BY <2>1, SelfSame
  <2> QED
    BY <2>1, <2>2, AllRemain, BegunAgrees
<1> QED
  BY <1>1, NothingChosen

LEMMA RemainingKeeps ==
    ASSUME KeptInv, Remaining(calls'), UNCHANGED <<params, asked>>, why \subseteq why',
           UNCHANGED pending
           \/ pending' = [i \in DOMAIN pending |-> [pending[i] EXCEPT !.live = FALSE]]
    PROVE  KeptInv'
<1>1. ASSUME why \cap Rash = {} PROVE ArchivesAgree(calls', params)
  BY <1>1, RemainingAgree DEF KeptInv
<1> QED
  BY <1>1, NothingChosen

LEMMA FollowKeeps ==
    ASSUME CallsInv, KeptInv, NEW i \in DOMAIN calls, Archived(i) \/ FetchAgain(i)
    PROVE  KeptInv'
<1>1. PICK op, id :
        /\ calls' = Append(Ended(i), Call(op, id, calls[i].for))
        /\ op \in {"archive", "count"} => calls[i].op = "archive"
  <2>1. CASE Archived(i)
    BY <2>1 DEF Archived
  <2>2. CASE FetchAgain(i)
    BY <2>2 DEF FetchAgain
  <2> QED
    BY <2>1, <2>2
<1>2. UNCHANGED <<params, asked, pending>> /\ why \subseteq why'
  BY DEF Archived, FetchAgain, view
<1>3. ASSUME why \cap Rash = {} PROVE ArchivesAgree(calls', params)
  <2>1. ArchivesAgree(calls, params)
    BY <1>3 DEF KeptInv
  <2>2. i \in 1 .. Len(calls)
    BY HoldsItsElements DEF CallsInv
  <2>3. op \in {"archive", "count"} =>
            IsParams(calls[i].for) /\ SameChoices(calls[i].for, params)
    BY <1>1, <2>1, <2>2 DEF ArchivesAgree
  <2> QED
    BY <1>1, <2>1, <2>3, EndedRemain, BegunAgrees
<1> QED
  BY <1>2, <1>3, NothingChosen

LEMMA ServeRemains ==
    ASSUME CallsInv, NEW i \in DOMAIN calls, Serve(i)
    PROVE  \E a : Answered(calls', i, a)
<1>1. PICK a : calls' = [calls EXCEPT ![i].step = "done", ![i].answer = a]
  BY DEF Serve
<1> QED
  BY <1>1, ServedCalls

LEMMA UserKeeps ==
    ASSUME CallsInv, KeptInv, User
    PROVE  KeptInv'
<1>1. CASE \E c \in Columns : SortBy(c)
  BY <1>1, SortByKeeps
<1>2. CASE OnNextPage \/ OnPrevPage
  BY <1>2, PageKeeps
<1>3. CASE SetWithArchived
  BY <1>3, ArchivedShownKeeps
<1>4. CASE \E term \in BOOLEAN : SetSearchTerm(term)
  BY <1>4, TypingKeeps
<1>5. ASSUME NEW kind, NEW b, OpenModal(kind, b) \/ OnCancel(kind)
      PROVE  KeptInv'
  <2>1. calls' = calls /\ UNCHANGED <<params, asked, pending, why>>
    BY <1>5 DEF OpenModal, OnCancel, view
  <2> QED
    BY <2>1, AllRemain, RemainingKeeps
<1>6. ASSUME NEW kind, OnConfirm(kind)
      PROVE  KeptInv'
  BY <1>6, RowKeeps DEF OnConfirm, Chosen, view
<1>7. ASSUME NEW op \in {"duplicate", "leave"}, NEW b, OnRow(op, b)
      PROVE  KeptInv'
  BY <1>7, RowKeeps DEF OnRow, Chosen, view
<1> QED
  BY <1>1, <1>2, <1>3, <1>4, <1>5, <1>6, <1>7 DEF User

LEMMA KeptStep ==
    ASSUME CallsInv, KeptInv, [Next]_vars
    PROVE  KeptInv'
<1> why \subseteq why'
  BY WhyGrows
<1>1. CASE User
  BY <1>1, UserKeeps
<1>2. ASSUME NEW i \in DOMAIN calls, ShowPage(i) PROVE KeptInv'
  <2>1. calls' = Ended(i) /\ UNCHANGED <<params, asked>>
        /\ pending' = [j \in DOMAIN pending |-> [pending[j] EXCEPT !.live = FALSE]]
    BY <1>2 DEF ShowPage, Render
  <2> QED
    BY <2>1, EndedRemain, RemainingKeeps
<1>3. ASSUME NEW i \in DOMAIN calls, Archived(i) \/ FetchAgain(i) PROVE KeptInv'
  BY <1>3, FollowKeeps
<1>4. ASSUME NEW i \in DOMAIN calls, SetPageLeft(i) PROVE KeptInv'
  BY <1>4, PageLeftKeeps
<1>5. CASE Answer
  BY <1>2, <1>3, <1>4, <1>5 DEF Answer
<1>6. CASE Search
  BY <1>6, SearchKeeps
<1>7. ASSUME NEW i \in DOMAIN calls, Serve(i) PROVE KeptInv'
  <2>1. UNCHANGED <<params, asked, pending>>
    BY <1>7 DEF Serve, view
  <2>2. Remaining(calls')
    BY <1>7, ServeRemains, AnsweredRemain
  <2> QED
    BY <2>1, <2>2, RemainingKeeps
<1>8. ASSUME NEW i \in DOMAIN calls, Fail(i) PROVE KeptInv'
  <2>1. calls' = RemoveAt(calls, i) /\ UNCHANGED <<params, asked, pending>>
    BY <1>8 DEF Fail, view
  <2> QED
    BY <2>1, RemovedRemain, RemainingKeeps
<1>9. CASE \/ \E b \in Playbooks : ArchivedByOther(b)
           \/ \E kind \in {"archive", "restore"} : BannerTimeout(kind)
           \/ UNCHANGED vars
  <2>1. calls' = calls /\ UNCHANGED <<params, asked, pending>>
    BY <1>9 DEF ArchivedByOther, BannerTimeout, vars, view
  <2> QED
    BY <2>1, AllRemain, RemainingKeeps
<1> QED
  BY <1>1, <1>5, <1>6, <1>7, <1>8, <1>9 DEF Next

LEMMA RemainingCalls ==
    ASSUME Remaining(calls')
    PROVE  CallsInv'
BY DEF Remaining, CallsInv

LEMMA BegunCalls ==
    ASSUME NEW s, Remaining(s), NEW op, NEW id, NEW p, calls' = Append(s, Call(op, id, p))
    PROVE  CallsInv'
<1>1. PICK t : t = Append(s, Call(op, id, p))
  OBVIOUS
<1>2. /\ IsSeq(t) /\ Len(t) = Len(s) + 1 /\ Len(s) \in Nat
      /\ \A j \in 1 .. Len(s) : t[j] = s[j] /\ IsCall(s[j])
      /\ IsCall(t[Len(t)])
  BY <1>1, BegunCall DEF Remaining
<1>3. \A j \in 1 .. Len(t) : j \in 1 .. Len(s) \/ j = Len(t)
  BY <1>2
<1>4. IsSeq(t) /\ \A j \in 1 .. Len(t) : IsCall(t[j])
  BY <1>2, <1>3
<1> QED
  BY <1>1, <1>4 DEF CallsInv

LEMMA CallsStep ==
    ASSUME CallsInv, [Next]_vars
    PROVE  CallsInv'
<1>1. ASSUME NEW p, Choice(p) PROVE CallsInv'
  BY <1>1, AllRemain, BegunCalls DEF Choice, SetParams
<1>2. CASE User
  <2>1. CASE SetWithArchived
    BY <2>1, AllRemain, BegunCalls DEF SetWithArchived, SetParams
  <2>2. ASSUME NEW kind, OnConfirm(kind) PROVE CallsInv'
    BY <2>2, AllRemain, BegunCalls DEF OnConfirm
  <2>3. ASSUME NEW op, NEW b, OnRow(op, b) PROVE CallsInv'
    BY <2>3, AllRemain, BegunCalls DEF OnRow
  <2>4. ASSUME NEW term, NEW kind, NEW b,
               SetSearchTerm(term) \/ OpenModal(kind, b) \/ OnCancel(kind)
        PROVE  CallsInv'
    BY <2>4 DEF SetSearchTerm, OpenModal, OnCancel, CallsInv
  <2>5. ASSUME NEW c, SortBy(c) PROVE CallsInv'
    BY <1>1, <2>5 DEF SortBy
  <2>6. CASE OnNextPage \/ OnPrevPage
    BY <1>1, <2>6 DEF OnNextPage, OnPrevPage
  <2> QED
    BY <1>2, <2>1, <2>2, <2>3, <2>4, <2>5, <2>6 DEF User
<1>3. ASSUME NEW i \in DOMAIN calls, ShowPage(i) PROVE CallsInv'
  BY <1>3, EndedRemain, RemainingCalls DEF ShowPage
<1>4. ASSUME NEW i \in DOMAIN calls, Archived(i) \/ SetPageLeft(i) \/ FetchAgain(i)
      PROVE  CallsInv'
  BY <1>4, EndedRemain, BegunCalls DEF Archived, SetPageLeft, FetchAgain, SetParams
<1>5. CASE Answer
  BY <1>3, <1>4, <1>5 DEF Answer
<1>6. CASE Search
  BY <1>6, AllRemain, BegunCalls DEF Search, SetParams
<1>7. ASSUME NEW i \in DOMAIN calls, Serve(i) PROVE CallsInv'
  BY <1>7, ServeRemains, AnsweredRemain, RemainingCalls
<1>8. ASSUME NEW i \in DOMAIN calls, Fail(i) PROVE CallsInv'
  BY <1>8, RemovedRemain, RemainingCalls DEF Fail
<1>9. CASE \/ \E b \in Playbooks : ArchivedByOther(b)
           \/ \E kind \in {"archive", "restore"} : BannerTimeout(kind)
           \/ UNCHANGED vars
  BY <1>9 DEF ArchivedByOther, BannerTimeout, vars, CallsInv
<1> QED
  BY <1>2, <1>5, <1>6, <1>7, <1>8, <1>9 DEF Next

LEMMA StartCalls ==
    ASSUME Init
    PROVE  /\ CallsInv /\ Len(calls) = 1
           /\ \A i \in 1 .. Len(calls) :
                /\ calls[i].op = "list" /\ calls[i].for = DefaultParams
                /\ calls[i].step = "sent" /\ ~calls[i].late
<1>1. PICK c : c = Call("list", 0, DefaultParams)
  OBVIOUS
<1>2. calls = <<c>>
  BY <1>1 DEF Init
<1>3. IsCall(c) /\ c.op = "list" /\ c.for = DefaultParams /\ c.step = "sent" /\ ~c.late
  BY <1>1, CallMade
<1>4. calls = [j \in 1 .. 1 |-> calls[j]] /\ calls[1] = c
  BY <1>2
<1>5. IsSeq(calls) /\ Len(calls) = 1
  BY <1>4, MadeIsSeq
<1> QED
  BY <1>3, <1>4, <1>5 DEF CallsInv

LEMMA CallsInvariant == Spec => []CallsInv
<1>1. Init => CallsInv
  BY StartCalls
<1>2. CallsInv /\ [Next]_vars => CallsInv'
  BY CallsStep
<1> QED
  BY <1>1, <1>2, PTL DEF Spec

(* At rest the params are what the user chose, whatever was archived,      *)
(* restored or fetched meanwhile (setParams spreads the params of a        *)
(* rendering), unless something was chosen while a search waited, with     *)
(* buttons of a past rendering, or while a call of a row was under way.    *)
THEOREM ChoicesAreKept == Spec => []ChoicesKept
<1>1. Init => KeptInv
  <2> SUFFICES ASSUME Init PROVE KeptInv
    OBVIOUS
  <2>1. IsParams(params) /\ asked = params /\ pending = <<>>
    BY DEF Init, DefaultParams, IsParams
  <2>2. SearchesAgree(pending, params) /\ LastTerm(pending, params) = params.search_term
    BY <2>1, NoneWait
  <2>3. ArchivesAgree(calls, params)
    <3>1. \A i \in 1 .. Len(calls) : calls[i].op = "list"
      BY StartCalls
    <3> QED
      BY <3>1 DEF ArchivesAgree
  <2> QED
    BY <2>1, <2>2, <2>3 DEF KeptInv, SameButTerm
<1>2. CallsInv /\ KeptInv /\ [Next]_vars => KeptInv'
  BY KeptStep
<1>3. ASSUME KeptInv PROVE ChoicesKept
  <2> SUFFICES ASSUME Idle, why \cap Rash = {}
               PROVE  params = [asked EXCEPT !.page = params.page]
    BY DEF ChoicesKept, Rash
  <2>1. /\ IsParams(params) /\ IsParams(asked) /\ SameButTerm(params, asked)
        /\ asked.search_term = LastTerm(pending, params)
    BY <1>3 DEF KeptInv
  <2>2. pending = <<>>
    BY DEF Idle
  <2>3. asked.search_term = params.search_term
    BY <2>1, <2>2, NoneWait
  <2>4. [asked EXCEPT !.page = params.page] =
            [sort |-> asked.sort, direction |-> asked.direction, page |-> params.page,
             search_term |-> asked.search_term, with_archived |-> asked.with_archived]
    BY <2>1, ParamsSet
  <2> QED
    BY <2>1, <2>3, <2>4 DEF IsParams, SameButTerm
<1> QED
  BY <1>1, <1>2, <1>3, CallsInvariant, PTL DEF Spec

-----------------------------------------------------------------------------
(* What is shown at rest. *)

(* A call of a row is under way, up to the fetch that follows it.          *)
Working(under) == {i \in 1 .. Len(under) : under[i].op # "list"}

(* The newest fetch is for the params, and has not been overtaken.         *)
NewestComes(under, s, p) ==
    \E m \in 1 .. Len(under) :
        /\ under[m].op = "list" /\ ~under[m].late /\ under[m].for = p
        /\ under[m].step = "done" => under[m].answer = GetPlaybooks(s, p)
        /\ \A j \in 1 .. Len(under) : under[j].op = "list" => j <= m

(* Its answer is shown, and whatever is still under way has been overtaken. *)
NewestShown(under, shown, s, p) ==
    /\ shown = GetPlaybooks(s, p)
    /\ \A i \in 1 .. Len(under) : under[i].op = "list" => under[i].late

(* Only one row works at a time, for the params of now; a fetch follows.   *)
Shows(under, shown, s, p) ==
    /\ \A i \in Working(under) : under[i].for = p /\ \A j \in Working(under) : i = j
    /\ Working(under) = {} => NewestComes(under, s, p) \/ NewestShown(under, shown, s, p)

ShowInv ==
    why \cap (Misplaced \cup {"others"}) = {} =>
        Shows(calls, [items |-> items, total |-> total], server, params)

(* A page of the server is its items and their number.                     *)
LEMMA AnswerIsRecord ==
    ASSUME NEW s, NEW p
    PROVE  [items |-> GetPlaybooks(s, p).items, total |-> GetPlaybooks(s, p).total]
             = GetPlaybooks(s, p)
<1>1. PICK f, n : GetPlaybooks(s, p) = [items |-> f, total |-> n]
  BY DEF GetPlaybooks
<1> QED
  BY <1>1

(* A fetch that begins while no row works is the newest.                   *)
LEMMA FetchBegins ==
    ASSUME NEW s, Remaining(s), Working(s) = {}, NEW id, NEW p, NEW shown, NEW stored
    PROVE  Shows(Append(s, Call("list", id, p)), shown, stored, p)
<1>1. PICK t : t = Append(s, Call("list", id, p))
  OBVIOUS
<1>2. /\ Len(t) = Len(s) + 1 /\ Len(s) \in Nat
      /\ \A j \in 1 .. Len(s) : t[j] = s[j]
      /\ t[Len(t)].op = "list" /\ t[Len(t)].for = p
      /\ t[Len(t)].step = "sent" /\ ~t[Len(t)].late
  BY <1>1, BegunCall
<1>3. \A j \in 1 .. Len(t) : j \in 1 .. Len(s) \/ j = Len(t)
  BY <1>2
<1>4. Working(t) = {}
  BY <1>2, <1>3 DEF Working
<1>5. Len(t) \in 1 .. Len(t) /\ \A j \in 1 .. Len(t) : j <= Len(t)
  BY <1>2
<1>6. NewestComes(t, stored, p)
  BY <1>2, <1>5 DEF NewestComes
<1> QED
  BY <1>1, <1>4, <1>6 DEF Shows

(* So is a row the only one.                                               *)
LEMMA RowBegins ==
    ASSUME NEW s, Remaining(s), Working(s) = {}, NEW op, op # "list", NEW id, NEW p,
           NEW shown, NEW stored
    PROVE  Shows(Append(s, Call(op, id, p)), shown, stored, p)
<1>1. PICK t : t = Append(s, Call(op, id, p))
  OBVIOUS
<1>2. /\ Len(t) = Len(s) + 1 /\ Len(s) \in Nat
      /\ \A j \in 1 .. Len(s) : t[j] = s[j]
      /\ t[Len(t)].op = op /\ t[Len(t)].for = p
  BY <1>1, BegunCall
<1>3. \A j \in 1 .. Len(t) : j \in 1 .. Len(s) \/ j = Len(t)
  BY <1>2
<1>4. Len(t) \in 1 .. Len(t)
  BY <1>2
<1>5. \A j \in Working(t) : j = Len(t)
  BY <1>2, <1>3 DEF Working
<1>6. Len(t) \in Working(t)
  BY <1>2, <1>4 DEF Working
<1>7. \A i \in Working(t) : t[i].for = p /\ \A j \in Working(t) : i = j
  BY <1>2, <1>5
<1> QED
  BY <1>1, <1>6, <1>7 DEF Shows

(* Once the only row has been answered, none works.                        *)
LEMMA RowEnds ==
    ASSUME CallsInv, NEW i \in DOMAIN calls, calls[i].op # "list",
           NEW shown, Shows(calls, shown, server, params)
    PROVE  /\ Remaining(Ended(i)) /\ Working(Ended(i)) = {}
           /\ calls[i].for = params
<1>1. /\ i \in 1 .. Len(calls) /\ Len(calls) \in Nat
      /\ IsSeq(Ended(i)) /\ Len(Ended(i)) = Len(calls) - 1
      /\ \A j \in 1 .. (Len(calls) - 1) : j < i =>
            /\ Ended(i)[j].op = calls[j].op /\ Ended(i)[j].for = calls[j].for
            /\ calls[i].op = "list" => Ended(i)[j].late
      /\ \A j \in 1 .. (Len(calls) - 1) : ~(j < i) => Ended(i)[j] = calls[j + 1]
  BY EndedCalls
<1>2. i \in Working(calls) /\ \A j \in Working(calls) : i = j
  BY <1>1 DEF Working, Shows
<1>3. ASSUME NEW j \in 1 .. Len(Ended(i))
      PROVE  Ended(i)[j].op = "list"
  <2>1. j \in 1 .. (Len(calls) - 1) /\ j \in 1 .. Len(calls) /\ j + 1 \in 1 .. Len(calls)
    BY <1>1
  <2>2. CASE j < i
    <3>1. Ended(i)[j].op = calls[j].op
      BY <1>1, <2>1, <2>2
    <3>2. j # i
      BY <1>1, <2>2
    <3> QED
      BY <1>2, <2>1, <3>1, <3>2 DEF Working
  <2>3. CASE ~(j < i)
    <3>1. Ended(i)[j] = calls[j + 1]
      BY <1>1, <2>1, <2>3
    <3>2. j + 1 # i
      BY <1>1, <2>1, <2>3
    <3> QED
      BY <1>2, <2>1, <3>1, <3>2 DEF Working
  <2> QED
    BY <2>2, <2>3
<1> QED
  BY <1>2, <1>3, EndedRemain DEF Working, Shows

(* The page of a fetch that was not overtaken is shown.                    *)
LEMMA PageShows ==
    ASSUME CallsInv, NEW i \in DOMAIN calls, calls[i].op = "list", calls[i].step = "done",
           ~calls[i].late, NEW shown, Shows(calls, shown, server, params),
           NEW new, new = [items |-> calls[i].answer.items, total |-> calls[i].answer.total]
    PROVE  Shows(Ended(i), new, server, params)
<1> DEFINE e == Ended(i)
<1>1. /\ i \in 1 .. Len(calls) /\ Len(calls) \in Nat
      /\ IsSeq(e) /\ Len(e) = Len(calls) - 1
      /\ \A j \in 1 .. (Len(calls) - 1) : j < i =>
            /\ e[j].op = calls[j].op /\ e[j].for = calls[j].for
            /\ calls[i].op = "list" => e[j].late
      /\ \A j \in 1 .. (Len(calls) - 1) : ~(j < i) => e[j] = calls[j + 1]
  BY EndedCalls
<1> HIDE DEF e
<1>2. \A j \in 1 .. (Len(calls) - 1) : j \in 1 .. Len(calls) /\ j + 1 \in 1 .. Len(calls)
  BY <1>1
<1>3. ASSUME NEW j \in 1 .. (Len(calls) - 1), j < i
      PROVE  e[j].op = calls[j].op /\ e[j].for = calls[j].for /\ e[j].late
  BY <1>1, <1>3
<1> DEFINE was(j) == IF j < i THEN j ELSE j + 1
<1>4. \A j \in Working(e) : was(j) \in Working(calls) /\ e[j].for = calls[was(j)].for
  BY <1>1, <1>2, <1>3 DEF Working
<1>5. \A j, k \in Working(e) : was(j) = was(k) => j = k
  BY <1>1 DEF Working
<1>6. \A j \in Working(e) : e[j].for = params /\ \A k \in Working(e) : j = k
  <2> HIDE DEF was
  <2> QED
    BY <1>4, <1>5 DEF Shows
<1>7. ASSUME Working(e) = {}
      PROVE  NewestComes(e, server, params) \/ NewestShown(e, new, server, params)
  <2>1. Working(calls) = {}
    <3> SUFFICES ASSUME NEW k \in Working(calls) PROVE FALSE
      OBVIOUS
    <3>1. k \in 1 .. Len(calls) /\ k # i /\ calls[k].op # "list"
      BY DEF Working
    <3>2. CASE k < i
      <4>1. k \in 1 .. (Len(calls) - 1)
        BY <1>1, <3>1, <3>2
      <4>2. e[k].op # "list" /\ k \in 1 .. Len(e)
        BY <1>1, <1>3, <3>1, <3>2, <4>1
      <4> QED
        BY <1>7, <4>2 DEF Working
    <3>3. CASE ~(k < i)
      <4>1. k - 1 \in 1 .. (Len(calls) - 1) /\ ~(k - 1 < i) /\ (k - 1) + 1 = k
        BY <1>1, <3>1, <3>3
      <4>2. e[k - 1].op # "list" /\ k - 1 \in 1 .. Len(e)
        BY <1>1, <3>1, <4>1
      <4> QED
        BY <1>7, <4>2 DEF Working
    <3> QED
      BY <3>2, <3>3
  <2>2. ~NewestShown(calls, shown, server, params)
    BY <1>1 DEF NewestShown
  <2>3. NewestComes(calls, server, params)
    BY <2>1, <2>2 DEF Shows
  <2>4. PICK m \in 1 .. Len(calls) :
            /\ calls[m].op = "list" /\ ~calls[m].late /\ calls[m].for = params
            /\ calls[m].step = "done" => calls[m].answer = GetPlaybooks(server, params)
            /\ \A j \in 1 .. Len(calls) : calls[j].op = "list" => j <= m
    BY <2>3 DEF NewestComes
  <2>5. CASE i = m
    <3>1. new = GetPlaybooks(server, params)
      BY <2>4, <2>5, AnswerIsRecord
    <3>2. ASSUME NEW j \in 1 .. Len(e), e[j].op = "list"
          PROVE  e[j].late
      <4>1. j \in 1 .. (Len(calls) - 1) /\ j + 1 \in 1 .. Len(calls)
        BY <1>1, <1>2
      <4>2. j < i
        <5> SUFFICES ASSUME ~(j < i) PROVE FALSE
          OBVIOUS
        <5>1. calls[j + 1].op = "list"
          BY <1>1, <3>2, <4>1
        <5>2. j + 1 <= m
          BY <2>4, <4>1, <5>1
        <5> QED
          BY <1>1, <2>5, <4>1, <5>2
      <4> QED
        BY <1>3, <4>1, <4>2
    <3> QED
      BY <3>1, <3>2 DEF NewestShown
  <2>6. CASE i # m
    <3>1. i < m
      <4>1. i <= m
        BY <1>1, <2>4
      <4> QED
        BY <1>1, <2>6, <4>1
    <3>2. m - 1 \in 1 .. Len(e) /\ ~(m - 1 < i) /\ (m - 1) + 1 = m
      BY <1>1, <3>1
    <3>3. e[m - 1] = calls[m]
      BY <1>1, <3>2
    <3>4. ASSUME NEW j \in 1 .. Len(e), e[j].op = "list"
          PROVE  j <= m - 1
      <4>1. j \in 1 .. (Len(calls) - 1) /\ j + 1 \in 1 .. Len(calls)
        BY <1>1, <1>2
      <4>2. CASE j < i
        BY <1>1, <3>1, <4>1, <4>2
      <4>3. CASE ~(j < i)
        <5>1. calls[j + 1].op = "list"
          BY <1>1, <3>4, <4>1, <4>3
        <5>2. j + 1 <= m
          BY <2>4, <4>1, <5>1
        <5> QED
          BY <1>1, <4>1, <5>2
      <4> QED
        BY <4>2, <4>3
    <3> QED
      BY <2>4, <3>2, <3>3, <3>4 DEF NewestComes
  <2> QED
    BY <2>5, <2>6
<1> QED
  BY <1>6, <1>7 DEF Shows, e

(* Serving a fetch gives what is stored then.                              *)
LEMMA FetchServed ==
    ASSUME CallsInv, NEW t, NEW i, calls[i].op = "list", NEW shown,
           Answered(t, i, GetPlaybooks(server, calls[i].for)),
           Shows(calls, shown, server, params)
    PROVE  Shows(t, shown, server, params)
<1>1. /\ Len(t) = Len(calls) /\ i \in 1 .. Len(calls)
      /\ t[i].op = calls[i].op /\ t[i].for = calls[i].for /\ t[i].late = calls[i].late
      /\ t[i].answer = GetPlaybooks(server, calls[i].for)
      /\ \A j \in 1 .. Len(calls) : j # i => t[j] = calls[j]
  BY DEF Answered
<1>2. \A j \in 1 .. Len(calls) : /\ t[j].op = calls[j].op /\ t[j].for = calls[j].for
                                 /\ t[j].late = calls[j].late
  BY <1>1
<1>3. Working(t) = Working(calls)
  BY <1>1, <1>2 DEF Working
<1>4. \A j \in Working(t) : t[j].for = params /\ \A k \in Working(t) : j = k
  BY <1>2, <1>3 DEF Shows, Working
<1>5. NewestShown(calls, shown, server, params) => NewestShown(t, shown, server, params)
  BY <1>1, <1>2 DEF NewestShown
<1>6. ASSUME NewestComes(calls, server, params)
      PROVE  NewestComes(t, server, params)
  <2>1. PICK m \in 1 .. Len(calls) :
            /\ calls[m].op = "list" /\ ~calls[m].late /\ calls[m].for = params
            /\ calls[m].step = "done" => calls[m].answer = GetPlaybooks(server, params)
            /\ \A j \in 1 .. Len(calls) : calls[j].op = "list" => j <= m
    BY <1>6 DEF NewestComes
  <2>2. t[m].step = "done" => t[m].answer = GetPlaybooks(server, params)
    BY <1>1, <2>1
  <2>3. t[m].op = "list" /\ ~t[m].late /\ t[m].for = params
    BY <1>2, <2>1
  <2> QED
    BY <1>1, <1>2, <2>1, <2>2, <2>3 DEF NewestComes
<1> QED
  BY <1>3, <1>4, <1>5, <1>6 DEF Shows

(* Serving a row may store something; its fetch is still to come.          *)
LEMMA RowServed ==
    ASSUME CallsInv, NEW t, NEW i, calls[i].op # "list", NEW a, Answered(t, i, a),
           NEW shown, Shows(calls, shown, server, params), NEW stored
    PROVE  Shows(t, shown, stored, params)
<1>1. /\ Len(t) = Len(calls) /\ i \in 1 .. Len(calls)
      /\ t[i].op = calls[i].op /\ t[i].for = calls[i].for
      /\ \A j \in 1 .. Len(calls) : j # i => t[j] = calls[j]
  BY DEF Answered
<1>2. \A j \in 1 .. Len(calls) : t[j].op = calls[j].op /\ t[j].for = calls[j].for
  BY <1>1
<1>3. Working(t) = Working(calls) /\ i \in Working(t)
  BY <1>1, <1>2 DEF Working
<1>4. \A j \in Working(t) : t[j].for = params /\ \A k \in Working(t) : j = k
  BY <1>2, <1>3 DEF Shows, Working
<1> QED
  BY <1>3, <1>4 DEF Shows

(* What OwnChangesShow does not speak of.                                  *)
Wrong == Misplaced \cup {"others"}

(* A call begun without harm begins while no row works.                    *)
LEMMA NoRowWorks ==
    ASSUME CallsInv, why' \cap Wrong = {}, Hasty \cap {"underWay"} \subseteq why'
    PROVE  Remaining(calls) /\ Working(calls) = {}
<1>1. DOMAIN calls = 1 .. Len(calls)
  BY HoldsItsElements DEF CallsInv
<1> QED
  BY <1>1, AllRemain DEF Hasty, Wrong, Misplaced, OwnCall, Working

LEMMA SetShows ==
    ASSUME CallsInv, why' \cap Wrong = {}, Hasty \cap {"underWay"} \subseteq why',
           NEW p, SetParams(p, calls)
    PROVE  Shows(calls', [items |-> items', total |-> total'], server', params')
<1>1. params' = p /\ calls' = Append(calls, Call("list", 0, p))
  BY DEF SetParams
<1> QED
  BY <1>1, NoRowWorks, FetchBegins

LEMMA UserShows ==
    ASSUME CallsInv, ShowInv, why \subseteq why', User
    PROVE  ShowInv'
<1> SUFFICES ASSUME why' \cap Wrong = {}
             PROVE  Shows(calls', [items |-> items', total |-> total'], server', params')
  BY DEF ShowInv, Wrong
<1>1. Shows(calls, [items |-> items, total |-> total], server, params)
  BY DEF ShowInv, Wrong
<1> DEFINE Goal == Shows(calls', [items |-> items', total |-> total'], server', params')
<1>2. ASSUME NEW p, Choice(p) PROVE Goal
  BY <1>2, SetShows DEF Choice, Chosen
<1>3. ASSUME NEW c, SortBy(c) PROVE Goal
  BY <1>2, <1>3 DEF SortBy
<1>4. ASSUME OnNextPage \/ OnPrevPage PROVE Goal
  BY <1>2, <1>4 DEF OnNextPage, OnPrevPage
<1>5. ASSUME SetWithArchived PROVE Goal
  BY <1>5, SetShows DEF SetWithArchived, Chosen
<1>6. ASSUME UNCHANGED <<view, server, calls>> PROVE Goal
  BY <1>1, <1>6 DEF view
<1>7. ASSUME NEW kind \in {"archive", "restore"}, OnConfirm(kind)
      PROVE  Goal
  <2>1. /\ calls' = Append(calls, Call(kind, modals[kind].id, params))
        /\ params' = params /\ Hasty \cap {"underWay"} \subseteq why'
    BY <1>7 DEF OnConfirm, Chosen, view
  <2>2. kind # "list"
    OBVIOUS
  <2> QED
    BY <2>1, <2>2, NoRowWorks, RowBegins
<1>8. ASSUME NEW op \in {"duplicate", "leave"}, NEW b, OnRow(op, b)
      PROVE  Goal
  <2>1. /\ calls' = Append(calls, Call(op, b, screen.params)) /\ params' = params
        /\ \A r \in Hasty : (IF r = "frozen" THEN "frozenRow" ELSE r) \in why'
    BY <1>8 DEF OnRow, Chosen, view
  <2>2. Hasty \cap {"underWay"} \subseteq why' /\ "frozen" \notin Hasty
    BY <2>1 DEF Wrong, Misplaced
  <2>3. screen.params = params
    BY <2>2 DEF Hasty
  <2>4. op # "list"
    OBVIOUS
  <2> QED
    BY <2>1, <2>2, <2>3, <2>4, NoRowWorks, RowBegins
<1> HIDE DEF Goal
<1>9. ASSUME NEW term \in BOOLEAN, SetSearchTerm(term) PROVE Goal
  BY <1>6, <1>9 DEF SetSearchTerm
<1>10. ASSUME NEW kind \in {"archive", "restore"}, OnCancel(kind) PROVE Goal
  BY <1>6, <1>10 DEF OnCancel
<1>11. ASSUME NEW kind \in {"archive", "restore"}, NEW b \in Playbooks, OpenModal(kind, b)
       PROVE  Goal
  BY <1>6, <1>11 DEF OpenModal
<1>12. Goal
  BY <1>3, <1>4, <1>5, <1>7, <1>8, <1>9, <1>10, <1>11 DEF User
<1> QED
  BY <1>12 DEF Goal

LEMMA AnswerShows ==
    ASSUME CallsInv, ShowInv, why \subseteq why', Answer
    PROVE  ShowInv'
<1> SUFFICES ASSUME why' \cap Wrong = {}
             PROVE  Shows(calls', [items |-> items', total |-> total'], server', params')
  BY DEF ShowInv, Wrong
<1>1. Shows(calls, [items |-> items, total |-> total], server, params)
  BY DEF ShowInv, Wrong
<1> DEFINE Goal == Shows(calls', [items |-> items', total |-> total'], server', params')
<1>2. ASSUME NEW i \in DOMAIN calls, ShowPage(i) PROVE Goal
  <2>1. /\ calls[i].op = "list" /\ calls[i].step = "done"
        /\ items' = calls[i].answer.items /\ total' = calls[i].answer.total
        /\ calls' = Ended(i) /\ params' = params /\ server' = server
        /\ why' = why \cup (IF calls[i].late THEN {"late"} ELSE {})
    BY <1>2 DEF ShowPage
  <2>2. ~calls[i].late
    BY <2>1 DEF Wrong, Misplaced
  <2>3. [items |-> items', total |-> total']
            = [items |-> calls[i].answer.items, total |-> calls[i].answer.total]
    BY <2>1
  <2> QED
    BY <1>1, <2>1, <2>2, <2>3, PageShows
<1>3. ASSUME NEW i \in DOMAIN calls, Archived(i) PROVE Goal
  <2>1. /\ calls[i].op # "list" /\ params' = params
        /\ calls' = Append(Ended(i), Call("count", calls[i].id, calls[i].for))
    BY <1>3 DEF Archived, view
  <2>2. Remaining(Ended(i)) /\ Working(Ended(i)) = {} /\ calls[i].for = params
    BY <1>1, <2>1, RowEnds
  <2>3. "count" # "list"
    OBVIOUS
  <2> QED
    BY <2>1, <2>2, <2>3, RowBegins
<1>4. ASSUME NEW i \in DOMAIN calls, SetPageLeft(i) PROVE Goal
  <2>1. PICK p : calls[i].op # "list" /\ SetParams(p, Ended(i))
    BY <1>4 DEF SetPageLeft
  <2>2. params' = p /\ calls' = Append(Ended(i), Call("list", 0, p))
    BY <2>1 DEF SetParams
  <2>3. Remaining(Ended(i)) /\ Working(Ended(i)) = {}
    BY <1>1, <2>1, RowEnds
  <2> QED
    BY <2>2, <2>3, FetchBegins
<1>5. ASSUME NEW i \in DOMAIN calls, FetchAgain(i) PROVE Goal
  <2>1. PICK id : /\ calls[i].op # "list" /\ params' = params
                  /\ calls' = Append(Ended(i), Call("list", id, calls[i].for))
    BY <1>5 DEF FetchAgain
  <2>2. Remaining(Ended(i)) /\ Working(Ended(i)) = {} /\ calls[i].for = params
    BY <1>1, <2>1, RowEnds
  <2> QED
    BY <2>1, <2>2, FetchBegins
<1> HIDE DEF Goal
<1>6. Goal
  BY <1>2, <1>3, <1>4, <1>5 DEF Answer
<1> QED
  BY <1>6 DEF Goal

LEMMA ServeShows ==
    ASSUME CallsInv, ShowInv, why \subseteq why', NEW i \in DOMAIN calls, Serve(i)
    PROVE  ShowInv'
<1> SUFFICES ASSUME why' \cap Wrong = {}
             PROVE  Shows(calls', [items |-> items', total |-> total'], server', params')
  BY DEF ShowInv, Wrong
<1>1. Shows(calls, [items |-> items, total |-> total], server, params)
  BY DEF ShowInv, Wrong
<1>2. items' = items /\ total' = total /\ params' = params
  BY DEF Serve, view
<1>3. CASE calls[i].op = "list"
  <2>1. /\ server' = server
        /\ calls' = [calls EXCEPT ![i].step = "done",
                                  ![i].answer = GetPlaybooks(server, calls[i].for)]
    BY <1>3 DEF Serve
  <2>2. Answered(calls', i, GetPlaybooks(server, calls[i].for))
    BY <2>1, ServedCalls
  <2> QED
    BY <1>1, <1>2, <1>3, <2>1, <2>2, FetchServed
<1>4. CASE calls[i].op # "list"
  <2>1. PICK a : Answered(calls', i, a)
    BY ServeRemains
  <2> QED
    BY <1>1, <1>2, <1>4, <2>1, RowServed
<1> QED
  BY <1>3, <1>4

LEMMA ShowStep ==
    ASSUME CallsInv, ShowInv, [Next]_vars
    PROVE  ShowInv'
<1> why \subseteq why'
  BY WhyGrows
<1>1. CASE User
  BY <1>1, UserShows
<1>2. CASE Answer
  BY <1>2, AnswerShows
<1>3. CASE Search
  <2> SUFFICES ASSUME why' \cap Wrong = {}
               PROVE  Shows(calls', [items |-> items', total |-> total'], server', params')
    BY DEF ShowInv, Wrong
  <2> QED
    BY <1>3, SetShows DEF Search
<1>4. ASSUME NEW i \in DOMAIN calls, Serve(i) PROVE ShowInv'
  BY <1>4, ServeShows
<1>5. ASSUME NEW i \in DOMAIN calls, Fail(i) PROVE ShowInv'
  BY <1>5 DEF Fail, ShowInv, Misplaced
<1>6. ASSUME NEW b, ArchivedByOther(b) PROVE ShowInv'
  BY <1>6 DEF ArchivedByOther, ShowInv
<1>7. CASE (\E kind \in {"archive", "restore"} : BannerTimeout(kind)) \/ UNCHANGED vars
  BY <1>7 DEF BannerTimeout, vars, view, ShowInv
<1> QED
  BY <1>1, <1>2, <1>3, <1>4, <1>5, <1>6, <1>7 DEF Next

(* At rest the list is the server's for the params, and shows what the     *)
(* user archived, restored, duplicated or left without a reload: the fetch *)
(* that follows each is the newest, however many run together (the effect  *)
(* of usePlaybooksCrud).  Not if answers overtook each other, something    *)
(* was chosen while a call of a row was under way or with buttons of a     *)
(* past rendering, a call failed, or others changed playbooks.             *)
THEOREM OwnChangesAreShown == Spec => []OwnChangesShow
<1>1. Init => ShowInv
  <2> SUFFICES ASSUME Init PROVE ShowInv
    OBVIOUS
  <2>1. /\ Len(calls) = 1
        /\ \A i \in 1 .. Len(calls) :
            /\ calls[i].op = "list" /\ calls[i].for = DefaultParams
            /\ calls[i].step = "sent" /\ ~calls[i].late
    BY StartCalls
  <2>2. Working(calls) = {}
    BY <2>1 DEF Working
  <2>3. 1 \in 1 .. Len(calls) /\ \A j \in 1 .. Len(calls) : j <= 1
    BY <2>1
  <2>4. params = DefaultParams
    BY DEF Init
  <2>5. NewestComes(calls, server, params)
    BY <2>1, <2>3, <2>4 DEF NewestComes
  <2> QED
    BY <2>2, <2>5 DEF ShowInv, Shows
<1>2. CallsInv /\ ShowInv /\ [Next]_vars => ShowInv'
  BY ShowStep
<1>3. ASSUME ShowInv PROVE OwnChangesShow
  <2> SUFFICES ASSUME Idle, why \cap (Misplaced \cup {"others"}) = {}
               PROVE  [items |-> items, total |-> total] = GetPlaybooks(server, params)
    BY DEF OwnChangesShow
  <2>1. Shows(calls, [items |-> items, total |-> total], server, params)
    BY <1>3 DEF ShowInv
  <2>2. Len(calls) = 0
    BY NothingIsSeq DEF Idle
  <2>3. Working(calls) = {} /\ ~NewestComes(calls, server, params)
    BY <2>2 DEF Working, NewestComes
  <2> QED
    BY <2>1, <2>3 DEF Shows, NewestShown
<1> QED
  BY <1>1, <1>2, <1>3, CallsInvariant, PTL DEF Spec
=============================================================================
