--------------------------- MODULE RunsList_proofs ---------------------------
(***************************************************************************)
(* Lists of runs, for every set of runs, page size, choice of what is      *)
(* stored and bound, in whatever order searches fire and answers come: no  *)
(* choice is lost, the list at rest is the beginning of the server's, and  *)
(* the scroll does not wait for ever for a page.  The last two rest on     *)
(* FetchInv: of the fetches under way only that begun last is live, and it *)
(* was sent for the choices and the team there are.  Then the row of a     *)
(* task and the sidebar of a channel, which stand beside the lists in      *)
(* MCRunViews: the row shows its task and stores what was chosen, and the  *)
(* sidebar opens the single run of its channel and a run that was created. *)
(***************************************************************************)
EXTENDS MCRunViews, SequenceTheorems, FiniteSetTheorems, TLAPS

-----------------------------------------------------------------------------
(* Searches that wait: sequences of terms. *)

Searches == [term : BOOLEAN, live : BOOLEAN]

(* The term the user sees: that typed last, or that of the list. *)
LastTerm(waiting, p) == IF waiting = <<>> THEN p.term ELSE waiting[Len(waiting)].term

(* What was chosen is what is fetched, except for the page and for a term  *)
(* that waits.                                                             *)
Agree(chosen, p, waiting) ==
    /\ chosen \in Params /\ p \in Params /\ waiting \in Seq(Searches)
    /\ chosen.page = 0
    /\ chosen.statuses = p.statuses
    /\ chosen.participant = p.participant
    /\ chosen.time = p.time
    /\ chosen.sort = p.sort
    /\ chosen.direction = p.direction
    /\ chosen.term = LastTerm(waiting, p)

IInv == Agree(asked, fetchParams, typed)

(* A list that is made again forgets which search is its own, no term.     *)
LEMMA RenderedTerms ==
    ASSUME NEW s \in Seq(Searches)
    PROVE  LET r == [i \in DOMAIN s |-> [s[i] EXCEPT !.live = FALSE]]
           IN  /\ r \in Seq(Searches)
               /\ \A p : LastTerm(r, p) = LastTerm(s, p)
<1> DEFINE r == [i \in DOMAIN s |-> [s[i] EXCEPT !.live = FALSE]]
<1>1. Len(s) \in Nat /\ DOMAIN s = 1 .. Len(s) /\ \A i \in 1 .. Len(s) : s[i] \in Searches
  BY LenProperties, ElementOfSeq
<1>2. \A i \in 1 .. Len(s) : /\ [s[i] EXCEPT !.live = FALSE] \in Searches
                             /\ [s[i] EXCEPT !.live = FALSE].term = s[i].term
  BY <1>1 DEF Searches
<1>3. r \in Seq(Searches) /\ Len(r) = Len(s)
  BY <1>1, <1>2, IsASeq, LenProperties
<1>4. (r = <<>>) <=> (s = <<>>)
  BY <1>3, EmptySeq
<1>5. s # <<>> => Len(s) \in 1 .. Len(s)
  BY <1>1, EmptySeq
<1>6. s # <<>> => r[Len(r)].term = s[Len(s)].term
  BY <1>1, <1>2, <1>3, <1>5
<1> QED
  BY <1>3, <1>4, <1>6 DEF LastTerm

(* The term of a search typed last is the last one.                        *)
LEMMA AppendedTerm ==
    ASSUME NEW s \in Seq(Searches), NEW e \in Searches
    PROVE  /\ Append(s, e) \in Seq(Searches)
           /\ \A p : LastTerm(Append(s, e), p) = e.term
<1>1. /\ Append(s, e) \in Seq(Searches)
      /\ Len(Append(s, e)) = Len(s) + 1
      /\ Append(s, e)[Len(s) + 1] = e
  BY AppendProperties
<1>2. Append(s, e) # <<>>
  BY <1>1, LenProperties, EmptySeq
<1> QED
  BY <1>1, <1>2 DEF LastTerm

(* After the first search has fired the last one is last still.            *)
LEMMA FiredTerms ==
    ASSUME NEW s \in Seq(Searches), s # <<>>, NEW p, NEW q, q.term = Head(s).term
    PROVE  LET r == [i \in 1 .. (Len(s) - 1) |-> [s[i + 1] EXCEPT !.live = FALSE]]
           IN  r \in Seq(Searches) /\ LastTerm(r, q) = LastTerm(s, p)
<1> DEFINE r == [i \in 1 .. (Len(s) - 1) |-> [s[i + 1] EXCEPT !.live = FALSE]]
<1>1. Len(s) \in Nat /\ Len(s) > 0 /\ DOMAIN s = 1 .. Len(s)
      /\ \A i \in 1 .. Len(s) : s[i] \in Searches
  BY LenProperties, ElementOfSeq, EmptySeq
<1>2. \A i \in 1 .. (Len(s) - 1) : /\ [s[i + 1] EXCEPT !.live = FALSE] \in Searches
                                   /\ [s[i + 1] EXCEPT !.live = FALSE].term = s[i + 1].term
  <2>1. \A i \in 1 .. (Len(s) - 1) : s[i + 1] \in Searches
    BY <1>1
  <2> QED
    BY <2>1 DEF Searches
<1>3. r \in Seq(Searches) /\ Len(r) = Len(s) - 1
  BY <1>1, <1>2, IsASeq, LenProperties
<1>4. CASE Len(s) = 1
  <2>1. r = <<>>
    BY <1>3, <1>4, EmptySeq
  <2>2. Head(s) = s[Len(s)]
    BY <1>4
  <2> QED
    BY <1>3, <2>1, <2>2 DEF LastTerm
<1>5. CASE Len(s) # 1
  <2> HIDE DEF r
  <2>1. r # <<>>
    <3>1. Len(r) # 0
      BY <1>1, <1>3, <1>5
    <3> QED
      BY <3>1
  <2>2. Len(r) \in 1 .. (Len(s) - 1) /\ Len(r) + 1 = Len(s)
    BY <1>1, <1>3, <1>5
  <2>3. r[Len(r)].term = s[Len(s)].term
    BY <1>2, <2>2 DEF r
  <2>4. LastTerm(r, q) = LastTerm(s, p)
    BY <2>1, <2>3 DEF LastTerm
  <2> QED
    BY <1>3, <2>4 DEF r
<1> QED
  BY <1>1, <1>3, <1>4, <1>5

-----------------------------------------------------------------------------
(* The steps. *)

(* A choice made with the params of now, without touching the term.        *)
LEMMA ChoiceAgrees ==
    ASSUME IInv, NEW p \in Params, p.term = fetchParams.term, NEW reasons, Choice(p, reasons)
    PROVE  IInv'
<1>1. /\ fetchParams' = p
      /\ asked' = [p EXCEPT !.page = 0, !.term = asked.term]
      /\ typed' = [i \in DOMAIN typed |-> [typed[i] EXCEPT !.live = FALSE]]
  BY DEF Choice, SetFetchParams, Rendered
<1>2. typed' \in Seq(Searches) /\ \A x : LastTerm(typed', x) = LastTerm(typed, x)
  BY <1>1, RenderedTerms DEF IInv, Agree
<1>3. LastTerm(typed, p) = LastTerm(typed, fetchParams)
  BY DEF LastTerm
<1>4. asked \in Params /\ asked.term = LastTerm(typed, fetchParams)
  BY DEF IInv, Agree
<1>5. /\ asked' \in Params /\ asked'.page = 0 /\ asked'.term = asked.term
      /\ asked'.statuses = p.statuses /\ asked'.participant = p.participant
      /\ asked'.time = p.time /\ asked'.sort = p.sort /\ asked'.direction = p.direction
  BY <1>1, <1>4 DEF Params
<1> QED
  BY <1>1, <1>2, <1>3, <1>4, <1>5 DEF IInv, Agree

(* The column and direction clicked are those of the server's order.       *)
LEMMA SortedParams ==
    ASSUME fetchParams \in Params, NEW col \in {"name", "update"}
    PROVE  /\ Sorted(col) \in Params /\ Sorted(col).term = fetchParams.term
           /\ [Sorted(col) EXCEPT !.page = 0] \in Params
           /\ [Sorted(col) EXCEPT !.page = 0].term = fetchParams.term
<1>1. CASE fetchParams.sort = col
  BY <1>1 DEF Sorted, Params
<1>2. CASE fetchParams.sort # col
  <2>1. PICK d \in {"asc", "desc"} :
            Sorted(col) = [fetchParams EXCEPT !.sort = col, !.direction = d]
    BY <1>2 DEF Sorted
  <2> QED
    BY <2>1 DEF Params
<1> QED
  BY <1>1, <1>2

LEMMA ChoicesAgree ==
    ASSUME IInv,
           \/ SetFinishedRuns \/ SetMyRunsOnly \/ FilterByTime
           \/ \E col \in {"name", "update"} : ColHeaderClicked(col) \/ MetricsColHeaderClicked(col)
    PROVE  IInv'
<1>1. fetchParams \in Params
  BY DEF IInv, Agree
<1>2. CASE SetFinishedRuns
  <2> DEFINE p == [fetchParams EXCEPT !.statuses = ~@, !.page = 0]
  <2>1. p \in Params /\ p.term = fetchParams.term
    BY <1>1 DEF Params
  <2> QED
    BY <1>2, <2>1, ChoiceAgrees DEF SetFinishedRuns
<1>3. CASE SetMyRunsOnly
  <2> DEFINE p == [fetchParams EXCEPT !.participant = ~@, !.page = 0]
  <2>1. p \in Params /\ p.term = fetchParams.term
    BY <1>1 DEF Params
  <2> QED
    BY <1>3, <2>1, ChoiceAgrees DEF SetMyRunsOnly
<1>4. CASE FilterByTime
  <2> DEFINE p == [fetchParams EXCEPT !.time = ~@, !.page = 0]
  <2>1. p \in Params /\ p.term = fetchParams.term
    BY <1>1 DEF Params
  <2> QED
    BY <1>4, <2>1, ChoiceAgrees DEF FilterByTime
<1>5. ASSUME NEW col \in {"name", "update"}, ColHeaderClicked(col)
      PROVE  IInv'
  BY <1>1, <1>5, SortedParams, ChoiceAgrees DEF ColHeaderClicked
<1>6. ASSUME NEW col \in {"name", "update"}, MetricsColHeaderClicked(col)
      PROVE  IInv'
  BY <1>1, <1>6, SortedParams, ChoiceAgrees DEF MetricsColHeaderClicked
<1> QED
  BY <1>2, <1>3, <1>4, <1>5, <1>6

(* The next page, another team: the choices stay.                          *)
LEMMA PageAgrees ==
    ASSUME IInv, NextPage \/ \E t \in Teams : ChangeTeam(t)
    PROVE  IInv'
<1>1. /\ asked' = asked
      /\ fetchParams' = fetchParams \/ fetchParams' = [fetchParams EXCEPT !.page = @ + 1]
      /\ typed' = [i \in DOMAIN typed |-> [typed[i] EXCEPT !.live = FALSE]]
  BY DEF NextPage, ChangeTeam, SetFetchParams, Rendered
<1>2. typed' \in Seq(Searches) /\ \A x : LastTerm(typed', x) = LastTerm(typed, x)
  BY <1>1, RenderedTerms DEF IInv, Agree
<1>3. /\ fetchParams' \in Params
      /\ fetchParams'.term = fetchParams.term
      /\ fetchParams'.statuses = fetchParams.statuses
      /\ fetchParams'.participant = fetchParams.participant
      /\ fetchParams'.time = fetchParams.time /\ fetchParams'.sort = fetchParams.sort
      /\ fetchParams'.direction = fetchParams.direction
  BY <1>1 DEF IInv, Agree, Params
<1>4. LastTerm(typed, fetchParams') = LastTerm(typed, fetchParams)
  BY <1>3 DEF LastTerm
<1> QED
  BY <1>1, <1>2, <1>3, <1>4 DEF IInv, Agree

(* After a reload the list has the choices of the address, and no search   *)
(* waits.                                                                  *)
LEMMA ReloadAgrees ==
    ASSUME IInv, Reload
    PROVE  IInv'
<1>1. /\ fetchParams' = [fetchParams EXCEPT !.page = 0] /\ typed' = <<>>
      /\ asked' = [asked EXCEPT !.term = fetchParams.term]
  BY DEF Reload
<1>2. <<>> \in Seq(Searches) /\ LastTerm(<<>>, fetchParams') = fetchParams'.term
  BY EmptySeq DEF LastTerm
<1>3. asked \in Params /\ fetchParams \in Params
  BY DEF IInv, Agree
<1>4. asked' \in Params /\ fetchParams' \in Params
  BY <1>1, <1>3 DEF Params
<1>5. /\ asked'.page = asked.page /\ asked'.statuses = asked.statuses
      /\ asked'.participant = asked.participant /\ asked'.time = asked.time
      /\ asked'.sort = asked.sort /\ asked'.direction = asked.direction
      /\ asked'.term = fetchParams.term
  BY <1>1, <1>3 DEF Params
<1>6. /\ fetchParams'.statuses = fetchParams.statuses /\ fetchParams'.time = fetchParams.time
      /\ fetchParams'.participant = fetchParams.participant
      /\ fetchParams'.sort = fetchParams.sort
      /\ fetchParams'.direction = fetchParams.direction
      /\ fetchParams'.term = fetchParams.term
  BY <1>1, <1>3 DEF Params
<1> QED
  BY <1>1, <1>2, <1>4, <1>5, <1>6 DEF IInv, Agree

LEMMA TypingAgrees ==
    ASSUME IInv, NEW term \in BOOLEAN, SetSearchTerm(term)
    PROVE  IInv'
<1> DEFINE e == [term |-> term, live |-> TRUE]
<1>1. /\ fetchParams' = fetchParams
      /\ asked' = [asked EXCEPT !.term = term]
      /\ typed' = Append(typed, e) \/ (typed # <<>> /\ typed' = Append(Front(typed), e))
  BY DEF SetSearchTerm
<1>2. e \in Searches /\ e.term = term
  BY DEF Searches
<1>3. typed # <<>> => Front(typed) \in Seq(Searches)
  <2>1. typed \in Seq(Searches) /\ Len(typed) \in Nat
    BY LenProperties DEF IInv, Agree
  <2>2. \A i \in 1 .. (Len(typed) - 1) : typed[i] \in Searches
    BY <2>1, ElementOfSeq
  <2> QED
    BY <2>1, <2>2, SubSeqProperties DEF Front
<1>4. typed' \in Seq(Searches) /\ \A x : LastTerm(typed', x) = term
  <2> HIDE DEF e
  <2>1. CASE typed' = Append(typed, e)
    BY <1>2, <2>1, AppendedTerm DEF IInv, Agree
  <2>2. CASE typed # <<>> /\ typed' = Append(Front(typed), e)
    BY <1>2, <1>3, <2>2, AppendedTerm
  <2> QED
    BY <1>1, <2>1, <2>2
<1>5. /\ asked' \in Params /\ asked'.term = term
      /\ asked'.page = asked.page /\ asked'.statuses = asked.statuses
      /\ asked'.participant = asked.participant /\ asked'.time = asked.time
      /\ asked'.sort = asked.sort /\ asked'.direction = asked.direction
  BY <1>1 DEF IInv, Agree, Params
<1> QED
  BY <1>1, <1>4, <1>5 DEF IInv, Agree

(* A search that fires keeps the other choices of now.                     *)
LEMMA SearchAgrees ==
    ASSUME IInv, Search
    PROVE  IInv'
<1>1. /\ typed \in Seq(Searches) /\ typed # <<>> /\ asked' = asked
      /\ fetchParams' = [fetchParams EXCEPT !.term = Head(typed).term, !.page = 0]
      /\ typed' = [i \in 1 .. (Len(typed) - 1) |-> [typed[i + 1] EXCEPT !.live = FALSE]]
  BY DEF Search, SetFetchParams, IInv, Agree
<1>2. Head(typed) \in Searches
  BY <1>1, HeadTailProperties
<1>3. /\ fetchParams' \in Params /\ fetchParams'.term = Head(typed).term
      /\ fetchParams'.statuses = fetchParams.statuses /\ fetchParams'.time = fetchParams.time
      /\ fetchParams'.participant = fetchParams.participant
      /\ fetchParams'.sort = fetchParams.sort
      /\ fetchParams'.direction = fetchParams.direction
  <2>1. Head(typed).term \in BOOLEAN
    BY <1>2 DEF Searches
  <2> QED
    BY <1>1, <2>1 DEF IInv, Agree, Params
<1>4. typed' \in Seq(Searches) /\ LastTerm(typed', fetchParams') = LastTerm(typed, fetchParams)
  BY <1>1, <1>3, FiredTerms
<1> QED
  BY <1>1, <1>3, <1>4 DEF IInv, Agree

(* What the server and others do leaves the choices; an answer makes the   *)
(* list again.                                                             *)
LEMMA OthersAgree ==
    ASSUME IInv, UNCHANGED <<asked, fetchParams>>, UNCHANGED typed \/ Rendered
    PROVE  IInv'
<1>1. typed' \in Seq(Searches) /\ \A x : LastTerm(typed', x) = LastTerm(typed, x)
  BY RenderedTerms DEF Rendered, IInv, Agree
<1> QED
  BY <1>1 DEF IInv, Agree

LEMMA Step ==
    ASSUME IInv, [Next]_vars
    PROVE  IInv'
<1>1. CASE \/ SetFinishedRuns \/ SetMyRunsOnly \/ FilterByTime
           \/ \E col \in {"name", "update"} : ColHeaderClicked(col) \/ MetricsColHeaderClicked(col)
  BY <1>1, ChoicesAgree
<1>2. CASE NextPage \/ \E t \in Teams : ChangeTeam(t)
  BY <1>2, PageAgrees
<1>3. CASE Reload
  BY <1>3, ReloadAgrees
<1>4. CASE Search
  BY <1>4, SearchAgrees
<1>5. CASE \E term \in BOOLEAN : SetSearchTerm(term)
  BY <1>5, TypingAgrees
<1>6. CASE \E i \in DOMAIN fetches : Serve(i) \/ Deliver(i) \/ Fail(i)
  BY <1>6, OthersAgree DEF Serve, Deliver, Fail
<1>7. CASE \E i \in DOMAIN checks : ServeCheck(i) \/ CheckForPlaybookRuns(i)
  BY <1>7, OthersAgree DEF ServeCheck, CheckForPlaybookRuns
<1>8. CASE \E r \in Runs : StatusUpdate(r) \/ FinishRun(r) \/ StartRun(r)
  BY <1>8, OthersAgree DEF StatusUpdate, FinishRun, StartRun, ByOthers
<1>9. CASE UNCHANGED vars
  BY <1>9, OthersAgree DEF vars
<1> QED
  BY <1>1, <1>2, <1>3, <1>4, <1>5, <1>6, <1>7, <1>8, <1>9 DEF Next

LEMMA Start == Init => IInv
<1> SUFFICES ASSUME Init PROVE IInv
  OBVIOUS
<1>1. fetchParams \in Params /\ fetchParams.page = 0 /\ asked = fetchParams /\ typed = <<>>
  BY DEF Init, DefaultParams, Params
<1> QED
  BY <1>1, EmptySeq DEF IInv, Agree, LastTerm

LEMMA Invariant == Spec => []IInv
<1>1. IInv /\ [Next]_vars => IInv'
  BY Step
<1> QED
  BY Start, <1>1, PTL DEF Spec

(* The filters, the column and the search are what the user chose last     *)
(* once no search waits (onSearch spreads the params there are when it     *)
(* fires, whatever was chosen while it waited).                            *)
THEOREM ChoicesStay == Spec => []ChoicesKept
<1>1. ASSUME IInv PROVE ChoicesKept
  <2> SUFFICES ASSUME typed = <<>> PROVE asked = [fetchParams EXCEPT !.page = 0]
    BY DEF ChoicesKept
  <2> QED
    BY <1>1 DEF IInv, Agree, LastTerm, Params
<1> QED
  BY Invariant, <1>1, PTL

-----------------------------------------------------------------------------
(* Sequences, whatever they hold. *)

IsSeq(s) == Len(s) \in Nat /\ s = [i \in 1 .. Len(s) |-> s[i]]

LEMMA AnySeq ==
    ASSUME NEW S, NEW s \in Seq(S)
    PROVE  IsSeq(s) /\ DOMAIN s = 1 .. Len(s)
BY LenProperties DEF IsSeq

LEMMA HoldsItsElements ==
    ASSUME NEW s, IsSeq(s), NEW T
    PROVE  s \in Seq({s[i] : i \in 1 .. Len(s)} \cup T) /\ DOMAIN s = 1 .. Len(s)
<1>1. \A i \in 1 .. Len(s) : s[i] \in {s[j] : j \in 1 .. Len(s)} \cup T
  OBVIOUS
<1>2. [i \in 1 .. Len(s) |-> s[i]] \in Seq({s[j] : j \in 1 .. Len(s)} \cup T)
  BY <1>1, IsASeq DEF IsSeq
<1> QED
  BY <1>2 DEF IsSeq

LEMMA NothingIsSeq == IsSeq(<<>>) /\ Len(<<>>) = 0 /\ DOMAIN <<>> = {}
<1>1. <<>> \in Seq({}) /\ Len(<<>>) = 0
  BY EmptySeq
<1>2. IsSeq(<<>>) /\ DOMAIN <<>> = 1 .. 0
  BY <1>1, AnySeq
<1> QED
  BY <1>1, <1>2

(* A function on a beginning of the naturals is one.                       *)
LEMMA MadeIsSeq ==
    ASSUME NEW n \in Nat, NEW s, s = [i \in 1 .. n |-> s[i]]
    PROVE  IsSeq(s) /\ Len(s) = n
<1>1. [i \in 1 .. n |-> s[i]] \in Seq({s[i] : i \in 1 .. n})
  BY IsASeq
<1>2. s \in Seq({s[i] : i \in 1 .. n}) /\ DOMAIN s = 1 .. n
  BY <1>1
<1>3. IsSeq(s) /\ DOMAIN s = 1 .. Len(s) /\ Len(s) \in Nat
  BY <1>2, AnySeq DEF IsSeq
<1>4. Len(s) = n
  BY <1>2, <1>3
<1> QED
  BY <1>3, <1>4

LEMMA AppendIsSeq ==
    ASSUME NEW s, IsSeq(s), NEW e
    PROVE  /\ IsSeq(Append(s, e)) /\ Len(Append(s, e)) = Len(s) + 1
           /\ \A i \in 1 .. Len(s) : Append(s, e)[i] = s[i]
           /\ Append(s, e)[Len(s) + 1] = e
<1> DEFINE S == {s[i] : i \in 1 .. Len(s)} \cup {e}
<1>1. s \in Seq(S) /\ e \in S
  BY HoldsItsElements
<1> HIDE DEF S
<1>2. /\ Append(s, e) \in Seq(S) /\ Len(Append(s, e)) = Len(s) + 1
      /\ \A i \in 1 .. Len(s) : Append(s, e)[i] = s[i]
      /\ Append(s, e)[Len(s) + 1] = e
  BY <1>1, AppendProperties
<1>3. IsSeq(Append(s, e))
  BY <1>2, AnySeq
<1> QED
  BY <1>2, <1>3

LEMMA PartIsSeq ==
    ASSUME NEW s, IsSeq(s), NEW m \in Int, NEW n \in Int, 1 <= m, n <= Len(s)
    PROVE  /\ IsSeq(SubSeq(s, m, n)) /\ Len(SubSeq(s, m, n)) = IF m <= n THEN n - m + 1 ELSE 0
           /\ \A i \in 1 .. (n - m + 1) : SubSeq(s, m, n)[i] = s[m + i - 1]
<1> DEFINE S == {s[i] : i \in 1 .. Len(s)}
<1>1. \A i \in m .. n : s[i] \in S
  BY DEF IsSeq
<1> HIDE DEF S
<1>2. /\ SubSeq(s, m, n) \in Seq(S)
      /\ Len(SubSeq(s, m, n)) = IF m <= n THEN n - m + 1 ELSE 0
      /\ \A i \in 1 .. (n - m + 1) : SubSeq(s, m, n)[i] = s[m + i - 1]
  BY <1>1, SubSeqProperties
<1>3. IsSeq(SubSeq(s, m, n))
  BY <1>2, AnySeq
<1> QED
  BY <1>2, <1>3

LEMMA JoinedIsSeq ==
    ASSUME NEW a, IsSeq(a), NEW b, IsSeq(b)
    PROVE  /\ IsSeq(a \o b) /\ Len(a \o b) = Len(a) + Len(b)
           /\ \A j \in 1 .. (Len(a) + Len(b)) : (a \o b)[j] = IF j <= Len(a) THEN a[j] ELSE b[j - Len(a)]
<1> DEFINE S == {a[j] : j \in 1 .. Len(a)} \cup {b[j] : j \in 1 .. Len(b)}
<1>1. a \in Seq(S) /\ b \in Seq(S)
  <2>1. a \in Seq({a[j] : j \in 1 .. Len(a)} \cup {b[j] : j \in 1 .. Len(b)})
    BY HoldsItsElements
  <2>2. b \in Seq({b[j] : j \in 1 .. Len(b)} \cup {a[j] : j \in 1 .. Len(a)})
    BY HoldsItsElements
  <2>3. {b[j] : j \in 1 .. Len(b)} \cup {a[j] : j \in 1 .. Len(a)} = S
    OBVIOUS
  <2> QED
    BY <2>1, <2>2, <2>3
<1> HIDE DEF S
<1>2. /\ a \o b \in Seq(S) /\ Len(a \o b) = Len(a) + Len(b)
      /\ \A j \in 1 .. (Len(a) + Len(b)) : (a \o b)[j] = IF j <= Len(a) THEN a[j] ELSE b[j - Len(a)]
  BY <1>1, ConcatProperties
<1> QED
  BY <1>2, AnySeq

LEMMA RemovedIsSeq ==
    ASSUME NEW s, IsSeq(s), NEW i \in 1 .. Len(s)
    PROVE  /\ IsSeq(RemoveAt(s, i)) /\ Len(RemoveAt(s, i)) = Len(s) - 1
           /\ \A j \in 1 .. (Len(s) - 1) :
                RemoveAt(s, i)[j] = IF j < i THEN s[j] ELSE s[j + 1]
<1> DEFINE a == SubSeq(s, 1, i - 1)
           b == SubSeq(s, i + 1, Len(s))
<1>1. Len(s) \in Nat /\ i \in Int /\ 1 <= i /\ i <= Len(s)
  BY DEF IsSeq
<1>2. /\ IsSeq(a) /\ Len(a) = i - 1
      /\ \A j \in 1 .. (i - 1) : a[j] = s[j]
  BY <1>1, PartIsSeq
<1>3. /\ IsSeq(b) /\ Len(b) = Len(s) - i
      /\ \A j \in 1 .. (Len(s) - i) : b[j] = s[i + j]
  <2>1. i + 1 \in Int /\ Len(s) \in Int /\ 1 <= i + 1 /\ Len(s) <= Len(s)
    BY <1>1
  <2>2. /\ IsSeq(b) /\ Len(b) = IF i + 1 <= Len(s) THEN Len(s) - (i + 1) + 1 ELSE 0
        /\ \A j \in 1 .. (Len(s) - (i + 1) + 1) : b[j] = s[(i + 1) + j - 1]
    BY <2>1, PartIsSeq
  <2>3. ASSUME NEW j \in 1 .. (Len(s) - i)
        PROVE  b[j] = s[i + j]
    <3>1. (i + 1) + j - 1 = i + j /\ j \in 1 .. (Len(s) - (i + 1) + 1)
      BY <1>1
    <3>2. b[j] = s[(i + 1) + j - 1]
      BY <2>2, <3>1
    <3> QED
      BY <3>1, <3>2
  <2> HIDE DEF b
  <2>4. Len(b) = Len(s) - i
    BY <1>1, <2>2
  <2> QED
    BY <2>2, <2>3, <2>4
<1>4. RemoveAt(s, i) = a \o b
  BY DEF RemoveAt
<1> HIDE DEF a, b
<1>5. /\ IsSeq(a \o b) /\ Len(a \o b) = Len(a) + Len(b)
      /\ \A j \in 1 .. (Len(a) + Len(b)) : (a \o b)[j] = IF j <= Len(a) THEN a[j] ELSE b[j - Len(a)]
  BY <1>2, <1>3, JoinedIsSeq
<1>6. Len(a) + Len(b) = Len(s) - 1
  BY <1>1, <1>2, <1>3
<1>7. ASSUME NEW j \in 1 .. (Len(s) - 1)
      PROVE  (a \o b)[j] = IF j < i THEN s[j] ELSE s[j + 1]
  <2>1. CASE j < i
    BY <1>1, <1>2, <1>5, <1>6, <2>1
  <2>2. CASE ~(j < i)
    <3>1. j - (i - 1) \in 1 .. (Len(s) - i) /\ i + (j - (i - 1)) = j + 1 /\ ~(j <= i - 1)
      BY <1>1, <2>2
    <3> QED
      BY <1>2, <1>3, <1>5, <1>6, <2>2, <3>1
  <2> QED
    BY <2>1, <2>2
<1> QED
  BY <1>4, <1>5, <1>6, <1>7

-----------------------------------------------------------------------------
(* The server's list is a sequence, of as many runs as are found. *)

LEMMA LeastIs ==
    ASSUME NEW a \in Nat, NEW b \in Nat
    PROVE  /\ Least(a, b) \in Nat /\ Least(a, b) <= a /\ Least(a, b) <= b
           /\ Least(a, b) = a \/ Least(a, b) = b
BY DEF Least

LEMMA PagesAdd ==
    ASSUME NEW k \in Nat
    PROVE  k * PerPage \in Nat /\ (k + 1) * PerPage = k * PerPage + PerPage /\ PerPage \in Nat \ {0}
BY RunsAssumption

LEMMA FoundIsFinite ==
    ASSUME updated \in Stored, NEW p, NEW t
    PROVE  IsFiniteSet(Found(p, t)) /\ Cardinality(Found(p, t)) \in Nat
<1>1. updated \in Seq(Runs) /\ Len(updated) \in Nat /\ DOMAIN updated = 1 .. Len(updated)
  BY RunsAssumption, LenProperties
<1>2. IsFiniteSet(1 .. Len(updated))
  BY <1>1, FS_Interval
<1>3. ToSet(updated) = {updated[i] : i \in 1 .. Len(updated)}
  BY <1>1 DEF ToSet
<1>4. updated \in Surjection(1 .. Len(updated), ToSet(updated))
  BY <1>1, <1>3 DEF Surjection
<1>5. IsFiniteSet(ToSet(updated))
  BY <1>2, <1>4, FS_Surjection
<1>6. Found(p, t) \subseteq ToSet(updated)
  BY DEF Found
<1> QED
  BY <1>5, <1>6, FS_Subset, FS_CardinalityType

LEMMA ViewIsSeq ==
    ASSUME updated \in Stored, NEW p, NEW t
    PROVE  IsSeq(View(p, t)) /\ Len(View(p, t)) = Cardinality(Found(p, t)) /\ Len(View(p, t)) \in Nat
<1>1. Cardinality(Found(p, t)) \in Nat
  BY FoundIsFinite
<1>2. PICK n : n = Cardinality(Found(p, t))
  OBVIOUS
<1>3. PICK s : s = View(p, t)
  OBVIOUS
<1>4. s = [i \in 1 .. n |-> s[i]]
  BY <1>2, <1>3 DEF View
<1>5. IsSeq(s) /\ Len(s) = n
  BY <1>1, <1>2, <1>4, MadeIsSeq
<1> QED
  BY <1>1, <1>2, <1>3, <1>5

(* The number of the page is not a choice.                                 *)
LEMMA PageIsNoChoice ==
    ASSUME NEW p \in Params, NEW k, NEW q, q = [p EXCEPT !.page = k], NEW t
    PROVE  View(q, t) = View(p, t)
<1>1. /\ q.statuses = p.statuses /\ q.participant = p.participant /\ q.time = p.time
      /\ q.term = p.term /\ q.sort = p.sort /\ q.direction = p.direction
  BY DEF Params
<1>2. Found(q, t) = Found(p, t)
  BY <1>1 DEF Found, Shows
<1>3. \A a, b : Precedes(q, a, b) = Precedes(p, a, b)
  BY <1>1 DEF Precedes, Key
<1>4. ASSUME NEW n
      PROVE  Nth(q, t, n) = Nth(p, t, n)
  <2>1. \A r : {x \in Found(q, t) : Precedes(q, x, r)} = {x \in Found(p, t) : Precedes(p, x, r)}
    BY <1>2, <1>3
  <2> QED
    BY <1>2, <2>1 DEF Nth
<1> QED
  BY <1>2, <1>4 DEF View

(* Nor does the column change how many there are.                          *)
LEMMA SortingKeepsNumber ==
    ASSUME updated \in Stored, NEW p \in Params, NEW q \in Params, NEW t,
           q.statuses = p.statuses, q.participant = p.participant, q.time = p.time, q.term = p.term
    PROVE  Len(View(q, t)) = Len(View(p, t))
<1>1. Found(q, t) = Found(p, t)
  BY DEF Found, Shows
<1> QED
  BY <1>1, ViewIsSeq

All == View(fetchParams, team)
Count(pages) == Least(pages * PerPage, Len(All))

(* While others change nothing, the list is that of the new choices.       *)
LEMMA AllNext ==
    ASSUME UNCHANGED <<list, updated, finished>>, NEW p, NEW t, p = fetchParams', t = team'
    PROVE  All' = View(p, t)
BY DEF All, View, Nth, Found, Shows, Key, Precedes

LEMMA AllStays ==
    ASSUME UNCHANGED <<list, updated, finished, fetchParams, team>>
    PROVE  All' = All /\ \A k : Count(k)' = Count(k)
<1>1. All' = All
  BY AllNext DEF All
<1> QED
  BY <1>1 DEF Count, Least
-----------------------------------------------------------------------------
(* Of the fetches only that begun last is live. *)

IsFetch(f) ==
    /\ DOMAIN f = {"for", "team", "step", "canceled", "answer"}
    /\ f.step \in {"sent", "done"} /\ f.canceled \in BOOLEAN

(* What the server answers for the choices there are.                      *)
Answers(f) ==
    /\ f.answer.items = SubSeq(All, fetchParams.page * PerPage + 1, Count(fetchParams.page + 1))
    /\ f.answer.total = Len(All)

FetchInv ==
    /\ IsSeq(fetches)
    /\ \A i \in DOMAIN fetches : IsFetch(fetches[i])
    /\ \A i, j \in Live : i = j
    /\ \A i \in Live :
          /\ fetches[i].for = fetchParams /\ fetches[i].team = team
          /\ "others" \notin why /\ fetches[i].step = "done" => Answers(fetches[i])

Steady == "others" \notin why => updated \in Stored

TypeInv == IInv /\ Steady /\ FetchInv

LEMMA SeqDomain ==
    ASSUME NEW s, IsSeq(s)
    PROVE  DOMAIN s = 1 .. Len(s) /\ Len(s) \in Nat
<1>1. s \in Seq({s[i] : i \in 1 .. Len(s)} \cup {}) /\ DOMAIN s = 1 .. Len(s)
  BY HoldsItsElements
<1> QED
  BY <1>1 DEF IsSeq

LEMMA NewFetch ==
    ASSUME NEW p, NEW t
    PROVE  /\ IsFetch(Fetch(p, t)) /\ ~Fetch(p, t).canceled /\ Fetch(p, t).step = "sent"
           /\ Fetch(p, t).for = p /\ Fetch(p, t).team = t
BY DEF IsFetch, Fetch

(* After a change of the choices the new fetch is live, and no other.      *)
LEMMA RefetchIsLive ==
    ASSUME IsSeq(fetches), \A i \in DOMAIN fetches : IsFetch(fetches[i]),
           NEW p, NEW t, Refetch(p, t), p = fetchParams', t = team'
    PROVE  FetchInv' /\ Live' # {}
<1> DEFINE old == [i \in DOMAIN fetches |-> [fetches[i] EXCEPT !.canceled = TRUE]]
           n == Len(fetches)
<1>1. n \in Nat /\ DOMAIN fetches = 1 .. n
  BY SeqDomain
<1>2. old = [i \in 1 .. n |-> old[i]] /\ DOMAIN old = 1 .. n
  BY <1>1
<1>3. IsSeq(old) /\ Len(old) = n
  BY <1>1, <1>2, MadeIsSeq
<1>4. ASSUME NEW i \in 1 .. n
      PROVE  IsFetch(old[i]) /\ old[i].canceled
  <2>1. IsFetch(fetches[i])
    BY <1>1
  <2>2. PICK m : m = [fetches[i] EXCEPT !.canceled = TRUE]
    OBVIOUS
  <2>3. IsFetch(m) /\ m.canceled
    BY <2>1, <2>2 DEF IsFetch
  <2>4. old[i] = m
    BY <1>1, <2>2
  <2> QED
    BY <2>3, <2>4
<1>5. PICK new : new = Fetch(p, t)
  OBVIOUS
<1>6. fetches' = Append(old, new)
  BY <1>5 DEF Refetch
<1> HIDE DEF old, n
<1>7. /\ IsSeq(fetches') /\ Len(fetches') = n + 1
      /\ \A i \in 1 .. n : fetches'[i] = old[i]
      /\ fetches'[n + 1] = new
  BY <1>3, <1>6, AppendIsSeq
<1>8. DOMAIN fetches' = 1 .. n + 1
  BY <1>7, SeqDomain
<1>9. IsFetch(new) /\ ~new.canceled /\ new.step = "sent" /\ new.for = p /\ new.team = t
  BY <1>5, NewFetch
<1>10. \A i \in DOMAIN fetches' : IsFetch(fetches'[i]) /\ (i \in 1 .. n \/ i = n + 1)
  BY <1>1, <1>4, <1>7, <1>8, <1>9
<1>11. Live' = {n + 1}
  BY <1>1, <1>4, <1>7, <1>8, <1>9, <1>10 DEF Live
<1>12. fetches'[n + 1].for = fetchParams' /\ fetches'[n + 1].team = team' /\ fetches'[n + 1].step # "done"
  BY <1>7, <1>9
<1> QED
  BY <1>7, <1>10, <1>11, <1>12 DEF FetchInv, IsFetch

LEMMA ReloadIsLive ==
    ASSUME NEW p, NEW t, fetches' = <<Fetch(p, t)>>, p = fetchParams', t = team'
    PROVE  FetchInv' /\ Live' # {}
<1>1. PICK new : new = Fetch(p, t)
  OBVIOUS
<1>2. fetches' = <<new>>
  BY <1>1
<1>3. IsFetch(new) /\ ~new.canceled /\ new.step = "sent" /\ new.for = p /\ new.team = t
  BY <1>1, NewFetch
<1>4. <<new>> \in Seq({new}) /\ Len(<<new>>) = 1 /\ <<new>>[1] = new
  OBVIOUS
<1>5. IsSeq(fetches') /\ DOMAIN fetches' = {1} /\ fetches'[1] = new
  <2>1. IsSeq(<<new>>) /\ DOMAIN <<new>> = 1 .. Len(<<new>>)
    BY <1>4, AnySeq
  <2> QED
    BY <1>2, <1>4, <2>1
<1>6. Live' = {1}
  BY <1>3, <1>5 DEF Live
<1> QED
  BY <1>3, <1>5, <1>6 DEF FetchInv, IsFetch

(* Where no fetch begins or ends, and the choices stay.                    *)
LEMMA FetchKept ==
    ASSUME FetchInv, UNCHANGED <<list, fetchParams, team, fetches>>, why \subseteq why',
           "others" \in why' \/ UNCHANGED <<updated, finished>>
    PROVE  FetchInv'
<1>1. Live' = Live
  BY DEF Live
<1>2. "others" \notin why' => All' = All /\ \A k : Count(k)' = Count(k)
  BY AllStays
<1>3. \A i \in Live : "others" \notin why' /\ fetches[i].step = "done" =>
         /\ fetches[i].answer.items = SubSeq(All, fetchParams.page * PerPage + 1, Count(fetchParams.page + 1))
         /\ fetches[i].answer.total = Len(All)
  BY DEF FetchInv, Answers
<1>4. "others" \notin why' => Count(fetchParams.page + 1)' = Count(fetchParams.page + 1)
  BY <1>2 DEF Count, Least
<1>5. \A i \in Live' : "others" \notin why' /\ fetches'[i].step = "done" =>
         /\ fetches'[i].answer.items =
               SubSeq(All', fetchParams'.page * PerPage + 1, Count(fetchParams.page + 1)')
         /\ fetches'[i].answer.total = Len(All')
  BY <1>1, <1>2, <1>3, <1>4
<1>6. /\ IsSeq(fetches') /\ \A i \in DOMAIN fetches' : IsFetch(fetches'[i])
      /\ \A i, j \in Live' : i = j
      /\ \A i \in Live' : fetches'[i].for = fetchParams' /\ fetches'[i].team = team'
  BY <1>1 DEF FetchInv
<1> QED
  BY <1>5, <1>6 DEF FetchInv, Answers

LEMMA ServeFetch ==
    ASSUME TypeInv, NEW i \in DOMAIN fetches, Serve(i)
    PROVE  FetchInv' /\ (Live' = {} <=> Live = {})
<1>1. IsSeq(fetches) /\ DOMAIN fetches = 1 .. Len(fetches) /\ Len(fetches) \in Nat
  BY SeqDomain DEF TypeInv, FetchInv
<1>2. PICK f : f = fetches[i]
  OBVIOUS
<1>3. PICK a : a = GetRuns(f.for, f.team)
  OBVIOUS
<1>4. PICK s : s = [fetches EXCEPT ![i].step = "done"]
  OBVIOUS
<1>5. fetches' = [s EXCEPT ![i].answer = a]
  BY <1>2, <1>3, <1>4 DEF Serve
<1>6. IsFetch(f)
  BY <1>2 DEF TypeInv, FetchInv
<1>7. PICK g : g = [f EXCEPT !.step = "done"]
  OBVIOUS
<1>8. PICK h : h = [g EXCEPT !.answer = a]
  OBVIOUS
<1>9. /\ DOMAIN g = DOMAIN f /\ g.step = "done" /\ g.canceled = f.canceled
      /\ g.for = f.for /\ g.team = f.team
  BY <1>6, <1>7 DEF IsFetch
<1>10. /\ IsFetch(h) /\ h.step = "done" /\ h.canceled = f.canceled
       /\ h.for = f.for /\ h.team = f.team /\ h.answer = a
  BY <1>6, <1>8, <1>9 DEF IsFetch
<1>11. s = [fetches EXCEPT ![i] = g] /\ DOMAIN s = DOMAIN fetches /\ s[i] = g
  BY <1>2, <1>4, <1>7
<1>12. fetches' = [fetches EXCEPT ![i] = h]
  <2>1. fetches' = [s EXCEPT ![i] = h]
    BY <1>5, <1>8, <1>11
  <2>2. \A j \in DOMAIN fetches : fetches'[j] = IF j = i THEN h ELSE fetches[j]
    BY <1>11, <2>1
  <2>3. fetches' = [j \in DOMAIN fetches |-> fetches'[j]]
    BY <1>11, <2>1
  <2> QED
    BY <1>1, <2>2, <2>3
<1>13. DOMAIN fetches' = DOMAIN fetches /\ IsSeq(fetches') /\ fetches'[i] = h
       /\ \A j \in DOMAIN fetches : j # i => fetches'[j] = fetches[j]
  <2>1. fetches' = [j \in 1 .. Len(fetches) |-> fetches'[j]]
    BY <1>1, <1>12
  <2>2. IsSeq(fetches')
    BY <1>1, <2>1, MadeIsSeq
  <2> QED
    BY <1>12, <2>2
<1>14. Live' = Live
  BY <1>2, <1>10, <1>13 DEF Live
<1>15. UNCHANGED <<list, updated, finished, fetchParams, team, why>>
  BY DEF Serve
<1>16. All' = All /\ Count(fetchParams.page + 1)' = Count(fetchParams.page + 1)
  BY <1>15, AllStays DEF Count, Least
<1>17. i \in Live => a = [items |-> SubSeq(All, fetchParams.page * PerPage + 1, Count(fetchParams.page + 1)),
                          total |-> Len(All)]
  BY <1>2, <1>3 DEF TypeInv, FetchInv, GetRuns, All, Count
<1>18. \A j \in Live' : fetches'[j].step = "done" /\ "others" \notin why' =>
          /\ fetches'[j].answer.items = SubSeq(All, fetchParams.page * PerPage + 1, Count(fetchParams.page + 1))
          /\ fetches'[j].answer.total = Len(All)
  <2>1. ASSUME NEW j \in Live', j # i, fetches'[j].step = "done", "others" \notin why'
        PROVE  Answers(fetches[j])
    BY <1>13, <1>14, <1>15, <2>1 DEF TypeInv, FetchInv, Live
  <2>2. ASSUME NEW j \in Live', j = i
        PROVE  /\ fetches'[j].answer.items = SubSeq(All, fetchParams.page * PerPage + 1, Count(fetchParams.page + 1))
               /\ fetches'[j].answer.total = Len(All)
    BY <1>10, <1>13, <1>14, <1>17, <2>2
  <2> QED
    BY <1>13, <1>14, <2>1, <2>2 DEF Answers, Live
<1>19. \A j \in Live' : fetches'[j].for = fetchParams' /\ fetches'[j].team = team'
  BY <1>2, <1>10, <1>13, <1>14, <1>15 DEF TypeInv, FetchInv, Live
<1>20. \A j \in DOMAIN fetches' : IsFetch(fetches'[j])
  BY <1>10, <1>13 DEF TypeInv, FetchInv
<1>21. /\ fetchParams' = fetchParams /\ \A j, k \in Live' : j = k
  BY <1>14, <1>15 DEF TypeInv, FetchInv
<1> QED
  BY <1>13, <1>14, <1>16, <1>18, <1>19, <1>20, <1>21 DEF FetchInv, Answers

(* An answer, or a failure, ends a fetch; the others stay.                 *)
LEMMA FetchEnds ==
    ASSUME TypeInv, NEW i \in DOMAIN fetches, fetches' = RemoveAt(fetches, i),
           UNCHANGED <<list, updated, finished, fetchParams, team>>, why \subseteq why'
    PROVE  /\ FetchInv'
           /\ i \in Live => Live' = {}
           /\ i \notin Live => (Live' = {} <=> Live = {})
<1>1. IsSeq(fetches) /\ DOMAIN fetches = 1 .. Len(fetches) /\ Len(fetches) \in Nat
  BY SeqDomain DEF TypeInv, FetchInv
<1>2. /\ IsSeq(fetches') /\ Len(fetches') = Len(fetches) - 1
      /\ \A j \in 1 .. (Len(fetches) - 1) : fetches'[j] = IF j < i THEN fetches[j] ELSE fetches[j + 1]
  BY <1>1, RemovedIsSeq
<1>3. DOMAIN fetches' = 1 .. (Len(fetches) - 1)
  BY <1>2, SeqDomain
<1> DEFINE from(j) == IF j < i THEN j ELSE j + 1
<1>4. \A j \in DOMAIN fetches' : from(j) \in DOMAIN fetches /\ from(j) # i /\ fetches'[j] = fetches[from(j)]
  BY <1>1, <1>2, <1>3
<1>5. \A j, k \in DOMAIN fetches' : from(j) = from(k) => j = k
  BY <1>1, <1>3
<1>6. \A j \in DOMAIN fetches : j # i => \E k \in DOMAIN fetches' : fetches'[k] = fetches[j] /\ from(k) = j
  <2> SUFFICES ASSUME NEW j \in DOMAIN fetches, j # i
               PROVE  \E k \in DOMAIN fetches' : fetches'[k] = fetches[j] /\ from(k) = j
    OBVIOUS
  <2>1. CASE j < i
    <3>1. j \in DOMAIN fetches' /\ from(j) = j
      BY <1>1, <1>3, <2>1
    <3> QED
      BY <1>4, <3>1
  <2>2. CASE ~(j < i)
    <3>1. j - 1 \in DOMAIN fetches' /\ from(j - 1) = j
      BY <1>1, <1>3, <2>2
    <3> QED
      BY <1>4, <3>1
  <2> QED
    BY <2>1, <2>2
<1> HIDE DEF from
<1>7. \A j \in Live' : from(j) \in Live /\ from(j) # i /\ fetches'[j] = fetches[from(j)]
  BY <1>4 DEF Live
<1>8. \A j, k \in Live' : j = k
  <2> SUFFICES ASSUME NEW j \in Live', NEW k \in Live' PROVE j = k
    OBVIOUS
  <2>1. from(j) = from(k)
    BY <1>7 DEF TypeInv, FetchInv
  <2> QED
    BY <1>5, <2>1 DEF Live
<1>9. i \in Live => Live' = {}
  BY <1>7 DEF TypeInv, FetchInv
<1>10. i \notin Live => (Live' = {} <=> Live = {})
  BY <1>6, <1>7 DEF Live
<1>11. \A j \in DOMAIN fetches' : IsFetch(fetches'[j])
  BY <1>4 DEF TypeInv, FetchInv
<1>12. All' = All /\ Count(fetchParams.page + 1)' = Count(fetchParams.page + 1)
  BY AllStays DEF Count, Least
<1>13. \A j \in Live' :
          /\ fetches'[j].for = fetchParams /\ fetches'[j].team = team
          /\ "others" \notin why' /\ fetches'[j].step = "done" =>
                /\ fetches'[j].answer.items = SubSeq(All, fetchParams.page * PerPage + 1, Count(fetchParams.page + 1))
                /\ fetches'[j].answer.total = Len(All)
  BY <1>7 DEF TypeInv, FetchInv, Answers
<1> QED
  BY <1>2, <1>8, <1>9, <1>10, <1>11, <1>12, <1>13 DEF FetchInv, Answers

LEMMA ChoiceFetches ==
    ASSUME TypeInv, NEW p, NEW reasons, Choice(p, reasons)
    PROVE  /\ FetchInv' /\ Live' # {} /\ fetchParams' = p
           /\ UNCHANGED <<list, updated, finished, team, runs, totalCount, triggered>>
           /\ why' = why \cup Superseding \cup reasons
<1>1. /\ Refetch(p, team) /\ fetchParams' = p
      /\ UNCHANGED <<list, updated, finished, team, runs, totalCount, triggered>>
      /\ why' = why \cup Superseding \cup reasons
  BY DEF Choice, SetFetchParams, Event
<1>2. PICK t : t = team
  OBVIOUS
<1>3. Refetch(p, t) /\ t = team'
  BY <1>1, <1>2
<1> QED
  BY <1>1, <1>3, RefetchIsLive DEF TypeInv, FetchInv

(* The choices of the user, as params.                                     *)
LEMMA ChosenParams ==
    ASSUME fetchParams \in Params,
           \/ SetFinishedRuns \/ SetMyRunsOnly \/ FilterByTime
           \/ \E col \in {"name", "update"} : ColHeaderClicked(col) \/ MetricsColHeaderClicked(col)
    PROVE  \E p, reasons :
              /\ p \in Params
              /\ Choice(p, reasons)
              /\ \/ p.page = 0
                 \/ /\ p.page = fetchParams.page
                    /\ fetchParams.page > 0 => "sortedLater" \in reasons
                    /\ p.statuses = fetchParams.statuses /\ p.participant = fetchParams.participant
                    /\ p.time = fetchParams.time /\ p.term = fetchParams.term
<1>1. CASE SetFinishedRuns
  <2> DEFINE p == [fetchParams EXCEPT !.statuses = ~@, !.page = 0]
  <2>1. p \in Params /\ p.page = 0 /\ Choice(p, {})
    BY <1>1 DEF SetFinishedRuns, Params
  <2> QED
    BY <2>1
<1>2. CASE SetMyRunsOnly
  <2> DEFINE p == [fetchParams EXCEPT !.participant = ~@, !.page = 0]
  <2>1. p \in Params /\ p.page = 0 /\ Choice(p, {})
    BY <1>2 DEF SetMyRunsOnly, Params
  <2> QED
    BY <2>1
<1>3. CASE FilterByTime
  <2> DEFINE p == [fetchParams EXCEPT !.time = ~@, !.page = 0]
  <2>1. p \in Params /\ p.page = 0 /\ Choice(p, {})
    BY <1>3 DEF FilterByTime, Params
  <2> QED
    BY <2>1
<1>4. ASSUME NEW col \in {"name", "update"}, ColHeaderClicked(col)
      PROVE  \E p \in Params : p.page = 0 /\ Choice(p, {})
  <2>1. Sorted(col) \in Params /\ [Sorted(col) EXCEPT !.page = 0] \in Params
    BY SortedParams
  <2>2. [Sorted(col) EXCEPT !.page = 0].page = 0
    BY <2>1 DEF Params
  <2> QED
    BY <1>4, <2>1, <2>2 DEF ColHeaderClicked
<1>5. ASSUME NEW col \in {"name", "update"}, MetricsColHeaderClicked(col)
      PROVE  \E p, reasons :
                /\ p \in Params
                /\ Choice(p, reasons)
                /\ p.page = fetchParams.page
                /\ fetchParams.page > 0 => "sortedLater" \in reasons
                /\ p.statuses = fetchParams.statuses /\ p.participant = fetchParams.participant
                /\ p.time = fetchParams.time /\ p.term = fetchParams.term
  <2>1. Sorted(col) \in Params
    BY SortedParams
  <2>2. PICK p : p = Sorted(col)
    OBVIOUS
  <2>3. PICK reasons : reasons = IF fetchParams.page > 0 THEN {"sortedLater"} ELSE {}
    OBVIOUS
  <2>4. p \in Params /\ Choice(p, reasons)
    BY <1>5, <2>1, <2>2, <2>3 DEF MetricsColHeaderClicked
  <2>5. /\ p.page = fetchParams.page
        /\ p.statuses = fetchParams.statuses /\ p.participant = fetchParams.participant
        /\ p.time = fetchParams.time /\ p.term = fetchParams.term
    <3>1. CASE fetchParams.sort = col
      BY <2>2, <3>1 DEF Sorted, Params
    <3>2. CASE fetchParams.sort # col
      <4>1. PICK d \in {"asc", "desc"} :
                p = [fetchParams EXCEPT !.sort = col, !.direction = d]
        BY <2>2, <3>2 DEF Sorted
      <4> QED
        BY <4>1 DEF Params
    <3> QED
      BY <3>1, <3>2
  <2> QED
    BY <2>3, <2>4, <2>5
<1> QED
  BY <1>1, <1>2, <1>3, <1>4, <1>5

LEMMA SearchFetches ==
    ASSUME TypeInv, Search
    PROVE  /\ FetchInv' /\ Live' # {} /\ fetchParams'.page = 0
           /\ UNCHANGED <<list, updated, finished, team, runs, totalCount, triggered>>
           /\ why' = why \cup Superseding
<1>1. PICK p : p = [fetchParams EXCEPT !.term = Head(typed).term, !.page = 0]
  OBVIOUS
<1>2. PICK t : t = team
  OBVIOUS
<1>3. /\ Refetch(p, t) /\ fetchParams' = p
      /\ UNCHANGED <<list, updated, finished, team, runs, totalCount, triggered>>
      /\ why' = why \cup Superseding
  BY <1>1, <1>2 DEF Search, SetFetchParams
<1>4. p.page = 0
  BY <1>1 DEF TypeInv, IInv, Agree, Params
<1>5. t = team'
  BY <1>2, <1>3
<1> QED
  BY <1>3, <1>4, <1>5, RefetchIsLive DEF TypeInv, FetchInv

LEMMA NextPageFetches ==
    ASSUME TypeInv, NextPage
    PROVE  /\ FetchInv' /\ Live' # {}
           /\ fetchParams' = [fetchParams EXCEPT !.page = fetchParams.page + 1]
           /\ UNCHANGED <<list, updated, finished, team, runs, totalCount>>
           /\ triggered' /\ ~triggered /\ Len(runs) < totalCount
           /\ Live # {} => "scrolledEarly" \in why'
           /\ why \subseteq why'
<1>1. PICK p : p = [fetchParams EXCEPT !.page = fetchParams.page + 1]
  OBVIOUS
<1>2. PICK t : t = team
  OBVIOUS
<1>3. /\ Refetch(p, t) /\ fetchParams' = p
      /\ UNCHANGED <<list, updated, finished, team, runs, totalCount>>
      /\ triggered' /\ ~triggered /\ Len(runs) < totalCount
      /\ why' = why \cup (IF Live = {} THEN {} ELSE {"scrolledEarly"})
  BY <1>1, <1>2 DEF NextPage, SetFetchParams, Event
<1>4. t = team'
  BY <1>2, <1>3
<1> QED
  BY <1>1, <1>3, <1>4, RefetchIsLive DEF TypeInv, FetchInv

LEMMA TeamFetches ==
    ASSUME TypeInv, NEW t \in Teams, ChangeTeam(t)
    PROVE  /\ FetchInv' /\ Live' # {}
           /\ UNCHANGED <<list, updated, finished, fetchParams, runs, totalCount, triggered>>
           /\ fetchParams.page > 0 => "teamLater" \in why'
           /\ why \subseteq why'
<1>1. PICK p : p = fetchParams
  OBVIOUS
<1>2. /\ Refetch(p, t) /\ team' = t
      /\ UNCHANGED <<list, updated, finished, fetchParams, runs, totalCount, triggered>>
      /\ why' = why \cup (IF fetchParams.page > 0 THEN {"teamLater"} ELSE {})
  BY <1>1 DEF ChangeTeam, Event
<1>3. p = fetchParams'
  BY <1>1, <1>2
<1> QED
  BY <1>2, <1>3, RefetchIsLive DEF TypeInv, FetchInv

LEMMA ReloadFetches ==
    ASSUME TypeInv, Reload
    PROVE  /\ FetchInv' /\ Live' # {} /\ fetchParams'.page = 0
           /\ UNCHANGED <<list, updated, finished, team>>
           /\ ~triggered' /\ runs' = <<>> /\ why' = why
<1>1. PICK p : p = [fetchParams EXCEPT !.page = 0]
  OBVIOUS
<1>2. PICK t : t = team
  OBVIOUS
<1>3. /\ fetchParams' = p /\ fetches' = <<Fetch(p, t)>>
      /\ UNCHANGED <<list, updated, finished, team>>
      /\ ~triggered' /\ runs' = <<>> /\ why' = why
  BY <1>1, <1>2 DEF Reload, Event
<1>4. p.page = 0
  BY <1>1 DEF TypeInv, IInv, Agree, Params
<1>5. t = team'
  BY <1>2, <1>3
<1> QED
  BY <1>3, <1>4, <1>5, ReloadIsLive

LEMMA TypeStep ==
    ASSUME TypeInv, [Next]_vars
    PROVE  TypeInv'
<1>1. IInv'
  BY Step DEF TypeInv
<1>2. CASE \/ SetFinishedRuns \/ SetMyRunsOnly \/ FilterByTime
           \/ \E col \in {"name", "update"} : ColHeaderClicked(col) \/ MetricsColHeaderClicked(col)
  <2>1. fetchParams \in Params
    BY DEF TypeInv, IInv, Agree
  <2>2. FetchInv' /\ updated' = updated /\ why \subseteq why'
    BY <1>2, <2>1, ChosenParams, ChoiceFetches
  <2> QED
    BY <1>1, <2>2 DEF TypeInv, Steady
<1>3. CASE NextPage
  BY <1>1, <1>3, NextPageFetches DEF TypeInv, Steady
<1>4. CASE \E t \in Teams : ChangeTeam(t)
  BY <1>1, <1>4, TeamFetches DEF TypeInv, Steady
<1>5. CASE Reload
  BY <1>1, <1>5, ReloadFetches DEF TypeInv, Steady
<1>6. CASE Search
  BY <1>1, <1>6, SearchFetches DEF TypeInv, Steady
<1>7. CASE \E term \in BOOLEAN : SetSearchTerm(term)
  <2>1. UNCHANGED <<list, updated, finished, fetchParams, team, fetches>> /\ why \subseteq why'
    BY <1>7 DEF SetSearchTerm, Event
  <2> QED
    BY <1>1, <2>1, FetchKept DEF TypeInv, Steady
<1>8. ASSUME NEW i \in DOMAIN fetches, Serve(i)
      PROVE  TypeInv'
  <2>1. UNCHANGED <<updated, why>>
    BY <1>8 DEF Serve
  <2> QED
    BY <1>1, <1>8, <2>1, ServeFetch DEF TypeInv, Steady
<1>9. ASSUME NEW i \in DOMAIN fetches, Deliver(i) \/ Fail(i)
      PROVE  TypeInv'
  <2>1. /\ fetches' = RemoveAt(fetches, i) /\ why \subseteq why'
        /\ UNCHANGED <<list, updated, finished, fetchParams, team>>
    BY <1>9 DEF Deliver, Fail
  <2> QED
    BY <1>1, <2>1, FetchEnds DEF TypeInv, Steady
<1>10. CASE \/ \E i \in DOMAIN checks : ServeCheck(i) \/ CheckForPlaybookRuns(i)
            \/ UNCHANGED vars
  <2>1. UNCHANGED <<list, updated, finished, fetchParams, team, fetches, why>>
    BY <1>10 DEF ServeCheck, CheckForPlaybookRuns, vars
  <2> QED
    BY <1>1, <2>1, FetchKept DEF TypeInv, Steady
<1>11. CASE \E r \in Runs : StatusUpdate(r) \/ FinishRun(r) \/ StartRun(r)
  <2>1. UNCHANGED <<list, fetchParams, team, fetches>> /\ why \subseteq why' /\ "others" \in why'
    BY <1>11 DEF StatusUpdate, FinishRun, StartRun, ByOthers
  <2> QED
    BY <1>1, <2>1, FetchKept DEF TypeInv, Steady
<1> QED
  BY <1>2, <1>3, <1>4, <1>5, <1>6, <1>7, <1>8, <1>9, <1>10, <1>11 DEF Next

LEMMA TypeInit == Init => TypeInv /\ Live # {}
<1> SUFFICES ASSUME Init PROVE TypeInv /\ Live # {}
  OBVIOUS
<1>1. PICK new : new = Fetch(fetchParams, team)
  OBVIOUS
<1>2. IsFetch(new) /\ ~new.canceled /\ new.step = "sent" /\ new.for = fetchParams /\ new.team = team
  BY <1>1, NewFetch
<1>3. fetches = <<new>>
  BY <1>1 DEF Init
<1>4. <<new>> \in Seq({new}) /\ Len(<<new>>) = 1 /\ <<new>>[1] = new
  OBVIOUS
<1>5. IsSeq(fetches) /\ DOMAIN fetches = {1} /\ fetches[1] = new
  <2>1. IsSeq(<<new>>) /\ DOMAIN <<new>> = 1 .. Len(<<new>>)
    BY <1>4, AnySeq
  <2> QED
    BY <1>3, <1>4, <2>1
<1>6. Live = {1}
  BY <1>2, <1>5 DEF Live
<1>7. FetchInv
  BY <1>2, <1>5, <1>6 DEF FetchInv
<1>8. Steady
  BY DEF Init, Steady
<1> QED
  BY <1>6, <1>7, <1>8, Start DEF TypeInv

-----------------------------------------------------------------------------
(* The pages of a list, one after the other. *)

LEMMA SameSeq ==
    ASSUME NEW s, IsSeq(s), NEW r, IsSeq(r), Len(s) = Len(r), \A i \in 1 .. Len(s) : s[i] = r[i]
    PROVE  s = r
<1>1. [i \in 1 .. Len(s) |-> s[i]] = [i \in 1 .. Len(r) |-> r[i]]
  OBVIOUS
<1> QED
  BY <1>1 DEF IsSeq

(* The elements of s up to la and from there to lb.                        *)
Parts(s, a, b, la, lb, page, start, all) ==
    /\ IsSeq(s) /\ a \in Nat /\ b \in Nat /\ a <= b /\ la = Least(a, Len(s)) /\ lb = Least(b, Len(s))
    /\ page = SubSeq(s, a + 1, lb) /\ start = SubSeq(s, 1, la) /\ all = SubSeq(s, 1, lb)

(* A page from a to b comes after what goes up to a.                       *)
LEMMA PagesJoin ==
    ASSUME NEW s, NEW a, NEW b, NEW la, NEW lb, NEW page, NEW start, NEW all,
           Parts(s, a, b, la, lb, page, start, all)
    PROVE  /\ IsSeq(page) /\ Len(page) = lb - la
           /\ IsSeq(start) /\ Len(start) = la
           /\ start \o page = all
           /\ la \in Nat /\ lb \in Nat /\ la <= lb
<1>1. /\ Len(s) \in Nat /\ la \in Nat /\ lb \in Nat /\ la <= Len(s) /\ lb <= Len(s) /\ la <= lb
      /\ a \in Nat /\ la <= a /\ (a <= Len(s) => la = a) /\ (a > Len(s) => la = Len(s) /\ lb = Len(s))
  BY DEF Parts, Least, IsSeq
<1>2. IsSeq(page) /\ Len(page) = lb - la /\ \A i \in 1 .. (lb - la) : page[i] = s[la + i]
  <2>1. /\ IsSeq(page) /\ Len(page) = IF a + 1 <= lb THEN lb - (a + 1) + 1 ELSE 0
        /\ \A i \in 1 .. (lb - (a + 1) + 1) : page[i] = s[(a + 1) + i - 1]
    BY <1>1, PartIsSeq DEF Parts
  <2>2. CASE a <= Len(s)
    <3>1. la = a /\ lb - (a + 1) + 1 = lb - la /\ a <= lb
      BY <1>1, <2>2
    <3>2. Len(page) = lb - la
      BY <1>1, <2>1, <2>2, <3>1
    <3>3. ASSUME NEW i \in 1 .. (lb - la)
          PROVE  page[i] = s[la + i]
      <4>1. (a + 1) + i - 1 = la + i
        BY <1>1, <2>2
      <4> QED
        BY <2>1, <3>1, <4>1
    <3> QED
      BY <2>1, <3>2, <3>3
  <2>3. CASE a > Len(s)
    <3>1. Len(page) = 0 /\ lb - la = 0 /\ 1 .. (lb - la) = {}
      BY <1>1, <2>1, <2>3
    <3> QED
      BY <2>1, <3>1
  <2> QED
    BY <1>1, <2>2, <2>3
<1>3. IsSeq(start) /\ Len(start) = la /\ \A i \in 1 .. la : start[i] = s[i]
  <2>1. /\ IsSeq(start) /\ Len(start) = IF 1 <= la THEN la - 1 + 1 ELSE 0
        /\ \A i \in 1 .. (la - 1 + 1) : start[i] = s[1 + i - 1]
    BY <1>1, PartIsSeq DEF Parts
  <2>2. Len(start) = la
    BY <1>1, <2>1
  <2>3. ASSUME NEW i \in 1 .. la
        PROVE  start[i] = s[i]
    <3>1. i \in 1 .. (la - 1 + 1) /\ 1 + i - 1 = i
      BY <1>1
    <3> QED
      BY <2>1, <3>1
  <2> QED
    BY <2>1, <2>2, <2>3
<1>4. IsSeq(all) /\ Len(all) = lb /\ \A i \in 1 .. lb : all[i] = s[i]
  <2>1. /\ IsSeq(all) /\ Len(all) = IF 1 <= lb THEN lb - 1 + 1 ELSE 0
        /\ \A i \in 1 .. (lb - 1 + 1) : all[i] = s[1 + i - 1]
    BY <1>1, PartIsSeq DEF Parts
  <2>2. Len(all) = lb
    BY <1>1, <2>1
  <2>3. ASSUME NEW i \in 1 .. lb
        PROVE  all[i] = s[i]
    <3>1. i \in 1 .. (lb - 1 + 1) /\ 1 + i - 1 = i
      BY <1>1
    <3> QED
      BY <2>1, <3>1
  <2> QED
    BY <2>1, <2>2, <2>3
<1>5. start \o page = all
  <2>1. PICK both : both = start \o page
    OBVIOUS
  <2>2. /\ IsSeq(both) /\ Len(both) = Len(start) + Len(page)
        /\ \A j \in 1 .. (Len(start) + Len(page)) :
              both[j] = IF j <= Len(start) THEN start[j] ELSE page[j - Len(start)]
    <3>1. IsSeq(start) /\ IsSeq(page)
      BY <1>2, <1>3
    <3>2. /\ IsSeq(start \o page) /\ Len(start \o page) = Len(start) + Len(page)
          /\ \A j \in 1 .. (Len(start) + Len(page)) :
                (start \o page)[j] = IF j <= Len(start) THEN start[j] ELSE page[j - Len(start)]
      BY <3>1, JoinedIsSeq
    <3> QED
      BY <2>1, <3>2
  <2>3. Len(start) + Len(page) = lb
    BY <1>1, <1>2, <1>3
  <2>4. ASSUME NEW j \in 1 .. lb
        PROVE  both[j] = all[j]
    <3>1. both[j] = IF j <= la THEN start[j] ELSE page[j - la]
      BY <1>3, <2>2, <2>3
    <3>2. all[j] = s[j]
      BY <1>4
    <3>3. CASE j <= la
      <4>1. j \in 1 .. la
        BY <1>1, <3>3
      <4> QED
        BY <1>3, <3>1, <3>2, <3>3, <4>1
    <3>4. CASE ~(j <= la)
      <4>1. j - la \in 1 .. (lb - la) /\ la + (j - la) = j
        BY <1>1, <3>4
      <4>2. page[j - la] = s[la + (j - la)]
        BY <1>2, <4>1
      <4> QED
        BY <3>1, <3>2, <3>4, <4>1, <4>2
    <3> QED
      BY <3>3, <3>4
  <2>5. IsSeq(both) /\ IsSeq(all) /\ Len(both) = lb /\ Len(all) = lb
    BY <1>4, <2>2, <2>3
  <2>6. both = all
    BY <2>4, <2>5, SameSeq
  <2> QED
    BY <2>1, <2>6
<1> QED
  BY <1>1, <1>2, <1>3, <1>5

(* The page of the choices, and what goes before it.                       *)
LEMMA PageOfAll ==
    ASSUME TypeInv, "others" \notin why,
           NEW items, items = SubSeq(All, fetchParams.page * PerPage + 1, Count(fetchParams.page + 1))
    PROVE  /\ IsSeq(items) /\ Len(items) = Count(fetchParams.page + 1) - Count(fetchParams.page)
           /\ fetchParams.page = 0 => items = SubSeq(All, 1, Count(fetchParams.page + 1))
           /\ SubSeq(All, 1, Count(fetchParams.page)) \o items = SubSeq(All, 1, Count(fetchParams.page + 1))
           /\ Count(fetchParams.page) \in Nat /\ Count(fetchParams.page + 1) \in Nat
           /\ fetchParams.page = 0 => Count(fetchParams.page) = 0
           /\ fetchParams.page * PerPage < Len(All) => Count(fetchParams.page) < Count(fetchParams.page + 1)
           /\ Count(fetchParams.page) <= Count(fetchParams.page + 1)
<1>1. updated \in Stored /\ fetchParams.page \in Nat
  BY DEF TypeInv, Steady, IInv, Agree, Params
<1>2. IsSeq(All) /\ Len(All) \in Nat
  BY <1>1, ViewIsSeq DEF All
<1>3. PICK a : a = fetchParams.page * PerPage
  OBVIOUS
<1>4. PICK b : b = (fetchParams.page + 1) * PerPage
  OBVIOUS
<1>5. a \in Nat /\ b = a + PerPage /\ PerPage \in Nat \ {0}
  BY <1>1, <1>3, <1>4, PagesAdd
<1>6. PICK la : la = Least(a, Len(All))
  OBVIOUS
<1>7. PICK lb : lb = Least(b, Len(All))
  OBVIOUS
<1>8. la = Count(fetchParams.page) /\ lb = Count(fetchParams.page + 1)
  BY <1>3, <1>4, <1>6, <1>7 DEF Count
<1>9. /\ IsSeq(SubSeq(All, a + 1, lb)) /\ Len(SubSeq(All, a + 1, lb)) = lb - la
      /\ SubSeq(All, 1, la) \o SubSeq(All, a + 1, lb) = SubSeq(All, 1, lb)
      /\ la \in Nat /\ lb \in Nat /\ la <= lb
  <2>1. b \in Nat /\ a <= b
    BY <1>5
  <2>2. PICK page : page = SubSeq(All, a + 1, lb)
    OBVIOUS
  <2>3. PICK start : start = SubSeq(All, 1, la)
    OBVIOUS
  <2>4. PICK all : all = SubSeq(All, 1, lb)
    OBVIOUS
  <2>5. PICK s : s = All
    OBVIOUS
  <2>6. Parts(s, a, b, la, lb, page, start, all)
    BY <1>2, <1>5, <1>6, <1>7, <2>1, <2>2, <2>3, <2>4, <2>5 DEF Parts
  <2>7. IsSeq(page) /\ Len(page) = lb - la /\ la \in Nat /\ lb \in Nat /\ la <= lb
    BY <2>6, PagesJoin
  <2>8. start \o page = all
    BY <2>6, PagesJoin
  <2> QED
    BY <2>2, <2>3, <2>4, <2>7, <2>8
<1>10. items = SubSeq(All, a + 1, lb)
  BY <1>3, <1>8
<1>11. fetchParams.page = 0 => a = 0 /\ la = 0 /\ a + 1 = 1
  BY <1>2, <1>3, <1>5, <1>6 DEF Least
<1>12. a < Len(All) => la < lb
  BY <1>2, <1>5, <1>6, <1>7 DEF Least
<1> QED
  BY <1>3, <1>8, <1>9, <1>10, <1>11, <1>12

-----------------------------------------------------------------------------
(* What is shown is the beginning of the list. *)

Disordered == {"scrolledEarly", "sortedLater", "teamLater", "failed", "others"}

(* While a later page is fetched, up to the page before it.                *)
OrderInv ==
    why \cap Disordered = {} =>
        /\ Live = {} \/ fetchParams.page > 0 => totalCount = Len(All)
        /\ Live = {} => runs = SubSeq(All, 1, Count(fetchParams.page + 1))
        /\ Live # {} /\ fetchParams.page > 0 => runs = SubSeq(All, 1, Count(fetchParams.page))

LEMMA OrderKept ==
    ASSUME OrderInv, UNCHANGED <<list, updated, finished, fetchParams, team, runs, totalCount>>,
           why \subseteq why', Live' = {} <=> Live = {}
    PROVE  OrderInv'
<1>1. All' = All /\ \A k : Count(k)' = Count(k)
  BY AllStays
<1>2. /\ Count(fetchParams.page + 1)' = Count(fetchParams.page + 1)
      /\ Count(fetchParams.page)' = Count(fetchParams.page)
  BY <1>1 DEF Count, Least
<1>3. why' \cap Disordered = {} => why \cap Disordered = {}
  OBVIOUS
<1> QED
  BY <1>1, <1>2, <1>3 DEF OrderInv

LEMMA DeliverEnds ==
    ASSUME TypeInv, NEW i \in DOMAIN fetches, Deliver(i)
    PROVE  /\ UNCHANGED <<list, updated, finished, fetchParams, team, why>>
           /\ All' = All /\ Count(fetchParams.page + 1)' = Count(fetchParams.page + 1)
           /\ \/ /\ Live' = {} <=> Live = {}
                 /\ UNCHANGED <<runs, totalCount, triggered>>
              \/ /\ Live' = {} /\ Live # {}
                 /\ \E items :
                      /\ "others" \notin why =>
                            /\ items = SubSeq(All, fetchParams.page * PerPage + 1, Count(fetchParams.page + 1))
                            /\ totalCount' = Len(All)
                      /\ runs' = IF fetchParams.page = 0 THEN items ELSE runs \o items
                      /\ triggered' <=> (triggered /\ Len(runs') = Len(runs))
<1>1. PICK f : f = fetches[i]
  OBVIOUS
<1>2. /\ f.step = "done" /\ fetches' = RemoveAt(fetches, i)
      /\ UNCHANGED <<list, updated, finished, fetchParams, team, why>>
      /\ IF f.canceled THEN UNCHANGED <<runs, totalCount, triggered>>
         ELSE /\ runs' = IF f.for.page = 0 THEN f.answer.items ELSE runs \o f.answer.items
              /\ totalCount' = f.answer.total
              /\ triggered' = (triggered /\ Len(runs') = Len(runs))
  BY <1>1 DEF Deliver
<1>3. /\ i \in Live => Live' = {}
      /\ i \notin Live => (Live' = {} <=> Live = {})
  BY <1>2, FetchEnds
<1>4. All' = All /\ Count(fetchParams.page + 1)' = Count(fetchParams.page + 1)
  BY <1>2, AllStays DEF Count, Least
<1>5. i \in Live <=> ~f.canceled
  BY <1>1 DEF Live
<1>6. CASE f.canceled
  BY <1>2, <1>3, <1>4, <1>5, <1>6
<1>7. CASE ~f.canceled
  <2>1. i \in Live /\ f.for = fetchParams /\ ("others" \notin why => Answers(f))
    BY <1>1, <1>2, <1>5, <1>7 DEF TypeInv, FetchInv, Answers
  <2>2. PICK items : items = f.answer.items
    OBVIOUS
  <2>3. /\ "others" \notin why =>
              /\ items = SubSeq(All, fetchParams.page * PerPage + 1, Count(fetchParams.page + 1))
              /\ totalCount' = Len(All)
        /\ runs' = IF fetchParams.page = 0 THEN items ELSE runs \o items
        /\ triggered' <=> (triggered /\ Len(runs') = Len(runs))
    BY <1>2, <1>7, <2>1, <2>2 DEF Answers
  <2> QED
    BY <1>2, <1>3, <1>4, <2>1, <2>3
<1> QED
  BY <1>6, <1>7

(* A fetch that fails was live, which "failed" says, or changes nothing.   *)
LEMMA FailEnds ==
    ASSUME TypeInv, NEW i \in DOMAIN fetches, Fail(i)
    PROVE  /\ UNCHANGED <<list, updated, finished, fetchParams, team, runs, totalCount, triggered>>
           /\ why \subseteq why'
           /\ (Live' = {} <=> Live = {}) \/ "failed" \in why'
<1>1. /\ fetches' = RemoveAt(fetches, i)
      /\ UNCHANGED <<list, updated, finished, fetchParams, team, runs, totalCount, triggered>>
      /\ why' = why \cup (IF fetches[i].canceled THEN {} ELSE {"failed"})
  BY DEF Fail
<1>2. i \notin Live => (Live' = {} <=> Live = {})
  BY <1>1, FetchEnds
<1>3. i \in Live <=> ~fetches[i].canceled
  BY DEF Live
<1> QED
  BY <1>1, <1>2, <1>3

(* The next page is one of the same list.                                  *)
LEMMA NextPageCounts ==
    ASSUME TypeInv, NextPage
    PROVE  /\ All' = All /\ fetchParams'.page = fetchParams.page + 1 /\ fetchParams.page \in Nat
           /\ Count(fetchParams.page)' = Count(fetchParams.page + 1)
<1>1. /\ fetchParams' = [fetchParams EXCEPT !.page = fetchParams.page + 1]
      /\ UNCHANGED <<list, updated, finished, team>>
  BY NextPageFetches
<1>2. fetchParams \in Params
  BY DEF TypeInv, IInv, Agree
<1>3. fetchParams'.page = fetchParams.page + 1 /\ fetchParams.page \in Nat
  BY <1>1, <1>2 DEF Params
<1>4. PICK q : q = [fetchParams EXCEPT !.page = fetchParams.page + 1]
  OBVIOUS
<1>5. PICK t : t = team
  OBVIOUS
<1>6. q = fetchParams' /\ t = team'
  BY <1>1, <1>4, <1>5
<1>7. All' = View(q, t)
  BY <1>1, <1>6, AllNext
<1>8. View(q, t) = View(fetchParams, t)
  BY <1>2, <1>4, PageIsNoChoice
<1>9. All' = All
  BY <1>5, <1>7, <1>8 DEF All
<1>10. Count(fetchParams.page)' = Count(fetchParams.page + 1)
  BY <1>3, <1>9 DEF Count, Least
<1> QED
  BY <1>3, <1>9, <1>10

LEMMA OrderStep ==
    ASSUME TypeInv, OrderInv, [Next]_vars
    PROVE  OrderInv'
<1>1. CASE \/ SetFinishedRuns \/ SetMyRunsOnly \/ FilterByTime
           \/ \E col \in {"name", "update"} : ColHeaderClicked(col) \/ MetricsColHeaderClicked(col)
  <2>1. fetchParams \in Params
    BY DEF TypeInv, IInv, Agree
  <2>2. PICK p, reasons :
              /\ p \in Params
              /\ Choice(p, reasons)
              /\ \/ p.page = 0
                 \/ p.page = fetchParams.page /\ (fetchParams.page > 0 => "sortedLater" \in reasons)
    BY <1>1, <2>1, ChosenParams
  <2>3. Live' # {} /\ fetchParams' = p /\ why' = why \cup Superseding \cup reasons
    BY <2>2, ChoiceFetches
  <2>4. fetchParams'.page > 0 => "sortedLater" \in why'
    BY <2>1, <2>2, <2>3 DEF Params
  <2>5. "sortedLater" \in why' => why' \cap Disordered # {}
    BY DEF Disordered
  <2> QED
    BY <2>3, <2>4, <2>5 DEF OrderInv
<1>2. CASE NextPage
  <2>1. Live' # {} /\ runs' = runs /\ totalCount' = totalCount /\ why \subseteq why'
    BY <1>2, NextPageFetches
  <2>2. Live # {} => "scrolledEarly" \in why'
    BY <1>2, NextPageFetches
  <2>3. "scrolledEarly" \in why' => why' \cap Disordered # {}
    BY DEF Disordered
  <2>4. All' = All /\ Count(fetchParams.page)' = Count(fetchParams.page + 1)
    BY <1>2, NextPageCounts
  <2>5. SUFFICES ASSUME why' \cap Disordered = {}
                 PROVE  totalCount' = Len(All') /\ runs' = SubSeq(All', 1, Count(fetchParams.page)')
    BY <2>1 DEF OrderInv
  <2>6. why \cap Disordered = {} /\ Live = {}
    BY <2>1, <2>2, <2>3, <2>5
  <2>7. totalCount = Len(All) /\ runs = SubSeq(All, 1, Count(fetchParams.page + 1))
    BY <2>6 DEF OrderInv
  <2> QED
    BY <2>1, <2>4, <2>7
<1>3. CASE \E t \in Teams : ChangeTeam(t)
  <2>1. Live' # {} /\ fetchParams' = fetchParams /\ (fetchParams.page > 0 => "teamLater" \in why')
    BY <1>3, TeamFetches
  <2>2. "teamLater" \in why' => why' \cap Disordered # {}
    BY DEF Disordered
  <2> QED
    BY <2>1, <2>2 DEF OrderInv
<1>4. CASE Reload \/ Search
  <2>1. Live' # {} /\ fetchParams'.page = 0
    BY <1>4, ReloadFetches, SearchFetches
  <2> QED
    BY <2>1 DEF OrderInv
<1>5. CASE \E term \in BOOLEAN : SetSearchTerm(term)
  <2>1. /\ UNCHANGED <<list, updated, finished, fetchParams, team, runs, totalCount, fetches>>
        /\ why \subseteq why'
    BY <1>5 DEF SetSearchTerm, Event
  <2>2. Live' = Live
    BY <2>1 DEF Live
  <2> QED
    BY <2>1, <2>2, OrderKept
<1>6. ASSUME NEW i \in DOMAIN fetches, Serve(i)
      PROVE  OrderInv'
  <2>1. UNCHANGED <<list, updated, finished, fetchParams, team, runs, totalCount, why>>
    BY <1>6 DEF Serve
  <2>2. Live' = {} <=> Live = {}
    BY <1>6, ServeFetch
  <2> QED
    BY <2>1, <2>2, OrderKept
<1>7. ASSUME NEW i \in DOMAIN fetches, Deliver(i)
      PROVE  OrderInv'
  <2>1. /\ UNCHANGED <<list, updated, finished, fetchParams, team, why>>
        /\ All' = All /\ Count(fetchParams.page + 1)' = Count(fetchParams.page + 1)
    BY <1>7, DeliverEnds
  <2>2. CASE UNCHANGED <<runs, totalCount>> /\ (Live' = {} <=> Live = {})
    BY <2>1, <2>2, OrderKept
  <2>3. CASE Live' = {} /\ Live # {} /\ ~UNCHANGED <<runs, totalCount>>
    <3>1. SUFFICES ASSUME why \cap Disordered = {}
                   PROVE  totalCount' = Len(All) /\ runs' = SubSeq(All, 1, Count(fetchParams.page + 1))
      BY <2>1, <2>3 DEF OrderInv
    <3>2. "others" \notin why
      BY <3>1 DEF Disordered
    <3>3. PICK items :
              /\ items = SubSeq(All, fetchParams.page * PerPage + 1, Count(fetchParams.page + 1))
              /\ totalCount' = Len(All)
              /\ runs' = IF fetchParams.page = 0 THEN items ELSE runs \o items
      BY <1>7, <2>3, <3>2, DeliverEnds
    <3>4. /\ fetchParams.page = 0 => items = SubSeq(All, 1, Count(fetchParams.page + 1))
          /\ SubSeq(All, 1, Count(fetchParams.page)) \o items = SubSeq(All, 1, Count(fetchParams.page + 1))
      BY <3>2, <3>3, PageOfAll
    <3>5. fetchParams.page # 0 => runs = SubSeq(All, 1, Count(fetchParams.page))
      <4>1. fetchParams.page \in Nat
        BY DEF TypeInv, IInv, Agree, Params
      <4> QED
        BY <2>3, <3>1, <4>1 DEF OrderInv
    <3> QED
      BY <3>3, <3>4, <3>5
  <2>4. CASE Live' = {} /\ Live # {} /\ UNCHANGED <<runs, totalCount>>
    <3>1. SUFFICES ASSUME why \cap Disordered = {}
                   PROVE  totalCount' = Len(All) /\ runs' = SubSeq(All, 1, Count(fetchParams.page + 1))
      BY <2>1, <2>4 DEF OrderInv
    <3>2. "others" \notin why
      BY <3>1 DEF Disordered
    <3>3. PICK items :
              /\ items = SubSeq(All, fetchParams.page * PerPage + 1, Count(fetchParams.page + 1))
              /\ totalCount' = Len(All)
              /\ runs' = IF fetchParams.page = 0 THEN items ELSE runs \o items
      BY <1>7, <2>4, <3>2, DeliverEnds
    <3>4. /\ fetchParams.page = 0 => items = SubSeq(All, 1, Count(fetchParams.page + 1))
          /\ SubSeq(All, 1, Count(fetchParams.page)) \o items = SubSeq(All, 1, Count(fetchParams.page + 1))
      BY <3>2, <3>3, PageOfAll
    <3>5. fetchParams.page # 0 => runs = SubSeq(All, 1, Count(fetchParams.page))
      <4>1. fetchParams.page \in Nat
        BY DEF TypeInv, IInv, Agree, Params
      <4> QED
        BY <2>4, <3>1, <4>1 DEF OrderInv
    <3> QED
      BY <3>3, <3>4, <3>5
  <2>5. \/ (Live' = {} <=> Live = {}) /\ UNCHANGED <<runs, totalCount>>
        \/ Live' = {} /\ Live # {}
    BY <1>7, DeliverEnds
  <2> QED
    BY <2>2, <2>3, <2>4, <2>5
<1>8. ASSUME NEW i \in DOMAIN fetches, Fail(i)
      PROVE  OrderInv'
  <2>1. /\ UNCHANGED <<list, updated, finished, fetchParams, team, runs, totalCount>>
        /\ why \subseteq why' /\ ((Live' = {} <=> Live = {}) \/ "failed" \in why')
    BY <1>8, FailEnds
  <2>2. CASE "failed" \in why'
    <3>1. why' \cap Disordered # {}
      BY <2>2 DEF Disordered
    <3> QED
      BY <3>1 DEF OrderInv
  <2>3. CASE Live' = {} <=> Live = {}
    BY <2>1, <2>3, OrderKept
  <2> QED
    BY <2>1, <2>2, <2>3
<1>9. CASE \/ \E i \in DOMAIN checks : ServeCheck(i) \/ CheckForPlaybookRuns(i)
           \/ UNCHANGED vars
  <2>1. UNCHANGED <<list, updated, finished, fetchParams, team, runs, totalCount, fetches, why>>
    BY <1>9 DEF ServeCheck, CheckForPlaybookRuns, vars
  <2>2. Live' = Live
    BY <2>1 DEF Live
  <2> QED
    BY <2>1, <2>2, OrderKept
<1>10. CASE \E r \in Runs : StatusUpdate(r) \/ FinishRun(r) \/ StartRun(r)
  <2>1. "others" \in why'
    BY <1>10 DEF StatusUpdate, FinishRun, StartRun, ByOthers
  <2>2. why' \cap Disordered # {}
    BY <2>1 DEF Disordered
  <2> QED
    BY <2>2 DEF OrderInv
<1> QED
  BY <1>1, <1>2, <1>3, <1>4, <1>5, <1>6, <1>7, <1>8, <1>9, <1>10 DEF Next

(* The list at rest is the beginning of the server's, up to the page it    *)
(* has come to (fetchPlaybookRuns, setPage, the abort of the fetch before).*)
THEOREM ListIsInOrder == Spec => []RunsInOrder
<1>1. Init => TypeInv /\ OrderInv
  <2> SUFFICES ASSUME Init PROVE TypeInv /\ OrderInv
    OBVIOUS
  <2>1. TypeInv /\ Live # {}
    BY TypeInit
  <2>2. fetchParams.page = 0
    BY DEF Init, DefaultParams
  <2> QED
    BY <2>1, <2>2 DEF OrderInv
<1>2. TypeInv /\ OrderInv /\ [Next]_vars => (TypeInv /\ OrderInv)'
  BY TypeStep, OrderStep
<1>3. TypeInv /\ OrderInv => RunsInOrder
  <2> SUFFICES ASSUME OrderInv, Idle, why \cap Disordered = {}
               PROVE  totalCount = Len(All) /\ runs = SubSeq(All, 1, Count(fetchParams.page + 1))
    BY DEF RunsInOrder, All, Count, Disordered
  <2>1. Live = {}
    BY NothingIsSeq DEF Idle, Live
  <2> QED
    BY <2>1 DEF OrderInv
<1> QED
  BY <1>1, <1>2, <1>3, PTL DEF Spec

-----------------------------------------------------------------------------
(* The scroll waits for a page that brings runs. *)

Stuck == {"pageCanceled", "scrolledEarly", "teamLater", "failed", "others"}

(* At least the runs up to the page, or the page before it, are shown; who *)
(* waits waits for a page that there is.                                   *)
LengthInv ==
    why \cap Stuck = {} =>
        /\ IsSeq(runs)
        /\ Live = {} \/ fetchParams.page > 0 => totalCount = Len(All)
        /\ Live = {} => ~triggered /\ Len(runs) >= Count(fetchParams.page + 1)
        /\ Live # {} /\ fetchParams.page > 0 => Len(runs) >= Count(fetchParams.page)
        /\ triggered => fetchParams.page > 0 /\ fetchParams.page * PerPage < Len(All)

LEMMA LengthKept ==
    ASSUME LengthInv,
           UNCHANGED <<list, updated, finished, fetchParams, team, runs, totalCount, triggered>>,
           why \subseteq why', Live' = {} <=> Live = {}
    PROVE  LengthInv'
<1>1. All' = All
  BY AllStays
<1>2. /\ Count(fetchParams.page + 1)' = Count(fetchParams.page + 1)
      /\ Count(fetchParams.page)' = Count(fetchParams.page)
  BY <1>1 DEF Count, Least
<1>3. why' \cap Stuck = {} => why \cap Stuck = {}
  OBVIOUS
<1> QED
  BY <1>1, <1>2, <1>3 DEF LengthInv

(* A new fetch of the first page, where the scroll does not wait.          *)
LEMMA LengthAtFirst ==
    ASSUME Live' # {}, fetchParams'.page = 0, why' \cap Stuck = {} => ~triggered' /\ IsSeq(runs')
    PROVE  LengthInv'
<1> QED
  BY DEF LengthInv

(* How many runs there are up to a page.                                   *)
LEMMA Counts ==
    ASSUME updated \in Stored, fetchParams \in Params
    PROVE  /\ Len(All) \in Nat /\ fetchParams.page \in Nat /\ fetchParams.page * PerPage \in Nat
           /\ Count(fetchParams.page) \in Nat /\ Count(fetchParams.page + 1) \in Nat
           /\ Count(fetchParams.page) <= Count(fetchParams.page + 1)
           /\ \A n \in Nat : Count(fetchParams.page + 1) <= n /\ n < Len(All) =>
                                (fetchParams.page + 1) * PerPage < Len(All)
<1>1. Len(All) \in Nat /\ fetchParams.page \in Nat
  BY ViewIsSeq DEF All, Params
<1>2. PICK a : a = fetchParams.page * PerPage
  OBVIOUS
<1>3. PICK b : b = (fetchParams.page + 1) * PerPage
  OBVIOUS
<1>4. a \in Nat /\ b = a + PerPage /\ PerPage \in Nat \ {0}
  BY <1>1, <1>2, <1>3, PagesAdd
<1>5. Count(fetchParams.page) = Least(a, Len(All)) /\ Count(fetchParams.page + 1) = Least(b, Len(All))
  BY <1>2, <1>3 DEF Count
<1>6. /\ Least(a, Len(All)) \in Nat /\ Least(b, Len(All)) \in Nat
      /\ Least(a, Len(All)) <= Least(b, Len(All))
      /\ \A n \in Nat : Least(b, Len(All)) <= n /\ n < Len(All) => b < Len(All)
  BY <1>1, <1>4 DEF Least
<1> QED
  BY <1>1, <1>2, <1>3, <1>4, <1>5, <1>6

LEMMA ChoiceLength ==
    ASSUME TypeInv, LengthInv, NEW p \in Params, NEW reasons, Choice(p, reasons),
           \/ p.page = 0
           \/ /\ p.page = fetchParams.page
              /\ p.statuses = fetchParams.statuses /\ p.participant = fetchParams.participant
              /\ p.time = fetchParams.time /\ p.term = fetchParams.term
    PROVE  LengthInv'
<1>1. /\ Live' # {} /\ fetchParams' = p
      /\ UNCHANGED <<list, updated, finished, team, runs, totalCount, triggered>>
      /\ why' = why \cup Superseding \cup reasons
  BY ChoiceFetches
<1>2. SUFFICES ASSUME why' \cap Stuck = {}
               PROVE  LengthInv'
  BY DEF LengthInv
<1>3. why \cap Stuck = {} /\ "pageCanceled" \notin why' /\ "others" \notin why
  BY <1>1, <1>2 DEF Stuck
<1>4. fetchParams \in Params /\ updated \in Stored
  BY <1>3 DEF TypeInv, IInv, Agree, Steady
<1>5. Live # {} => fetchParams.page = 0
  <2> SUFFICES ASSUME NEW i \in Live PROVE fetchParams.page = 0
    OBVIOUS
  <2>1. fetches[i].for = fetchParams /\ fetchParams.page \in Nat
    BY <1>4 DEF TypeInv, FetchInv, Params
  <2>2. fetchParams.page > 0 => "pageCanceled" \in Superseding
    BY <2>1 DEF Superseding
  <2> QED
    BY <1>1, <1>3, <2>1, <2>2
<1>6. ~triggered /\ IsSeq(runs)
  BY <1>3, <1>4, <1>5 DEF LengthInv
<1>7. CASE p.page = 0
  BY <1>1, <1>6, <1>7, LengthAtFirst
<1>8. CASE /\ p.page = fetchParams.page /\ p.page # 0
           /\ p.statuses = fetchParams.statuses /\ p.participant = fetchParams.participant
           /\ p.time = fetchParams.time /\ p.term = fetchParams.term
  <2>1. PICK t : t = team
    OBVIOUS
  <2>2. PICK q : q = p
    OBVIOUS
  <2>3. Len(View(q, t)) = Len(View(fetchParams, t))
    BY <1>4, <1>8, <2>2, SortingKeepsNumber
  <2>4. t = team' /\ q = fetchParams'
    BY <1>1, <2>1, <2>2
  <2>5. All' = View(q, t)
    BY <1>1, <2>4, AllNext
  <2>6. Len(All') = Len(All)
    BY <2>1, <2>3, <2>5 DEF All
  <2>7. Count(fetchParams.page)' = Count(fetchParams.page)
    BY <1>1, <1>8, <2>6 DEF Count, Least
  <2>8. Live = {} /\ Len(runs) >= Count(fetchParams.page + 1) /\ totalCount = Len(All)
    BY <1>3, <1>5, <1>8 DEF LengthInv
  <2>9. Len(runs) >= Count(fetchParams.page)
    <3>1. Len(runs) \in Nat
      BY <1>6 DEF IsSeq
    <3> QED
      BY <1>4, <2>8, <3>1, Counts
  <2> QED
    BY <1>1, <1>6, <2>6, <2>7, <2>8, <2>9 DEF LengthInv
<1> QED
  BY <1>7, <1>8

LEMMA NextPageLength ==
    ASSUME TypeInv, LengthInv, NextPage
    PROVE  LengthInv'
<1>1. /\ Live' # {} /\ runs' = runs /\ totalCount' = totalCount /\ why \subseteq why'
      /\ Len(runs) < totalCount /\ (Live # {} => "scrolledEarly" \in why')
  BY NextPageFetches
<1>2. /\ All' = All /\ fetchParams'.page = fetchParams.page + 1 /\ fetchParams.page \in Nat
      /\ Count(fetchParams.page)' = Count(fetchParams.page + 1)
  BY NextPageCounts
<1>3. SUFFICES ASSUME why' \cap Stuck = {}
               PROVE  /\ IsSeq(runs) /\ totalCount = Len(All)
                      /\ Len(runs) >= Count(fetchParams.page + 1)
                      /\ (fetchParams.page + 1) * PerPage < Len(All)
  BY <1>1, <1>2 DEF LengthInv
<1>4. why \cap Stuck = {} /\ Live = {} /\ "others" \notin why
  BY <1>1, <1>3 DEF Stuck
<1>5. fetchParams \in Params /\ updated \in Stored
  BY <1>4 DEF TypeInv, IInv, Agree, Steady
<1>6. IsSeq(runs) /\ totalCount = Len(All) /\ Len(runs) >= Count(fetchParams.page + 1)
  BY <1>4 DEF LengthInv
<1>7. Len(runs) \in Nat
  BY <1>6 DEF IsSeq
<1>8. Count(fetchParams.page + 1) <= Len(runs) /\ Len(runs) < Len(All)
  <2>1. Count(fetchParams.page + 1) \in Nat
    BY <1>5, Counts
  <2> QED
    BY <1>1, <1>6, <1>7, <2>1
<1>9. (fetchParams.page + 1) * PerPage < Len(All)
  BY <1>5, <1>7, <1>8, Counts
<1> QED
  BY <1>6, <1>9

LEMMA DeliverLength ==
    ASSUME TypeInv, LengthInv, NEW i \in DOMAIN fetches, Deliver(i)
    PROVE  LengthInv'
<1>1. /\ UNCHANGED <<list, updated, finished, fetchParams, team, why>>
      /\ All' = All /\ Count(fetchParams.page + 1)' = Count(fetchParams.page + 1)
  BY DeliverEnds
<1>2. CASE UNCHANGED <<runs, totalCount, triggered>> /\ (Live' = {} <=> Live = {})
  BY <1>1, <1>2, LengthKept
<1>3. ASSUME Live' = {}, Live # {}, why \cap Stuck = {},
             NEW items,
             "others" \notin why =>
                /\ items = SubSeq(All, fetchParams.page * PerPage + 1, Count(fetchParams.page + 1))
                /\ totalCount' = Len(All),
             runs' = IF fetchParams.page = 0 THEN items ELSE runs \o items,
             triggered' <=> (triggered /\ Len(runs') = Len(runs))
      PROVE  LengthInv'
  <2>1. "others" \notin why
    BY <1>3 DEF Stuck
  <2>2. fetchParams \in Params /\ updated \in Stored /\ fetchParams.page \in Nat
    BY <2>1 DEF TypeInv, IInv, Agree, Steady, Params
  <2>3. /\ IsSeq(items) /\ Len(items) = Count(fetchParams.page + 1) - Count(fetchParams.page)
        /\ Count(fetchParams.page) \in Nat /\ Count(fetchParams.page + 1) \in Nat
        /\ fetchParams.page = 0 => Count(fetchParams.page) = 0
        /\ fetchParams.page * PerPage < Len(All) => Count(fetchParams.page) < Count(fetchParams.page + 1)
    BY <1>3, <2>1, PageOfAll
  <2>4. IsSeq(runs) /\ Len(runs) \in Nat
    BY <1>3 DEF LengthInv, IsSeq
  <2>5. IsSeq(runs') /\ Len(runs') >= Count(fetchParams.page + 1)
    <3>1. CASE fetchParams.page = 0
      BY <1>3, <2>3, <3>1
    <3>2. CASE fetchParams.page # 0
      <4>1. IsSeq(runs \o items) /\ Len(runs \o items) = Len(runs) + Len(items)
        BY <2>3, <2>4, JoinedIsSeq
      <4>2. Len(runs) >= Count(fetchParams.page)
        BY <1>3, <2>2, <3>2 DEF LengthInv
      <4>3. Len(runs) + Len(items) >= Count(fetchParams.page + 1)
        BY <2>3, <2>4, <4>2
      <4> QED
        BY <1>3, <3>2, <4>1, <4>3
    <3> QED
      BY <3>1, <3>2
  <2>6. ~triggered'
    <3> SUFFICES ASSUME triggered, Len(runs') = Len(runs) PROVE FALSE
      BY <1>3
    <3>1. fetchParams.page > 0 /\ fetchParams.page * PerPage < Len(All)
      BY <1>3 DEF LengthInv
    <3>2. Len(items) > 0 /\ Len(items) \in Nat
      BY <2>3, <3>1
    <3>3. Len(runs \o items) = Len(runs) + Len(items)
      BY <2>3, <2>4, JoinedIsSeq
    <3>4. runs' = runs \o items
      BY <1>3, <2>2, <3>1
    <3> QED
      BY <2>4, <3>2, <3>3, <3>4
  <2>7. totalCount' = Len(All')
    BY <1>1, <1>3, <2>1
  <2> QED
    BY <1>1, <1>3, <2>5, <2>6, <2>7 DEF LengthInv
<1>4. why \cap Stuck # {} => LengthInv'
  BY <1>1 DEF LengthInv
<1> QED
  BY <1>2, <1>3, <1>4, DeliverEnds

LEMMA LengthStep ==
    ASSUME TypeInv, LengthInv, [Next]_vars
    PROVE  LengthInv'
<1>1. CASE \/ SetFinishedRuns \/ SetMyRunsOnly \/ FilterByTime
           \/ \E col \in {"name", "update"} : ColHeaderClicked(col) \/ MetricsColHeaderClicked(col)
  <2>1. fetchParams \in Params
    BY DEF TypeInv, IInv, Agree
  <2>2. PICK p, reasons :
              /\ p \in Params
              /\ Choice(p, reasons)
              /\ \/ p.page = 0
                 \/ /\ p.page = fetchParams.page
                    /\ p.statuses = fetchParams.statuses /\ p.participant = fetchParams.participant
                    /\ p.time = fetchParams.time /\ p.term = fetchParams.term
    BY <1>1, <2>1, ChosenParams
  <2> QED
    BY <2>2, ChoiceLength
<1>2. CASE NextPage
  BY <1>2, NextPageLength
<1>3. CASE \E t \in Teams : ChangeTeam(t)
  <2>1. /\ Live' # {} /\ why \subseteq why' /\ (fetchParams.page > 0 => "teamLater" \in why')
        /\ UNCHANGED <<fetchParams, runs, triggered>>
    BY <1>3, TeamFetches
  <2>2. fetchParams.page \in Nat
    BY DEF TypeInv, IInv, Agree, Params
  <2>3. CASE why' \cap Stuck = {}
    <3>1. fetchParams.page = 0 /\ why \cap Stuck = {}
      BY <2>1, <2>2, <2>3 DEF Stuck
    <3>2. ~triggered /\ IsSeq(runs)
      BY <3>1 DEF LengthInv
    <3> QED
      BY <2>1, <3>1, <3>2, LengthAtFirst
  <2> QED
    BY <2>3 DEF LengthInv
<1>4. CASE Reload
  <2>1. Live' # {} /\ fetchParams'.page = 0 /\ ~triggered' /\ runs' = <<>>
    BY <1>4, ReloadFetches
  <2>2. IsSeq(runs')
    BY <2>1, NothingIsSeq
  <2> QED
    BY <2>1, <2>2, LengthAtFirst
<1>5. CASE Search
  <2>1. /\ Live' # {} /\ fetchParams'.page = 0 /\ UNCHANGED <<runs, triggered>>
        /\ why' = why \cup Superseding
    BY <1>5, SearchFetches
  <2>2. CASE why' \cap Stuck = {}
    <3>1. why \cap Stuck = {} /\ "pageCanceled" \notin Superseding
      BY <2>1, <2>2 DEF Stuck
    <3>2. Live # {} => fetchParams.page = 0
      <4> SUFFICES ASSUME NEW i \in Live PROVE fetchParams.page = 0
        OBVIOUS
      <4>1. fetches[i].for = fetchParams /\ fetchParams.page \in Nat
        BY DEF TypeInv, IInv, Agree, FetchInv, Params
      <4>2. fetchParams.page > 0 => "pageCanceled" \in Superseding
        BY <4>1 DEF Superseding
      <4> QED
        BY <3>1, <4>1, <4>2
    <3>3. ~triggered /\ IsSeq(runs)
      <4>1. fetchParams.page \in Nat
        BY DEF TypeInv, IInv, Agree, Params
      <4> QED
        BY <3>1, <3>2, <4>1 DEF LengthInv
    <3> QED
      BY <2>1, <3>3, LengthAtFirst
  <2> QED
    BY <2>2 DEF LengthInv
<1>6. CASE \E term \in BOOLEAN : SetSearchTerm(term)
  <2>1. /\ UNCHANGED <<list, updated, finished, fetchParams, team, runs, totalCount, triggered, fetches>>
        /\ why \subseteq why'
    BY <1>6 DEF SetSearchTerm, Event
  <2>2. Live' = Live
    BY <2>1 DEF Live
  <2> QED
    BY <2>1, <2>2, LengthKept
<1>7. ASSUME NEW i \in DOMAIN fetches, Serve(i)
      PROVE  LengthInv'
  <2>1. UNCHANGED <<list, updated, finished, fetchParams, team, runs, totalCount, triggered, why>>
    BY <1>7 DEF Serve
  <2>2. Live' = {} <=> Live = {}
    BY <1>7, ServeFetch
  <2> QED
    BY <2>1, <2>2, LengthKept
<1>8. ASSUME NEW i \in DOMAIN fetches, Fail(i)
      PROVE  LengthInv'
  <2>1. /\ UNCHANGED <<list, updated, finished, fetchParams, team, runs, totalCount, triggered>>
        /\ why \subseteq why' /\ ((Live' = {} <=> Live = {}) \/ "failed" \in why')
    BY <1>8, FailEnds
  <2>2. CASE "failed" \in why'
    <3>1. why' \cap Stuck # {}
      BY <2>2 DEF Stuck
    <3> QED
      BY <3>1 DEF LengthInv
  <2>3. CASE Live' = {} <=> Live = {}
    BY <2>1, <2>3, LengthKept
  <2> QED
    BY <2>1, <2>2, <2>3
<1>9. CASE \/ \E i \in DOMAIN checks : ServeCheck(i) \/ CheckForPlaybookRuns(i)
           \/ UNCHANGED vars
  <2>1. UNCHANGED <<list, updated, finished, fetchParams, team, runs, totalCount, triggered, fetches, why>>
    BY <1>9 DEF ServeCheck, CheckForPlaybookRuns, vars
  <2>2. Live' = Live
    BY <2>1 DEF Live
  <2> QED
    BY <2>1, <2>2, LengthKept
<1>10. CASE \E r \in Runs : StatusUpdate(r) \/ FinishRun(r) \/ StartRun(r)
  <2>1. "others" \in why'
    BY <1>10 DEF StatusUpdate, FinishRun, StartRun, ByOthers
  <2>2. why' \cap Stuck # {}
    BY <2>1 DEF Stuck
  <2> QED
    BY <2>2 DEF LengthInv
<1> QED
  BY <1>1, <1>2, <1>3, <1>4, <1>5, <1>6, <1>7, <1>8, <1>9, <1>10, DeliverLength DEF Next

(* Where there are more runs, the scroll does not wait for ever: the page  *)
(* it waits for is live and brings runs (InfiniteScroll, nextPage).        *)
THEOREM MoreIsFetched == Spec => []MoreCanBeFetched
<1>1. Init => TypeInv /\ LengthInv
  <2> SUFFICES ASSUME Init PROVE TypeInv /\ LengthInv
    OBVIOUS
  <2>1. TypeInv /\ Live # {}
    BY TypeInit
  <2>2. fetchParams.page = 0 /\ ~triggered /\ runs = <<>>
    BY DEF Init, DefaultParams
  <2> QED
    BY <2>1, <2>2, NothingIsSeq DEF LengthInv
<1>2. TypeInv /\ LengthInv /\ [Next]_vars => (TypeInv /\ LengthInv)'
  BY TypeStep, LengthStep
<1>3. TypeInv /\ LengthInv => MoreCanBeFetched
  <2> SUFFICES ASSUME LengthInv, Idle, why \cap Stuck = {} PROVE ~triggered
    BY DEF MoreCanBeFetched, Stuck
  <2>1. Live = {}
    BY NothingIsSeq DEF Idle, Live
  <2> QED
    BY <2>1 DEF LengthInv
<1> QED
  BY <1>1, <1>2, <1>3, PTL DEF Spec

-----------------------------------------------------------------------------
(***************************************************************************)
(* The row of a task, beside the lists, for every number of clicks: it     *)
(* shows the task at rest, and what the user chose for it is stored,       *)
(* whatever fields are changed together.  The first rests on what is known *)
(* of each field in between: it is the task's, a message for it is to      *)
(* come, or a request for it is open that will set it or be seen to have   *)
(* failed.  The second on the last open request for a field, which brings  *)
(* the choice.                                                             *)
(***************************************************************************)

(* What the list around the task can be, and a field of it.                *)
Orders   == {<<"above", "mine", "below">>, <<"mine", "below">>}
AnyValue == Values \cup Roles \cup Properties
              \cup {0, 1, "", "property_user", "open", "closed", "skipped"}
Version  == [order : Orders, task : [Row!Fields -> AnyValue]]

(* What a request is about, by its kind.                                   *)
About(kind) ==
    CASE kind = "assignee" -> {Row!AssigneeFields}
      [] kind = "direct"   -> {{f} : f \in Row!Direct}
      [] kind = "save"     -> {{"title", "command"}}
      [] OTHER             -> {{"state"}}

(* An assignee may be chosen without a user.                               *)
Choosable(changes) ==
    \A f \in DOMAIN changes :
        changes[f] \in AnyValue \/ (f = "assigneeID" /\ changes[f] = Unchosen)

IsRequest(r) ==
    /\ DOMAIN r = {"kind", "id", "changes", "position", "before", "disturbed", "answer"}
    /\ r.kind \in {"assignee", "direct", "save", "checkbox", "skip"}
    /\ r.id \in 1 .. tSent
    /\ DOMAIN r.changes \in About(r.kind)
    /\ Choosable(r.changes)
    /\ r.before.state \in BOOLEAN
    /\ r.disturbed \in BOOLEAN
    /\ r.answer \in {"none", "ok", "error"}

RowTypeInv ==
    /\ tStored \in Seq(Version) /\ tSeen \in 1 .. Len(tStored)
    /\ DOMAIN tShown = Row!Fields /\ tShown["state"] \in BOOLEAN
    /\ \A f \in Row!Fields \ {"state"} : tShown[f] \in AnyValue
    /\ DOMAIN tChoice = Row!Fields
    /\ tSent \in Nat
    /\ \A r \in tRequests : IsRequest(r)

LEMMA OneMoreVersion ==
    ASSUME RowTypeInv, NEW v \in Version, tStored' = Append(tStored, v)
    PROVE  /\ tStored' \in Seq(Version) /\ Len(tStored') = Len(tStored) + 1
           /\ \A i \in 1 .. Len(tStored) : tStored'[i] = tStored[i]
           /\ tStored'[Len(tStored')] = v
BY AppendProperties DEF RowTypeInv

LEMMA LastVersion ==
    ASSUME RowTypeInv
    PROVE  /\ Len(tStored) \in Nat /\ Len(tStored) >= 1
           /\ Row!Last(tStored) = tStored[Len(tStored)] /\ Row!Last(tStored) \in Version
           /\ Row!Last(tStored).task \in [Row!Fields -> AnyValue]
           /\ \A i \in 1 .. Len(tStored) : tStored[i] \in Version /\ Row!Task(i) \in [Row!Fields -> AnyValue]
<1>1. Len(tStored) \in Nat /\ Len(tStored) >= 1
  BY LenProperties DEF RowTypeInv
<1>2. \A i \in 1 .. Len(tStored) : tStored[i] \in Version
  BY ElementOfSeq DEF RowTypeInv
<1>3. Row!Last(tStored) = tStored[Len(tStored)]
  BY DEF Row!Last
<1> QED
  BY <1>1, <1>2, <1>3 DEF Version, Row!Task

(* What the row shows or keeps is a value.                                 *)
LEMMA PropIsValue ==
    ASSUME RowTypeInv
    PROVE  Row!Prop \in [Row!Fields -> AnyValue]
BY LastVersion DEF RowTypeInv, Row!Prop

LEMMA AnswerKeepsRequest ==
    ASSUME NEW r, IsRequest(r), NEW a \in {"none", "ok", "error"}, NEW m, m = [r EXCEPT !.answer = a]
    PROVE  /\ m.kind = r.kind /\ m.id = r.id /\ m.changes = r.changes /\ m.before = r.before
           /\ m.position = r.position /\ (m.disturbed <=> r.disturbed) /\ m.answer = a
           /\ IsRequest(m)
<1>1. /\ DOMAIN m = DOMAIN r
      /\ m.kind = r.kind /\ m.id = r.id /\ m.changes = r.changes /\ m.before = r.before
      /\ m.position = r.position /\ m.disturbed = r.disturbed /\ m.answer = a
  BY DEF IsRequest
<1> QED
  BY <1>1 DEF IsRequest

LEMMA DisturbKeepsRequest ==
    ASSUME NEW r, IsRequest(r), NEW m, m = [r EXCEPT !.disturbed = TRUE]
    PROVE  /\ m.kind = r.kind /\ m.id = r.id /\ m.changes = r.changes /\ m.before = r.before
           /\ m.position = r.position /\ m.disturbed /\ m.answer = r.answer
           /\ IsRequest(m)
<1>1. /\ DOMAIN m = DOMAIN r
      /\ m.kind = r.kind /\ m.id = r.id /\ m.changes = r.changes /\ m.before = r.before
      /\ m.position = r.position /\ m.disturbed = TRUE /\ m.answer = r.answer
  BY DEF IsRequest
<1> QED
  BY <1>1 DEF IsRequest

(* A request as it is sent.                                                *)
LEMMA RequestIsNew ==
    ASSUME RowTypeInv, NEW kind \in {"assignee", "direct", "save", "checkbox", "skip"},
           NEW id, NEW changes,
           DOMAIN changes \in About(kind), Choosable(changes),
           NEW r, r = Row!Request(kind, id, changes)
    PROVE  /\ r.kind = kind /\ r.id = id /\ r.changes = changes
           /\ (r.before.state <=> tShown["state"]) /\ ~r.disturbed /\ r.answer = "none"
           /\ id \in 1 .. tSent' => IsRequest(r)'
<1>1. /\ r.kind = kind /\ r.id = id /\ r.changes = changes
      /\ r.before.state = tShown["state"] /\ r.disturbed = FALSE /\ r.answer = "none"
      /\ DOMAIN r = {"kind", "id", "changes", "position", "before", "disturbed", "answer"}
  BY DEF Row!Request, Row!AssigneeFields
<1>2. r.before.state \in BOOLEAN
  BY <1>1 DEF RowTypeInv
<1> QED
  BY <1>1, <1>2 DEF IsRequest

LEMMA RequestStays ==
    ASSUME NEW r, IsRequest(r), tSent \in Nat, tSent' \in Nat, tSent' >= tSent
    PROVE  IsRequest(r)'
BY DEF IsRequest, Choosable

(* What the steps of the user do to the requests.                          *)
LEMMA SendStep ==
    ASSUME RowTypeInv, NEW kind \in {"assignee", "direct", "save", "checkbox", "skip"},
           NEW changes, Row!Send(kind, changes),
           DOMAIN changes \in About(kind), Choosable(changes)
    PROVE  \E r : /\ tRequests' = tRequests \cup {r} /\ tSent' = tSent + 1
                  /\ r.kind = kind /\ r.id = tSent + 1 /\ r.changes = changes
                  /\ (r.before.state <=> tShown["state"]) /\ ~r.disturbed /\ r.answer = "none"
                  /\ \A q \in tRequests' : IsRequest(q)'
<1>1. PICK r : r = Row!Request(kind, tSent + 1, changes)
  OBVIOUS
<1>2. tRequests' = tRequests \cup {r} /\ tSent' = tSent + 1 /\ tSent \in Nat
  BY <1>1 DEF Row!Send, RowTypeInv
<1>3. /\ r.kind = kind /\ r.id = tSent + 1 /\ r.changes = changes
      /\ (r.before.state <=> tShown["state"]) /\ ~r.disturbed /\ r.answer = "none"
      /\ IsRequest(r)'
  BY <1>1, <1>2, RequestIsNew
<1>4. \A q \in tRequests : IsRequest(q)'
  BY <1>2, RequestStays DEF RowTypeInv
<1> QED
  BY <1>2, <1>3, <1>4

(* An assignee that the user chooses, or that somebody else does.          *)
LEMMA AssigneeIsValue ==
    ASSUME NEW a \in Row!Assignees
    PROVE  /\ DOMAIN a = Row!AssigneeFields /\ Choosable(a)
           /\ \A f \in Row!AssigneeFields, id \in Values \cup {0} : Row!Resolved(a[f], id) \in AnyValue
<1>1. /\ DOMAIN a = Row!AssigneeFields
      /\ \A f \in Row!AssigneeFields : a[f] \in AnyValue \/ (f = "assigneeID" /\ a[f] = Unchosen)
  BY DEF Row!Assignees, Row!Assignee, Row!AssigneeFields, AnyValue
<1>2. Values \cup {0} \subseteq AnyValue
  BY DEF AnyValue
<1> QED
  BY <1>1, <1>2 DEF Choosable, Row!Resolved

(* The steps of the user keep the types.                                   *)
LEMMA TypeAssignee ==
    ASSUME RowTypeInv, NEW a \in Row!Assignees, Row!AssigneeChange(a)
    PROVE  RowTypeInv'
<1>1. \A q \in tRequests' : IsRequest(q)'
  <2>1. DOMAIN a \in About("assignee") /\ Choosable(a)
    BY AssigneeIsValue DEF About
  <2> QED
    BY <2>1, SendStep DEF Row!AssigneeChange
<1>2. /\ DOMAIN tShown' = Row!Fields /\ tShown'["state"] = tShown["state"]
      /\ \A f \in Row!Fields : tShown'[f] = tShown[f]
            \/ (f \in Row!AssigneeFields /\ tShown'[f] = Row!Resolved(a[f], 0))
  BY DEF Row!AssigneeChange, Row!Fields, Row!AssigneeFields
<1>3. \A f \in Row!Fields \ {"state"} : tShown'[f] \in AnyValue
  BY <1>2, AssigneeIsValue DEF RowTypeInv
<1>4. DOMAIN tChoice' = Row!Fields /\ tSent' = tSent + 1 /\ UNCHANGED <<tStored, tSeen>>
  BY DEF Row!AssigneeChange, Row!Send
<1> QED
  BY <1>1, <1>2, <1>3, <1>4 DEF RowTypeInv

LEMMA TypeDirect ==
    ASSUME RowTypeInv, NEW f \in Row!Direct, NEW v \in Values, Row!DirectChange(f, v)
    PROVE  RowTypeInv'
<1>1. \A q \in tRequests' : IsRequest(q)'
  <2>1. DOMAIN [g \in {f} |-> v] \in About("direct") /\ v \in AnyValue
    BY DEF About, AnyValue
  <2>2. Choosable([g \in {f} |-> v])
    BY <2>1 DEF Choosable
  <2> QED
    BY <2>1, <2>2, SendStep DEF Row!DirectChange
<1>2. /\ DOMAIN tShown' = Row!Fields /\ tShown'["state"] = tShown["state"]
      /\ \A g \in Row!Fields : tShown'[g] = tShown[g] \/ tShown'[g] = v
  BY DEF Row!DirectChange, RowTypeInv, Row!Fields, Row!Direct
<1>3. v \in AnyValue
  BY DEF AnyValue
<1>4. DOMAIN tChoice' = Row!Fields /\ tSent' = tSent + 1 /\ UNCHANGED <<tStored, tSeen>>
  BY DEF Row!DirectChange, Row!Send, Row!Choose, RowTypeInv
<1> QED
  BY <1>1, <1>2, <1>3, <1>4 DEF RowTypeInv

(* The form as it is sent.                                                 *)
Form == [f \in {"title", "command"} |-> IF f = "title" THEN Row!finalTitle(tShown[f]) ELSE tShown[f]]

LEMMA FormIsValue ==
    ASSUME RowTypeInv
    PROVE  /\ DOMAIN Form = {"title", "command"} /\ Choosable(Form)
           /\ Form["title"] = Row!finalTitle(tShown["title"]) /\ Form["command"] = tShown["command"]
<1>1. \A f \in {"title", "command"} : tShown[f] \in AnyValue
  BY DEF RowTypeInv, Row!Fields, Row!Direct
<1>2. Row!finalTitle(tShown["title"]) \in AnyValue
  BY <1>1 DEF Row!finalTitle, Row!Untitled, AnyValue
<1> QED
  BY <1>1, <1>2 DEF Form, Choosable

LEMMA TypeSave ==
    ASSUME RowTypeInv, Row!handleSave
    PROVE  RowTypeInv'
<1>1. \A q \in tRequests' : IsRequest(q)'
  <2>1. DOMAIN Form \in About("save")
    BY FormIsValue DEF About
  <2>2. Row!Send("save", Form)
    BY DEF Row!handleSave, Row!Save, Form
  <2> QED
    BY <2>1, <2>2, FormIsValue, SendStep
<1> QED
  BY <1>1 DEF Row!handleSave, Row!Save, Row!Send, RowTypeInv

(* The menu sends two requests for one click.                              *)
LEMMA SkipSends ==
    ASSUME RowTypeInv, Row!SkipOrRestore
    PROVE  \E one, two :
              /\ tRequests' = tRequests \cup {one, two} /\ tSent' = tSent + 2
              /\ one.kind = "skip" /\ two.kind = "skip"
              /\ one.id = tSent + 1 /\ two.id = tSent + 2
              /\ DOMAIN one.changes = {"state"} /\ two.changes = one.changes
              /\ one.changes["state"] = tChoice'["state"]
              /\ one.answer = "none" /\ two.answer = "none"
              /\ \A q \in tRequests' : IsRequest(q)'
<1> DEFINE newState == [f \in {"state"} |-> IF Row!isSkipped THEN "open" ELSE "skipped"]
<1>1. PICK one, two : one = Row!Request("skip", tSent + 1, newState) /\ two = Row!Request("skip", tSent + 2, newState)
  OBVIOUS
<1>2. tRequests' = tRequests \cup {one, two} /\ tSent' = tSent + 2 /\ tSent \in Nat
  BY <1>1 DEF Row!SkipOrRestore, RowTypeInv
<1>3. /\ DOMAIN newState = {"state"} /\ Choosable(newState)
      /\ DOMAIN newState \in About("skip")
  BY DEF About, AnyValue, Choosable
<1>4. tChoice'["state"] = newState.state
  BY DEF Row!SkipOrRestore, Row!Choose, RowTypeInv, Row!Fields
<1> HIDE DEF newState
<1>5. /\ one.kind = "skip" /\ one.id = tSent + 1 /\ one.changes = newState
      /\ one.answer = "none" /\ IsRequest(one)'
  BY <1>1, <1>2, <1>3, RequestIsNew
<1>6. /\ two.kind = "skip" /\ two.id = tSent + 2 /\ two.changes = newState
      /\ two.answer = "none" /\ IsRequest(two)'
  BY <1>1, <1>2, <1>3, RequestIsNew
<1>7. \A q \in tRequests : IsRequest(q)'
  BY <1>2, RequestStays DEF RowTypeInv
<1> QED
  BY <1>2, <1>3, <1>4, <1>5, <1>6, <1>7

LEMMA TypeSkip ==
    ASSUME RowTypeInv, Row!SkipOrRestore
    PROVE  RowTypeInv'
<1>1. \A q \in tRequests' : IsRequest(q)'
  BY SkipSends
<1> QED
  BY <1>1 DEF Row!SkipOrRestore, Row!Choose, RowTypeInv

(* A click on the checkbox disturbs those that are not answered.           *)
LEMMA CheckboxSends ==
    ASSUME RowTypeInv, Row!ClickCheckbox
    PROVE  \E r : /\ r.kind = "checkbox" /\ r.id = tSent + 1 /\ tSent' = tSent + 1
                  /\ DOMAIN r.changes = {"state"} /\ r.changes["state"] = tChoice'["state"]
                  /\ (r.changes["state"] = "closed" <=> tShown'["state"])
                  /\ (r.before.state <=> tShown["state"]) /\ ~r.disturbed /\ r.answer = "none"
                  /\ r \in tRequests'
                  /\ \A q \in tRequests : q.kind # "checkbox" => q \in tRequests'
                  /\ \A q \in tRequests : q.kind = "checkbox" =>
                        \E m \in tRequests' :
                            /\ m.kind = q.kind /\ m.id = q.id /\ m.changes = q.changes
                            /\ m.before = q.before /\ m.disturbed /\ m.answer = q.answer
                  /\ \A m \in tRequests' : m # r =>
                        \E q \in tRequests :
                            /\ m.kind = q.kind /\ m.id = q.id /\ m.changes = q.changes
                            /\ m.before = q.before /\ m.answer = q.answer
                            /\ IF q.kind = "checkbox" THEN m.disturbed ELSE m = q
                  /\ \A q \in tRequests' : IsRequest(q)'
<1> DEFINE disturb == [r \in tRequests |-> IF r.kind = "checkbox" THEN [r EXCEPT !.disturbed = TRUE] ELSE r]
           newState == IF tShown.state THEN "open" ELSE "closed"
           changes == [f \in {"state"} |-> newState]
<1>1. PICK r : r = Row!Request("checkbox", tSent + 1, changes)
  OBVIOUS
<1>2. tRequests' = {disturb[q] : q \in tRequests} \cup {r} /\ tSent' = tSent + 1 /\ tSent \in Nat
  BY <1>1 DEF Row!ClickCheckbox, RowTypeInv
<1>3. DOMAIN changes = {"state"} /\ changes["state"] = newState /\ Choosable(changes)
  BY DEF AnyValue, Choosable
<1>4. DOMAIN changes \in About("checkbox")
  BY DEF About
<1>5. tChoice'["state"] = newState /\ (newState = "closed" <=> ~tShown["state"])
  BY DEF Row!ClickCheckbox, Row!Choose, RowTypeInv, Row!Fields
<1>6. tShown'["state"] <=> ~tShown["state"]
  <2>1. PICK t : t = ~tShown["state"]
    OBVIOUS
  <2>2. tShown' = [tShown EXCEPT !["state"] = t]
    BY <2>1 DEF Row!ClickCheckbox
  <2> QED
    BY <2>1, <2>2 DEF RowTypeInv, Row!Fields
<1> HIDE DEF newState, changes
<1>7. /\ r.kind = "checkbox" /\ r.id = tSent + 1 /\ r.changes = changes
      /\ (r.before.state <=> tShown["state"]) /\ ~r.disturbed /\ r.answer = "none"
      /\ IsRequest(r)'
  BY <1>1, <1>2, <1>3, <1>4, RequestIsNew
<1>8. ASSUME NEW q \in tRequests, NEW k, k = disturb[q]
      PROVE  /\ k \in tRequests' /\ IsRequest(k)'
             /\ k.kind = q.kind /\ k.id = q.id /\ k.changes = q.changes
             /\ k.before = q.before /\ k.answer = q.answer
             /\ IF q.kind = "checkbox" THEN k.disturbed ELSE k = q
  <2>1. IsRequest(q)
    BY DEF RowTypeInv
  <2>2. PICK m : m = [q EXCEPT !.disturbed = TRUE]
    OBVIOUS
  <2>3. /\ m.kind = q.kind /\ m.id = q.id /\ m.changes = q.changes /\ m.before = q.before
        /\ m.disturbed /\ m.answer = q.answer /\ IsRequest(m)
    BY <2>1, <2>2, DisturbKeepsRequest
  <2>4. k = IF q.kind = "checkbox" THEN m ELSE q
    BY <1>8, <2>2
  <2>5. k \in tRequests'
    BY <1>2, <1>8
  <2>6. IsRequest(m)' /\ IsRequest(q)'
    BY <1>2, <2>1, <2>3, RequestStays
  <2>7. CASE q.kind = "checkbox"
    BY <2>3, <2>4, <2>5, <2>6, <2>7
  <2>8. CASE q.kind # "checkbox"
    BY <2>4, <2>5, <2>6, <2>8
  <2> QED
    BY <2>7, <2>8
<1>9. \A m \in tRequests' : m = r \/ \E q \in tRequests : m = disturb[q]
  BY <1>2
<1>10. r \in tRequests'
  BY <1>2
<1> HIDE DEF disturb
<1>11. \A q \in tRequests : q.kind # "checkbox" => q \in tRequests'
  BY <1>8
<1>12. \A q \in tRequests : q.kind = "checkbox" =>
          \E m \in tRequests' :
              /\ m.kind = q.kind /\ m.id = q.id /\ m.changes = q.changes
              /\ m.before = q.before /\ m.disturbed /\ m.answer = q.answer
  BY <1>8
<1>13. \A m \in tRequests' : m # r =>
          \E q \in tRequests :
              /\ m.kind = q.kind /\ m.id = q.id /\ m.changes = q.changes
              /\ m.before = q.before /\ m.answer = q.answer
              /\ IF q.kind = "checkbox" THEN m.disturbed ELSE m = q
  BY <1>8, <1>9
<1>14. \A q \in tRequests' : IsRequest(q)'
  BY <1>7, <1>8, <1>9
<1>15. DOMAIN r.changes = {"state"} /\ r.changes["state"] = tChoice'["state"]
       /\ (r.changes["state"] = "closed" <=> tShown'["state"])
  BY <1>3, <1>5, <1>6, <1>7
<1> QED
  BY <1>2, <1>7, <1>10, <1>11, <1>12, <1>13, <1>14, <1>15

LEMMA TypeCheckbox ==
    ASSUME RowTypeInv, Row!ClickCheckbox
    PROVE  RowTypeInv'
<1>1. \A q \in tRequests' : IsRequest(q)'
  BY CheckboxSends
<1>2. /\ DOMAIN tShown' = Row!Fields /\ tShown'["state"] \in BOOLEAN
      /\ \A f \in Row!Fields \ {"state"} : tShown'[f] = tShown[f]
  <2>1. PICK t : t = ~tShown["state"]
    OBVIOUS
  <2>2. tShown' = [tShown EXCEPT !["state"] = t] /\ t \in BOOLEAN
    BY <2>1 DEF Row!ClickCheckbox
  <2> QED
    BY <2>2 DEF RowTypeInv, Row!Fields
<1> QED
  BY <1>1, <1>2 DEF Row!ClickCheckbox, Row!Choose, RowTypeInv

(* The answer to a request, and nothing else, is put into it.              *)
LEMMA AnswerStep ==
    ASSUME RowTypeInv, NEW r \in tRequests, NEW a \in {"none", "ok", "error"}, Row!Answer(r, a), tSent' = tSent
    PROVE  \E m : /\ tRequests' = (tRequests \ {r}) \cup {m}
                  /\ m.kind = r.kind /\ m.id = r.id /\ m.changes = r.changes /\ m.before = r.before
                  /\ (m.disturbed <=> r.disturbed) /\ m.answer = a
                  /\ \A q \in tRequests' : IsRequest(q)'
<1>1. PICK m : m = [r EXCEPT !.answer = a]
  OBVIOUS
<1>2. tRequests' = (tRequests \ {r}) \cup {m}
  BY <1>1 DEF Row!Answer
<1>3. /\ m.kind = r.kind /\ m.id = r.id /\ m.changes = r.changes /\ m.before = r.before
      /\ (m.disturbed <=> r.disturbed) /\ m.answer = a /\ IsRequest(m)
  BY <1>1, AnswerKeepsRequest DEF RowTypeInv
<1>4. tSent \in Nat /\ tSent' \in Nat /\ tSent' >= tSent
  BY DEF RowTypeInv
<1>5. IsRequest(m)' /\ \A q \in tRequests : IsRequest(q)'
  BY <1>3, <1>4, RequestStays DEF RowTypeInv
<1> QED
  BY <1>2, <1>3, <1>5

(* A handler that finds the task writes a version, unless it is as it was. *)
(* An assignee that was chosen without a user has one then.                *)
LEMMA HandleWrites ==
    ASSUME RowTypeInv, NEW r \in tRequests, Row!Handle(r)
    PROVE  /\ r.answer = "none"
           /\ tStored' = tStored \/ \E v \in Version : tStored' = Append(tStored, v)
           /\ \/ /\ \A f \in Row!Fields :
                       \/ /\ f \in DOMAIN r.changes => r.changes[f] # Unchosen
                          /\ tStored'[Len(tStored')].task[f] =
                               IF f \in DOMAIN r.changes THEN r.changes[f] ELSE Row!Last(tStored).task[f]
                       \/ /\ f \in DOMAIN r.changes /\ r.changes[f] = Unchosen
                          /\ \/ <<f, "resolved">> \in tBehind'
                             \/ tStored'[Len(tStored')].task[f] # Row!Last(tStored).task[f]
                 /\ Row!Answer(r, "ok")
              \/ /\ tStored' = tStored
                 /\ \A f \in DOMAIN r.changes : <<f, "shifted">> \in tBehind' /\ <<f, "shifted">> \in tLost'
                 /\ \E a \in {"ok", "error"} : Row!Answer(r, a)
           /\ tBehind \subseteq tBehind' /\ tLost \subseteq tLost'
           /\ \A q \in tRequests, f \in DOMAIN r.changes :
                 q.answer = "none" /\ q.id < r.id /\ f \in DOMAIN q.changes => <<f, "overtaken">> \in tLost'
<1> DEFINE last == Row!Last(tStored)
           task(id) == [f \in Row!Fields |-> IF f \in DOMAIN r.changes
                                              THEN Row!Resolved(r.changes[f], id) ELSE last.task[f]]
           earlier == UNION {DOMAIN q.changes : q \in {p \in tRequests : p.answer = "none" /\ p.id < r.id}}
           hit == r.position <= Len(last.order) /\ last.order[r.position] = "mine"
           same(id) == {f \in DOMAIN r.changes : r.changes[f] = Unchosen /\ task(id)[f] = last.task[f]}
           marks(id) == IF hit THEN {<<f, "resolved">> : f \in same(id)} ELSE Row!Marked(r, "shifted")
<1>1. PICK id \in Values :
      /\ r.answer = "none"
      /\ Row!Answer(r, IF r.position <= Len(last.order) THEN "ok" ELSE "error")
      /\ tStored' = IF hit /\ task(id) # last.task THEN Append(tStored, [last EXCEPT !.task = task(id)])
                                                   ELSE tStored
      /\ tLost' = tLost \cup (IF hit THEN {} ELSE Row!Marked(r, "shifted"))
                      \cup {<<f, "overtaken">> : f \in earlier \cap DOMAIN r.changes}
      /\ tBehind' = tBehind \cup marks(id)
  BY DEF Row!Handle
<1>2. last \in Version /\ last.task \in [Row!Fields -> AnyValue] /\ last = tStored[Len(tStored)]
  BY LastVersion
<1>3. task(id) \in [Row!Fields -> AnyValue]
  <2>1. id \in AnyValue /\ IsRequest(r)
    BY DEF AnyValue, RowTypeInv
  <2>2. \A f \in DOMAIN r.changes : Row!Resolved(r.changes[f], id) \in AnyValue
    BY <2>1 DEF IsRequest, Choosable, Row!Resolved
  <2> QED
    BY <1>2, <2>2
<1>4. PICK new : new = task(id)
  OBVIOUS
<1>5. PICK version : version = [last EXCEPT !.task = new]
  OBVIOUS
<1>6. version \in Version /\ version.task = new
  BY <1>2, <1>3, <1>4, <1>5 DEF Version
<1>7. \A f \in Row!Fields :
         new[f] = IF f \in DOMAIN r.changes THEN Row!Resolved(r.changes[f], id) ELSE last.task[f]
  BY <1>4
<1>8. /\ tStored' = IF hit /\ new # last.task THEN Append(tStored, version) ELSE tStored
      /\ \A f \in DOMAIN r.changes : f \in same(id) <=> r.changes[f] = Unchosen /\ new[f] = last.task[f]
  BY <1>1, <1>4, <1>5
<1>9. /\ tBehind \subseteq tBehind' /\ tLost \subseteq tLost'
      /\ \A q \in tRequests, f \in DOMAIN r.changes :
            q.answer = "none" /\ q.id < r.id /\ f \in DOMAIN q.changes => <<f, "overtaken">> \in tLost'
  BY <1>1
<1>10. tStored' = tStored \/ \E v \in Version : tStored' = Append(tStored, v)
  BY <1>6, <1>8
<1>11. ASSUME hit
       PROVE  /\ tStored'[Len(tStored')].task = new
              /\ \A f \in same(id) : <<f, "resolved">> \in tBehind'
              /\ Row!Answer(r, "ok")
  <2>1. \A f \in same(id) : <<f, "resolved">> \in tBehind'
    BY <1>1, <1>11
  <2>2. Row!Answer(r, "ok")
    BY <1>1, <1>11
  <2>3. CASE new # last.task
    <3>1. tStored' = Append(tStored, version)
      BY <1>8, <1>11, <2>3
    <3> QED
      BY <1>6, <2>1, <2>2, <3>1, OneMoreVersion
  <2>4. CASE new = last.task
    BY <1>2, <1>8, <2>1, <2>2, <2>4
  <2> QED
    BY <2>3, <2>4
<1>12. ASSUME ~hit
       PROVE  /\ tStored' = tStored
              /\ \A f \in DOMAIN r.changes : <<f, "shifted">> \in tBehind' /\ <<f, "shifted">> \in tLost'
              /\ \E a \in {"ok", "error"} : Row!Answer(r, a)
  BY <1>1, <1>8, <1>12 DEF Row!Marked
<1> HIDE DEF task, same, hit, last, marks, earlier
<1>13. ASSUME hit, NEW f \in Row!Fields
       PROVE  \/ /\ f \in DOMAIN r.changes => r.changes[f] # Unchosen
                 /\ tStored'[Len(tStored')].task[f] =
                      IF f \in DOMAIN r.changes THEN r.changes[f] ELSE last.task[f]
              \/ /\ f \in DOMAIN r.changes /\ r.changes[f] = Unchosen
                 /\ \/ <<f, "resolved">> \in tBehind'
                    \/ tStored'[Len(tStored')].task[f] # last.task[f]
  BY <1>7, <1>8, <1>11, <1>13 DEF Row!Resolved
<1>14. CASE hit
  BY <1>1, <1>9, <1>10, <1>11, <1>13, <1>14 DEF last
<1>15. CASE ~hit
  BY <1>1, <1>9, <1>10, <1>12, <1>15
<1> QED
  BY <1>14, <1>15

(* What a handler puts into a field that is no assignee's.                 *)
LEMMA PlainChanges ==
    ASSUME RowTypeInv, NEW r \in tRequests, NEW f \in DOMAIN r.changes, f # "assigneeID"
    PROVE  r.changes[f] # Unchosen
<1>1. r.changes[f] \in AnyValue
  BY DEF RowTypeInv, IsRequest, Choosable
<1>2. Unchosen \notin AnyValue
  <2>1. Unchosen \notin Values /\ Unchosen \notin Properties /\ Unchosen \notin {0, 1}
    BY RowAssumption
  <2>2. Unchosen \notin Roles /\ Unchosen \notin {"", "property_user", "open", "closed", "skipped"}
    BY RowAssumption
  <2> QED
    BY <2>1, <2>2 DEF AnyValue
<1> QED
  BY <1>1, <1>2

(* The requests as a message leaves them.                                  *)
LEMMA DeliverDisturbs ==
    ASSUME RowTypeInv, NEW n \in 1 .. Len(tStored), Row!Deliver(n)
    PROVE  /\ \A q \in tRequests :
                 q.kind # "checkbox" \/ Row!Task(n)["state"] = Row!Prop["state"] => q \in tRequests'
           /\ \A q \in tRequests :
                 \E m \in tRequests' :
                    /\ m.kind = q.kind /\ m.id = q.id /\ m.changes = q.changes
                    /\ m.before = q.before /\ m.answer = q.answer
           /\ \A m \in tRequests' :
                 \E q \in tRequests :
                    /\ m.kind = q.kind /\ m.id = q.id /\ m.changes = q.changes
                    /\ m.before = q.before /\ m.answer = q.answer
                    /\ IF q.kind = "checkbox" /\ Row!Task(n)["state"] # Row!Prop["state"]
                       THEN m.disturbed ELSE m = q
           /\ \A q \in tRequests' : IsRequest(q)'
<1> DEFINE changed == {f \in Row!Fields : Row!Task(n)[f] # Row!Prop[f]}
           disturb == [r \in tRequests |-> IF r.kind = "checkbox" /\ "state" \in changed
                                          THEN [r EXCEPT !.disturbed = TRUE] ELSE r]
<1>1. tRequests' = {disturb[r] : r \in tRequests} /\ tSent' = tSent
  BY DEF Row!Deliver
<1>2. "state" \in changed <=> Row!Task(n)["state"] # Row!Prop["state"]
  BY DEF Row!Fields
<1> HIDE DEF changed
<1>3. ASSUME NEW q \in tRequests, NEW k, k = disturb[q]
      PROVE  /\ k \in tRequests' /\ IsRequest(k)'
             /\ k.kind = q.kind /\ k.id = q.id /\ k.changes = q.changes
             /\ k.before = q.before /\ k.answer = q.answer
             /\ IF q.kind = "checkbox" /\ Row!Task(n)["state"] # Row!Prop["state"] THEN k.disturbed ELSE k = q
  <2>1. IsRequest(q) /\ tSent \in Nat
    BY DEF RowTypeInv
  <2>2. PICK m : m = [q EXCEPT !.disturbed = TRUE]
    OBVIOUS
  <2>3. /\ m.kind = q.kind /\ m.id = q.id /\ m.changes = q.changes /\ m.before = q.before
        /\ m.disturbed /\ m.answer = q.answer /\ IsRequest(m)
    BY <2>1, <2>2, DisturbKeepsRequest
  <2>4. k = IF q.kind = "checkbox" /\ Row!Task(n)["state"] # Row!Prop["state"] THEN m ELSE q
    BY <1>2, <1>3, <2>2
  <2>5. k \in tRequests'
    BY <1>1, <1>3
  <2>6. IsRequest(m)' /\ IsRequest(q)'
    BY <1>1, <2>1, <2>3, RequestStays
  <2>7. CASE q.kind = "checkbox" /\ Row!Task(n)["state"] # Row!Prop["state"]
    BY <2>3, <2>4, <2>5, <2>6, <2>7
  <2>8. CASE ~ (q.kind = "checkbox" /\ Row!Task(n)["state"] # Row!Prop["state"])
    BY <2>4, <2>5, <2>6, <2>8
  <2> QED
    BY <2>7, <2>8
<1>4. \A m \in tRequests' : \E q \in tRequests : m = disturb[q]
  BY <1>1
<1> HIDE DEF disturb
<1> QED
  BY <1>3, <1>4

LEMMA TakenBackType ==
    ASSUME RowTypeInv, NEW r \in tRequests
    PROVE  /\ DOMAIN Row!TakenBack(r) = Row!Fields /\ Row!TakenBack(r)["state"] \in BOOLEAN
           /\ \A f \in Row!Fields \ {"state"} : Row!TakenBack(r)[f] \in AnyValue
           /\ \A f \in Row!Fields : \/ /\ Row!TakenBack(r)[f] = tShown[f]
                                     /\ ~ (/\ r.kind = "assignee" /\ r.answer # "ok" /\ tCallSeq = r.id
                                           /\ f \in Row!AssigneeFields)
                                \/ /\ f \in Row!AssigneeFields /\ r.kind = "assignee" /\ r.answer # "ok"
                                   /\ tCallSeq = r.id
                                   /\ Row!TakenBack(r)[f] = Row!Prop[f]
                                \/ /\ f = "state" /\ r.kind = "checkbox" /\ r.answer # "ok"
                                   /\ (Row!TakenBack(r)[f] <=> r.before.state)
<1>1. IsRequest(r) /\ r.before.state \in BOOLEAN
  BY DEF RowTypeInv, IsRequest
<1>2. /\ \A f \in Row!AssigneeFields : Row!Prop[f] \in AnyValue
      /\ "state" \in Row!Fields /\ "state" \notin Row!AssigneeFields
  BY PropIsValue DEF Row!Fields, Row!AssigneeFields
<1>3. DOMAIN tShown = Row!Fields /\ tShown["state"] \in BOOLEAN /\ \A f \in Row!Fields \ {"state"} : tShown[f] \in AnyValue
  BY DEF RowTypeInv
<1>4. PICK b : b = r.before.state
  OBVIOUS
<1>5. CASE r.answer # "ok" /\ r.kind = "assignee" /\ tCallSeq = r.id
  <2>1. Row!TakenBack(r) = [f \in Row!Fields |-> IF f \in Row!AssigneeFields THEN Row!Prop[f] ELSE tShown[f]]
    BY <1>5 DEF Row!TakenBack
  <2> QED
    BY <1>2, <1>3, <1>5, <2>1
<1>6. CASE r.answer # "ok" /\ r.kind = "checkbox"
  <2>1. Row!TakenBack(r) = [tShown EXCEPT !["state"] = b] /\ b \in BOOLEAN
    BY <1>1, <1>4, <1>6 DEF Row!TakenBack
  <2> QED
    BY <1>2, <1>3, <1>4, <1>6, <2>1
<1>7. CASE ~ (r.answer # "ok" /\ (r.kind = "checkbox" \/ (r.kind = "assignee" /\ tCallSeq = r.id)))
  BY <1>3, <1>7 DEF Row!TakenBack
<1> QED
  BY <1>5, <1>6, <1>7

LEMMA TypeFollow ==
    ASSUME RowTypeInv, NEW n \in 1 .. Len(tStored)
    PROVE  /\ DOMAIN Row!Follow(Row!Prop, Row!Task(n)) = Row!Fields
           /\ Row!Follow(Row!Prop, Row!Task(n))["state"] \in BOOLEAN
           /\ \A f \in Row!Fields \ {"state"} : Row!Follow(Row!Prop, Row!Task(n))[f] \in AnyValue
<1>1. Row!Task(n) \in [Row!Fields -> AnyValue]
  BY LastVersion
<1>2. Row!Local(Row!Task(n))["state"] \in BOOLEAN
  BY DEF Row!Local, Row!Fields
<1>3. \A f \in Row!Fields \ {"state"} : Row!Local(Row!Task(n))[f] \in AnyValue
  BY <1>1 DEF Row!Local
<1>4. /\ DOMAIN Row!Follow(Row!Prop, Row!Task(n)) = Row!Fields
      /\ \A f \in Row!Fields : \/ Row!Follow(Row!Prop, Row!Task(n))[f] = Row!Local(Row!Task(n))[f]
                           \/ Row!Follow(Row!Prop, Row!Task(n))[f] = tShown[f]
  BY DEF Row!Follow
<1> QED
  BY <1>2, <1>3, <1>4 DEF RowTypeInv, Row!Fields

LEMMA TypeOthersChange ==
    ASSUME RowTypeInv, NEW f \in Row!Fields, NEW v \in Row!ValuesOf(f), Row!OthersChange(f, v)
    PROVE  /\ \E w \in Version :
                 /\ tStored' = Append(tStored, w)
                 /\ \A g \in Row!Fields \ {f} : w.task[g] = Row!Last(tStored).task[g]
           /\ RowTypeInv'
<1>1. v \in AnyValue
  BY DEF Row!ValuesOf, AnyValue
<1>2. Row!Last(tStored) \in Version /\ Row!Last(tStored).task \in [Row!Fields -> AnyValue]
  BY LastVersion
<1>3. PICK t : t = [Row!Last(tStored).task EXCEPT ![f] = v]
  OBVIOUS
<1>4. t \in [Row!Fields -> AnyValue] /\ \A g \in Row!Fields \ {f} : t[g] = Row!Last(tStored).task[g]
  BY <1>1, <1>2, <1>3
<1>5. PICK w : w = [Row!Last(tStored) EXCEPT !.task = t]
  OBVIOUS
<1>6. w \in Version /\ w.task = t
  BY <1>2, <1>4, <1>5 DEF Version
<1>7. tStored' = Append(tStored, w)
  BY <1>3, <1>5 DEF Row!OthersChange
<1>8. tStored' \in Seq(Version) /\ Len(tStored') = Len(tStored) + 1
  BY <1>6, <1>7, OneMoreVersion
<1>9. tSeen \in 1 .. Len(tStored')
  BY <1>8, LastVersion DEF RowTypeInv
<1>10. \A q \in tRequests' : IsRequest(q)'
  BY RequestStays DEF RowTypeInv, Row!OthersChange
<1> QED
  BY <1>4, <1>6, <1>7, <1>8, <1>9, <1>10 DEF Row!OthersChange, RowTypeInv

LEMMA TypeOthersAssign ==
    ASSUME RowTypeInv, NEW a \in Row!Assignees, NEW id \in Values, Row!OthersAssign(a, id)
    PROVE  /\ \E w \in Version :
                 /\ tStored' = Append(tStored, w)
                 /\ \A g \in Row!Fields \ Row!AssigneeFields : w.task[g] = Row!Last(tStored).task[g]
           /\ RowTypeInv'
<1> DEFINE task == [f \in Row!Fields |-> IF f \in Row!AssigneeFields THEN Row!Resolved(a[f], id)
                                                                  ELSE Row!Last(tStored).task[f]]
<1>1. Row!Last(tStored) \in Version /\ Row!Last(tStored).task \in [Row!Fields -> AnyValue]
  BY LastVersion
<1>2. PICK t : t = task
  OBVIOUS
<1>3. \A f \in Row!AssigneeFields : Row!Resolved(a[f], id) \in AnyValue
  BY AssigneeIsValue
<1>4. t \in [Row!Fields -> AnyValue]
      /\ \A g \in Row!Fields \ Row!AssigneeFields : t[g] = Row!Last(tStored).task[g]
  BY <1>1, <1>2, <1>3
<1>5. PICK w : w = [Row!Last(tStored) EXCEPT !.task = t]
  OBVIOUS
<1>6. w \in Version /\ w.task = t
  BY <1>1, <1>4, <1>5 DEF Version
<1>7. tStored' = Append(tStored, w)
  BY <1>2, <1>5 DEF Row!OthersAssign
<1>8. tStored' \in Seq(Version) /\ Len(tStored') = Len(tStored) + 1
  BY <1>6, <1>7, OneMoreVersion
<1>9. tSeen \in 1 .. Len(tStored')
  BY <1>8, LastVersion DEF RowTypeInv
<1>10. \A q \in tRequests' : IsRequest(q)'
  BY RequestStays DEF RowTypeInv, Row!OthersAssign
<1> QED
  BY <1>4, <1>6, <1>7, <1>8, <1>9, <1>10 DEF Row!OthersAssign, RowTypeInv

LEMMA TypeOthersDelete ==
    ASSUME RowTypeInv, Row!OthersDelete
    PROVE  /\ \E w \in Version :
                 /\ tStored' = Append(tStored, w)
                 /\ w.task = Row!Last(tStored).task
           /\ RowTypeInv'
<1>1. Row!Last(tStored) \in Version
  BY LastVersion
<1>2. Row!Last(tStored).order = <<"above", "mine", "below">>
  BY <1>1 DEF Row!OthersDelete, Version, Orders
<1>3. Tail(Row!Last(tStored).order) = <<"mine", "below">>
  BY <1>2
<1>4. PICK w : w = [Row!Last(tStored) EXCEPT !.order = Tail(@)]
  OBVIOUS
<1>5. w \in Version /\ w.task = Row!Last(tStored).task
  BY <1>1, <1>3, <1>4 DEF Version, Orders
<1>6. tStored' = Append(tStored, w)
  BY <1>4 DEF Row!OthersDelete
<1>7. tStored' \in Seq(Version) /\ Len(tStored') = Len(tStored) + 1
  BY <1>5, <1>6, OneMoreVersion
<1>8. tSeen \in 1 .. Len(tStored')
  BY <1>7, LastVersion DEF RowTypeInv
<1>9. \A q \in tRequests' : IsRequest(q)'
  BY RequestStays DEF RowTypeInv, Row!OthersDelete
<1> QED
  BY <1>5, <1>6, <1>7, <1>8, <1>9 DEF Row!OthersDelete, RowTypeInv

LEMMA RowTypeStep ==
    ASSUME RowTypeInv, [Row!Next]_Row!vars
    PROVE  RowTypeInv'
<1>1. ASSUME NEW a \in Row!Assignees, Row!AssigneeChange(a)
      PROVE  RowTypeInv'
  BY <1>1, TypeAssignee
<1>2. ASSUME NEW v \in Values, Row!Type(v)
      PROVE  RowTypeInv'
  <2>1. /\ DOMAIN tShown' = Row!Fields /\ tShown'["state"] = tShown["state"]
        /\ \A f \in Row!Fields : tShown'[f] = tShown[f] \/ tShown'[f] = v
    BY <1>2 DEF Row!Type, RowTypeInv, Row!Fields
  <2>2. \A q \in tRequests' : IsRequest(q)'
    BY <1>2, RequestStays DEF RowTypeInv, Row!Type
  <2>3. v \in AnyValue
    BY DEF AnyValue
  <2> QED
    BY <1>2, <2>1, <2>2, <2>3 DEF Row!Type, RowTypeInv
<1>3. ASSUME NEW f \in Row!Direct, NEW v \in Values, Row!DirectChange(f, v)
      PROVE  RowTypeInv'
  BY <1>3, TypeDirect
<1>4. CASE Row!ClickCheckbox
  BY <1>4, TypeCheckbox
<1>5. CASE Row!SkipOrRestore
  BY <1>5, TypeSkip
<1>6. CASE Row!Edit
  BY <1>6, RequestStays DEF Row!Edit, RowTypeInv
<1>7. CASE Row!handleSave
  BY <1>7, TypeSave
<1>8. CASE Row!onCancel
  <2>1. Row!Prop["title"] \in AnyValue
    BY PropIsValue DEF Row!Fields
  <2>2. /\ DOMAIN tShown' = Row!Fields /\ tShown'["state"] = tShown["state"]
        /\ \A f \in Row!Fields \ {"state"} : tShown'[f] \in AnyValue
    BY <1>8, <2>1 DEF Row!onCancel, RowTypeInv, Row!Fields
  <2>3. \A q \in tRequests' : IsRequest(q)'
    BY <1>8, RequestStays DEF RowTypeInv, Row!onCancel
  <2> QED
    BY <1>8, <2>2, <2>3 DEF Row!onCancel, RowTypeInv
<1>9. ASSUME NEW r \in tRequests, Row!Handle(r)
      PROVE  RowTypeInv'
  <2>1. \A q \in tRequests' : IsRequest(q)'
    BY <1>9, HandleWrites, AnswerStep DEF Row!Handle
  <2>2. tStored' \in Seq(Version) /\ tSeen \in 1 .. Len(tStored')
    BY <1>9, HandleWrites, OneMoreVersion, LastVersion DEF RowTypeInv
  <2> QED
    BY <1>9, <2>1, <2>2 DEF Row!Handle, RowTypeInv
<1>10. ASSUME NEW r \in tRequests, Row!Fail(r)
       PROVE  RowTypeInv'
  <2>1. \A q \in tRequests' : IsRequest(q)'
    BY <1>10, AnswerStep DEF Row!Fail
  <2> QED
    BY <1>10, <2>1 DEF Row!Fail, RowTypeInv
<1>11. ASSUME NEW r \in tRequests, Row!Answered(r)
       PROVE  RowTypeInv'
  <2>1. \A q \in tRequests' : IsRequest(q)'
    BY <1>11, RequestStays DEF Row!Answered, RowTypeInv
  <2> QED
    BY <1>11, <2>1, TakenBackType DEF Row!Answered, RowTypeInv
<1>12. ASSUME NEW f \in Row!Fields, NEW v \in Row!ValuesOf(f), Row!OthersChange(f, v)
       PROVE  RowTypeInv'
  BY <1>12, TypeOthersChange
<1>13. CASE Row!OthersDelete
  BY <1>13, TypeOthersDelete
<1>14. ASSUME NEW n \in 1 .. Len(tStored), Row!Deliver(n)
       PROVE  RowTypeInv'
  <2>1. \A q \in tRequests' : IsRequest(q)'
    BY <1>14, DeliverDisturbs
  <2> QED
    BY <1>14, <2>1, TypeFollow DEF Row!Deliver, RowTypeInv
<1>15. CASE UNCHANGED Row!vars
  BY <1>15, RequestStays DEF Row!vars, RowTypeInv
<1>16. ASSUME NEW a \in Row!Assignees, NEW id \in Values, Row!OthersAssign(a, id)
       PROVE  RowTypeInv'
  BY <1>16, TypeOthersAssign
<1> QED
  BY <1>1, <1>2, <1>3, <1>4, <1>5, <1>6, <1>7, <1>8, <1>9, <1>10, <1>11, <1>12, <1>13, <1>14,
         <1>15, <1>16
     DEF Row!Next

LEMMA RowTypeInit == Row!Init => RowTypeInv
<1> SUFFICES ASSUME Row!Init PROVE RowTypeInv
  OBVIOUS
<1> DEFINE version == [order |-> <<"above", "mine", "below">>,
                       task |-> [f \in Row!Fields |-> IF f = "state" THEN "open"
                                                       ELSE IF f = "assigneeType" THEN "" ELSE 0]]
<1>1. tStored = <<version>>
  BY DEF Row!Init
<1>2. version \in Version /\ version.task["state"] = "open"
  <2>1. "open" \in AnyValue /\ "" \in AnyValue /\ 0 \in AnyValue
    BY DEF AnyValue
  <2>2. version.order \in Orders
    BY DEF Orders
  <2>3. version.task \in [Row!Fields -> AnyValue]
    BY <2>1
  <2>4. version.task["state"] = "open"
    BY DEF Row!Fields
  <2> QED
    BY <2>2, <2>3, <2>4 DEF Version
<1> HIDE DEF version
<1>3. tStored \in Seq(Version) /\ Len(tStored) = 1 /\ tSeen = 1
  <2>1. tSeen = 1
    BY DEF Row!Init
  <2> QED
    BY <1>1, <1>2, <2>1
<1>4. Row!Prop \in [Row!Fields -> AnyValue]
  BY <1>2, <1>1, <1>3 DEF Row!Prop, Row!Task, Version
<1>5. tShown = Row!Local(Row!Prop)
  BY DEF Row!Init
<1>6. DOMAIN tShown = Row!Fields /\ tShown["state"] \in BOOLEAN
      /\ \A f \in Row!Fields \ {"state"} : tShown[f] \in AnyValue
  BY <1>4, <1>5 DEF Row!Local, Row!Fields
<1>7. DOMAIN tChoice = Row!Fields /\ tSent = 0 /\ tRequests = {}
  BY DEF Row!Init
<1> QED
  BY <1>3, <1>6, <1>7 DEF RowTypeInv

-----------------------------------------------------------------------------
(* What the row shows. *)

(* A version the browser has not got yet differs from the one it has, or   *)
(* the field is known to be behind.                                        *)
ToCome(f)  == \E i \in tSeen + 1 .. Len(tStored) : Row!Task(i)[f] # Row!Prop[f]
Excused(f) == \E reason \in Row!BehindIn(f) : <<f, reason>> \in tBehind
Slack(f)   == ToCome(f) \/ Excused(f)

(* What is shown is v, or stands for it.                                   *)
Matches(f, v) ==
    \/ tShown[f] = v
    \/ f = "title" /\ tShown[f] = 0 /\ v = Row!Untitled
Right(f) == Matches(f, Row!Prop[f]) \/ Slack(f)

(* A request for f has still to set it to what is shown, or to the user    *)
(* that the server finds, or will be seen to have failed.                  *)
Awaited(f, r) ==
    /\ f \in DOMAIN r.changes
    /\ \/ r.answer = "error"
       \/ r.answer = "none" /\ (Matches(f, r.changes[f]) \/ r.changes[f] = Unchosen)

AssigneeInv(f) ==
    Right(f) \/ \E r \in tRequests : r.kind = "assignee" /\ r.id = tCallSeq /\ Awaited(f, r)

DirectInv(f) ==
    \/ f = "title" /\ tEditing
    \/ Right(f)
    \/ \E r \in tRequests : r.kind \in {"direct", "save"} /\ Awaited(f, r)

(* The tick x is that of the browser's task, or an earlier click that is   *)
(* disturbed has still to set it, or will be seen to have failed.          *)
Sets(r, x) ==
    \/ r.answer = "error"
    \/ r.answer = "none" /\ (x <=> r.changes["state"] = "closed")

TickInv(x) ==
    \/ x <=> Row!Prop["state"] = "closed"
    \/ Slack("state")
    \/ \E r \in tRequests : r.kind = "checkbox" /\ r.disturbed /\ Sets(r, x)

LastClick == {r \in tRequests : r.kind = "checkbox" /\ ~r.disturbed}

StateInv ==
    /\ \A q, r \in LastClick : q = r
    /\ TickInv(tShown["state"]) \/ \E r \in LastClick : Sets(r, tShown["state"])
    /\ \A r \in LastClick : TickInv(r.before.state)

RowInv ==
    /\ \A f \in Row!AssigneeFields : AssigneeInv(f)
    /\ StateInv
    /\ \A f \in Row!Direct \cup {"title"} : DirectInv(f)

LEMMA AssigneeIsApart ==
    ASSUME NEW f \in Row!AssigneeFields
    PROVE  f \in Row!Fields /\ f # "state" /\ f # "title" /\ f \notin Row!Direct
BY DEF Row!AssigneeFields, Row!Fields, Row!Direct

(* A new version, or none, changes nothing for the browser, and leaves     *)
(* what is to come to come.                                                *)
LEMMA SlackStays ==
    ASSUME RowTypeInv, tSeen' = tSeen, tBehind \subseteq tBehind',
           tStored' = tStored \/ \E v \in Version : tStored' = Append(tStored, v)
    PROVE  Row!Prop' = Row!Prop /\ \A f \in Row!Fields : Slack(f) => Slack(f)'
<1>1. /\ Len(tStored') \in Nat /\ Len(tStored') >= Len(tStored) /\ Len(tStored) \in Nat
      /\ \A i \in 1 .. Len(tStored) : tStored'[i] = tStored[i]
  BY OneMoreVersion, LastVersion
<1>2. Row!Prop' = Row!Prop
  BY <1>1 DEF RowTypeInv, Row!Prop, Row!Task
<1>3. ASSUME NEW f \in Row!Fields, ToCome(f)
      PROVE  ToCome(f)'
  BY <1>1, <1>2, <1>3 DEF ToCome, Row!Task, RowTypeInv
<1>4. ASSUME NEW f \in Row!Fields, Excused(f)
      PROVE  Excused(f)'
  BY <1>4 DEF Excused
<1> QED
  BY <1>2, <1>3, <1>4 DEF Slack

(* What the last version has, the browser has or is to get.                *)
LEMMA LatestComes ==
    ASSUME RowTypeInv', NEW f \in Row!Fields
    PROVE  tStored'[Len(tStored')].task[f] = Row!Prop'[f] \/ Slack(f)'
<1>1. tSeen' \in 1 .. Len(tStored') /\ Len(tStored') \in Nat
  BY LenProperties DEF RowTypeInv
<1>2. CASE tSeen' = Len(tStored')
  BY <1>1, <1>2 DEF Row!Prop, Row!Task
<1>3. CASE tSeen' # Len(tStored')
  <2>1. Len(tStored') \in tSeen' + 1 .. Len(tStored')
    BY <1>1, <1>3
  <2> QED
    BY <2>1 DEF Slack, ToCome, Row!Prop, Row!Task
<1> QED
  BY <1>2, <1>3

(* So is what is written into it last.                                     *)
LEMMA ChangeComes ==
    ASSUME RowTypeInv, tSeen' = tSeen, NEW v \in Version, tStored' = Append(tStored, v),
           NEW f \in Row!Fields, v.task[f] # Row!Last(tStored).task[f]
    PROVE  Slack(f)'
<1>1. /\ Len(tStored') = Len(tStored) + 1 /\ tStored'[Len(tStored')] = v
      /\ tStored'[Len(tStored)] = Row!Last(tStored)
      /\ Len(tStored) \in Nat /\ tSeen \in 1 .. Len(tStored)
  BY OneMoreVersion, LastVersion DEF RowTypeInv
<1>2. CASE v.task[f] # Row!Prop'[f]
  <2>1. Len(tStored') \in tSeen' + 1 .. Len(tStored')
    BY <1>1
  <2> QED
    BY <1>1, <1>2, <2>1 DEF Slack, ToCome, Row!Task
<1>3. CASE v.task[f] = Row!Prop'[f]
  <2>1. Row!Last(tStored).task[f] # Row!Prop'[f]
    BY <1>3
  <2>2. tSeen' # Len(tStored)
    BY <1>1, <2>1 DEF Row!Prop, Row!Task
  <2>3. Len(tStored) \in tSeen' + 1 .. Len(tStored')
    BY <1>1, <2>2
  <2> QED
    BY <1>1, <2>1, <2>3 DEF Slack, ToCome, Row!Task
<1> QED
  BY <1>2, <1>3

LEMMA ReasonsOfAll ==
    ASSUME NEW f
    PROVE  {"shifted", "cameBack"} \subseteq Row!BehindIn(f)
BY DEF Row!BehindIn

(* A message brings a field, or leaves it and what is to come of it.       *)
LEMMA DeliverBrings ==
    ASSUME RowTypeInv, NEW n \in 1 .. Len(tStored), Row!Deliver(n), NEW f \in Row!Fields
    PROVE  \/ /\ Row!Task(n)[f] # Row!Prop[f]
              /\ \/ f # "taskActions" /\ tShown'[f] = Row!Local(Row!Prop')[f]
                 \/ f = "taskActions" /\ Slack(f)'
           \/ /\ Row!Task(n)[f] = Row!Prop[f]
              /\ Row!Prop'[f] = Row!Prop[f] /\ tShown'[f] = tShown[f] /\ (Slack(f) => Slack(f)')
<1> DEFINE changed == {g \in Row!Fields : Row!Task(n)[g] # Row!Prop[g]}
           cameBack == {g \in Row!Fields \ changed : \E i \in tSeen .. n : Row!Task(i)[g] # Row!Prop[g]}
<1>1. /\ tSeen < n /\ tSeen' = n /\ tStored' = tStored
      /\ tShown' = Row!Follow(Row!Prop, Row!Task(n))
      /\ tBehind' = {b \in tBehind : b[1] \notin changed}
                     \cup {<<g, "cameBack">> : g \in cameBack}
                     \cup {<<g, "unfollowed">> : g \in changed \ Row!Followed}
  BY DEF Row!Deliver
<1>2. Row!Prop' = Row!Task(n)
  BY <1>1 DEF Row!Prop, Row!Task
<1>3. CASE f \in changed
  <2>1. CASE f # "taskActions"
    BY <1>1, <1>2, <1>3, <2>1 DEF Row!Follow, Row!Followed
  <2>2. CASE f = "taskActions"
    <3>1. <<f, "unfollowed">> \in tBehind'
      BY <1>1, <1>3, <2>2 DEF Row!Followed
    <3> QED
      BY <1>3, <2>2, <3>1 DEF Slack, Excused, Row!BehindIn
  <2> QED
    BY <2>1, <2>2
<1>4. CASE f \notin changed
  <2>1. Row!Task(n)[f] = Row!Prop[f] /\ Row!Prop'[f] = Row!Prop[f]
    BY <1>2, <1>4
  <2>2. tShown'[f] = tShown[f]
    BY <1>1, <2>1 DEF Row!Follow
  <2>3. ASSUME Excused(f)
        PROVE  Excused(f)'
    <3>1. PICK reason \in Row!BehindIn(f) : <<f, reason>> \in tBehind
      BY <2>3 DEF Excused
    <3>2. <<f, reason>> \in tBehind'
      BY <1>1, <1>4, <3>1
    <3> QED
      BY <3>2 DEF Excused
  <2>4. ASSUME ToCome(f)
        PROVE  Slack(f)'
    <3>1. PICK i \in tSeen + 1 .. Len(tStored) : Row!Task(i)[f] # Row!Prop[f]
      BY <2>4 DEF ToCome
    <3>2. tSeen \in Nat /\ Len(tStored) \in Nat /\ i \in Nat /\ n \in Nat
      BY LastVersion DEF RowTypeInv
    <3>3. CASE i <= n
      <4>1. i \in tSeen .. n
        BY <3>2, <3>3
      <4>2. f \in cameBack
        BY <1>4, <3>1, <4>1
      <4>3. <<f, "cameBack">> \in tBehind'
        BY <1>1, <4>2
      <4> QED
        BY <4>3, ReasonsOfAll DEF Slack, Excused
    <3>4. CASE i > n
      <4>1. i \in n + 1 .. Len(tStored)
        BY <3>2, <3>4
      <4> QED
        BY <1>1, <2>1, <3>1, <4>1 DEF Slack, ToCome, Row!Task
    <3> QED
      BY <3>2, <3>3, <3>4
  <2> QED
    BY <2>1, <2>2, <2>3, <2>4 DEF Slack
<1> QED
  BY <1>3, <1>4

(* How a request is treated leaves a field as it was, or puts it right.    *)
LEMMA HandledIsShown ==
    ASSUME RowTypeInv, NEW r \in tRequests, Row!Handle(r), NEW f \in Row!Fields, f \in DOMAIN r.changes,
           Matches(f, r.changes[f])' \/ r.changes[f] = Unchosen
    PROVE  Right(f)'
<1>1. RowTypeInv' /\ tSeen' = tSeen
  BY RowTypeStep DEF Row!Next, Row!Handle
<1>2. tStored'[Len(tStored')].task[f] = Row!Prop'[f] \/ Slack(f)'
  BY <1>1, LatestComes
<1>3. CASE <<f, "shifted">> \in tBehind'
  BY <1>3, ReasonsOfAll DEF Right, Slack, Excused
<1>4. CASE r.changes[f] = Unchosen
  <2>1. f = "assigneeID"
    BY <1>4, PlainChanges
  <2>2. CASE <<f, "resolved">> \in tBehind'
    <3>1. "resolved" \in Row!BehindIn("assigneeID")
      BY DEF Row!BehindIn, Row!AssigneeFields
    <3> QED
      BY <2>1, <2>2, <3>1 DEF Right, Slack, Excused
  <2>3. CASE tStored'[Len(tStored')].task[f] # Row!Last(tStored).task[f]
    <3>1. tStored' # tStored
      BY <2>3, LastVersion
    <3>2. PICK v \in Version : tStored' = Append(tStored, v)
      BY <3>1, HandleWrites
    <3>3. v = tStored'[Len(tStored')]
      BY <3>2, OneMoreVersion
    <3> QED
      BY <1>1, <2>3, <3>2, <3>3, ChangeComes DEF Right
  <2> QED
    BY <1>3, <1>4, <2>2, <2>3, HandleWrites
<1>5. CASE Matches(f, r.changes[f])'
  <2>1. CASE tStored'[Len(tStored')].task[f] = r.changes[f]
    BY <1>2, <1>5, <2>1 DEF Right, Matches
  <2> QED
    BY <1>3, <1>4, <2>1, HandleWrites
<1> QED
  BY <1>4, <1>5

(* Steps of the server and of others leave what the browser has.           *)
LEMMA HandleSlack ==
    ASSUME RowTypeInv, NEW r \in tRequests, Row!Handle(r)
    PROVE  Row!Prop' = Row!Prop /\ tShown' = tShown /\ \A f \in Row!Fields : Slack(f) => Slack(f)'
<1>1. /\ tStored' = tStored \/ \E v \in Version : tStored' = Append(tStored, v)
      /\ tBehind \subseteq tBehind' /\ tSeen' = tSeen /\ tShown' = tShown
  BY HandleWrites DEF Row!Handle
<1> QED
  BY <1>1, SlackStays

LEMMA QuietSlack ==
    ASSUME RowTypeInv, UNCHANGED <<tStored, tSeen>>, tBehind \subseteq tBehind'
    PROVE  Row!Prop' = Row!Prop /\ \A f \in Row!Fields : Slack(f) => Slack(f)'
BY SlackStays

-----------------------------------------------------------------------------
(* The assignee. *)

LEMMA AssigneeKept ==
    ASSUME NEW f \in Row!AssigneeFields, AssigneeInv(f), tShown'[f] = tShown[f], tCallSeq' = tCallSeq,
           Row!Prop'[f] = Row!Prop[f], Slack(f) => Slack(f)',
           \A r \in tRequests : r.kind = "assignee" => r \in tRequests'
    PROVE  AssigneeInv(f)'
<1>1. CASE Right(f)
  BY <1>1 DEF AssigneeInv, Right, Matches
<1>2. ASSUME NEW r \in tRequests, r.kind = "assignee" /\ r.id = tCallSeq /\ Awaited(f, r)
      PROVE  AssigneeInv(f)'
  BY <1>2 DEF AssigneeInv, Awaited, Matches
<1> QED
  BY <1>1, <1>2 DEF AssigneeInv

(* The assignee that is shown is the task's, will come, or is awaited.     *)
LEMMA AssigneeChosen ==
    ASSUME RowTypeInv, NEW a \in Row!Assignees, Row!AssigneeChange(a), NEW f \in Row!AssigneeFields
    PROVE  AssigneeInv(f)'
<1>1. DOMAIN a \in About("assignee") /\ Choosable(a) /\ DOMAIN a = Row!AssigneeFields
  BY AssigneeIsValue DEF About
<1>2. PICK r : /\ tRequests' = tRequests \cup {r} /\ r.kind = "assignee" /\ r.id = tSent + 1
               /\ r.changes = a /\ r.answer = "none"
  <2>1. Row!Send("assignee", a)
    BY DEF Row!AssigneeChange
  <2> QED
    BY <1>1, <2>1, SendStep
<1>3. tShown'[f] = Row!Resolved(a[f], 0) /\ tCallSeq' = tSent + 1
  BY AssigneeIsApart DEF Row!AssigneeChange
<1>4. r \in tRequests' /\ f \in DOMAIN r.changes /\ r.changes[f] = a[f]
  BY <1>1, <1>2
<1>5. Matches(f, a[f])' \/ a[f] = Unchosen
  BY <1>3 DEF Matches, Row!Resolved
<1> QED
  BY <1>2, <1>3, <1>4, <1>5 DEF AssigneeInv, Awaited

LEMMA AssigneeStep ==
    ASSUME RowTypeInv, NEW f \in Row!AssigneeFields, AssigneeInv(f), [Row!Next]_Row!vars
    PROVE  AssigneeInv(f)'
<1>0. f \in Row!Fields /\ f # "state" /\ f # "title" /\ f # "taskActions" /\ f \notin Row!Direct
  BY AssigneeIsApart DEF Row!Direct
<1> USE <1>0
<1>1. ASSUME NEW a \in Row!Assignees, Row!AssigneeChange(a)
      PROVE  AssigneeInv(f)'
  BY <1>1, AssigneeChosen
<1>2. ASSUME NEW v \in Values, Row!Type(v)
      PROVE  AssigneeInv(f)'
  <2>1. tShown'[f] = tShown[f]
    BY <1>2 DEF Row!Type, RowTypeInv
  <2>2. UNCHANGED <<tStored, tSeen, tRequests, tCallSeq, tBehind>>
    BY <1>2 DEF Row!Type
  <2> QED
    BY <2>1, <2>2, QuietSlack, AssigneeKept
<1>3. ASSUME NEW g \in Row!Direct, NEW v \in Values, Row!DirectChange(g, v)
      PROVE  AssigneeInv(f)'
  <2>1. tShown'[f] = tShown[f]
    BY <1>3 DEF Row!DirectChange, RowTypeInv, Row!Direct
  <2>2. UNCHANGED <<tStored, tSeen, tCallSeq, tBehind>> /\ tRequests \subseteq tRequests'
    BY <1>3 DEF Row!DirectChange, Row!Send
  <2> QED
    BY <2>1, <2>2, QuietSlack, AssigneeKept
<1>4. CASE Row!ClickCheckbox
  <2>1. PICK t : t = ~tShown["state"]
    OBVIOUS
  <2>2. tShown' = [tShown EXCEPT !["state"] = t]
    BY <1>4, <2>1 DEF Row!ClickCheckbox
  <2>3. tShown'[f] = tShown[f]
    BY <2>2 DEF RowTypeInv
  <2>4. UNCHANGED <<tStored, tSeen, tCallSeq, tBehind>>
    BY <1>4 DEF Row!ClickCheckbox
  <2>5. \A q \in tRequests : q.kind = "assignee" => q \in tRequests'
    BY <1>4, CheckboxSends
  <2> QED
    BY <2>3, <2>4, <2>5, QuietSlack, AssigneeKept
<1>5. CASE Row!SkipOrRestore
  <2>1. UNCHANGED <<tStored, tSeen, tShown, tCallSeq, tBehind>> /\ tRequests \subseteq tRequests'
    BY <1>5 DEF Row!SkipOrRestore
  <2> QED
    BY <2>1, QuietSlack, AssigneeKept
<1>6. CASE Row!Edit
  BY <1>6, QuietSlack, AssigneeKept DEF Row!Edit
<1>7. CASE Row!handleSave
  <2>1. UNCHANGED <<tStored, tSeen, tShown, tCallSeq, tBehind>> /\ tRequests \subseteq tRequests'
    BY <1>7 DEF Row!handleSave, Row!Save, Row!Send
  <2> QED
    BY <2>1, QuietSlack, AssigneeKept
<1>8. CASE Row!onCancel
  <2>1. tShown'[f] = tShown[f]
    BY <1>8 DEF Row!onCancel, RowTypeInv
  <2>2. UNCHANGED <<tStored, tSeen, tRequests, tCallSeq, tBehind>>
    BY <1>8 DEF Row!onCancel
  <2> QED
    BY <2>1, <2>2, QuietSlack, AssigneeKept
<1>9. ASSUME NEW r \in tRequests, Row!Handle(r)
      PROVE  AssigneeInv(f)'
  <2>1. PICK a \in {"ok", "error"} : Row!Answer(r, a)
    BY <1>9, HandleWrites
  <2>2. PICK m : /\ tRequests' = (tRequests \ {r}) \cup {m}
                 /\ m.kind = r.kind /\ m.id = r.id /\ m.changes = r.changes /\ m.answer = a
    BY <1>9, <2>1, AnswerStep DEF Row!Handle
  <2>3. /\ Row!Prop' = Row!Prop /\ tShown' = tShown /\ (Slack(f) => Slack(f)')
        /\ tCallSeq' = tCallSeq
    BY <1>9, HandleSlack DEF Row!Handle
  <2>4. CASE Right(f)
    BY <2>3, <2>4 DEF AssigneeInv, Right, Matches
  <2>5. ASSUME NEW q \in tRequests, q.kind = "assignee" /\ q.id = tCallSeq /\ Awaited(f, q)
        PROVE  AssigneeInv(f)'
    <3>1. CASE q # r
      BY <2>2, <2>3, <2>5, <3>1 DEF AssigneeInv, Awaited, Matches
    <3>2. CASE q = r
      <4>1. f \in DOMAIN r.changes /\ (Matches(f, r.changes[f])' \/ r.changes[f] = Unchosen)
        BY <1>9, <2>3, <2>5, <3>2 DEF Awaited, Matches, Row!Handle
      <4> QED
        BY <1>9, <4>1, HandledIsShown DEF AssigneeInv
    <3> QED
      BY <3>1, <3>2
  <2> QED
    BY <2>4, <2>5 DEF AssigneeInv
<1>10. ASSUME NEW r \in tRequests, Row!Fail(r)
       PROVE  AssigneeInv(f)'
  <2>1. PICK m : /\ tRequests' = (tRequests \ {r}) \cup {m}
                 /\ m.kind = r.kind /\ m.id = r.id /\ m.changes = r.changes /\ m.answer = "error"
    BY <1>10, AnswerStep DEF Row!Fail
  <2>2. UNCHANGED <<tStored, tSeen, tShown, tCallSeq, tBehind>>
    BY <1>10 DEF Row!Fail
  <2>3. Row!Prop' = Row!Prop /\ (Slack(f) => Slack(f)')
    BY <2>2, QuietSlack
  <2>4. CASE Right(f)
    BY <2>2, <2>3, <2>4 DEF AssigneeInv, Right, Matches
  <2>5. ASSUME NEW q \in tRequests, q.kind = "assignee" /\ q.id = tCallSeq /\ Awaited(f, q)
        PROVE  AssigneeInv(f)'
    <3>1. CASE q # r
      BY <2>1, <2>2, <2>5, <3>1 DEF AssigneeInv, Awaited, Matches
    <3>2. CASE q = r
      <4>1. m \in tRequests' /\ m.kind = "assignee" /\ m.id = tCallSeq' /\ Awaited(f, m)'
        BY <2>1, <2>2, <2>5, <3>2 DEF Awaited
      <4> QED
        BY <4>1 DEF AssigneeInv
    <3> QED
      BY <3>1, <3>2
  <2> QED
    BY <2>4, <2>5 DEF AssigneeInv
<1>11. ASSUME NEW r \in tRequests, Row!Answered(r)
       PROVE  AssigneeInv(f)'
  <2>1. UNCHANGED <<tStored, tSeen, tCallSeq>> /\ tBehind \subseteq tBehind'
        /\ tRequests' = tRequests \ {r} /\ tShown' = Row!TakenBack(r) /\ r.answer # "none"
    BY <1>11 DEF Row!Answered
  <2>2. Row!Prop' = Row!Prop /\ (Slack(f) => Slack(f)')
    BY <2>1, QuietSlack
  <2>3. CASE tShown'[f] = Row!Prop[f]
    BY <2>2, <2>3 DEF AssigneeInv, Right, Matches
  <2>4. CASE tShown'[f] # Row!Prop[f]
    <3>1. tShown'[f] = tShown[f]
      BY <2>1, <2>4, TakenBackType
    <3>2. CASE Right(f)
      BY <2>2, <3>1, <3>2 DEF AssigneeInv, Right, Matches
    <3>3. ASSUME NEW q \in tRequests, q.kind = "assignee" /\ q.id = tCallSeq /\ Awaited(f, q)
          PROVE  AssigneeInv(f)'
      <4>1. q # r
        <5>1. CASE q = r
          BY <2>1, <2>4, <3>3, <5>1, TakenBackType DEF Awaited
        <5> QED
          BY <5>1
      <4> QED
        BY <2>1, <3>1, <3>3, <4>1 DEF AssigneeInv, Awaited, Matches
    <3> QED
      BY <2>4, <3>1, <3>2, <3>3 DEF AssigneeInv
  <2> QED
    BY <2>3, <2>4
<1>12. ASSUME NEW g \in Row!Fields, NEW v \in Row!ValuesOf(g), Row!OthersChange(g, v)
       PROVE  AssigneeInv(f)'
  <2>1. /\ UNCHANGED <<tSeen, tShown, tRequests, tCallSeq, tBehind>>
        /\ \E w \in Version : tStored' = Append(tStored, w)
    BY <1>12, TypeOthersChange DEF Row!OthersChange
  <2> QED
    BY <2>1, SlackStays, AssigneeKept
<1>13. CASE Row!OthersDelete
  <2>1. /\ UNCHANGED <<tSeen, tShown, tRequests, tCallSeq, tBehind>>
        /\ \E w \in Version : tStored' = Append(tStored, w)
    BY <1>13, TypeOthersDelete DEF Row!OthersDelete
  <2> QED
    BY <2>1, SlackStays, AssigneeKept
<1>14. ASSUME NEW n \in 1 .. Len(tStored), Row!Deliver(n)
       PROVE  AssigneeInv(f)'
  <2>1. tCallSeq' = tCallSeq /\ \A r \in tRequests : r.kind = "assignee" => r \in tRequests'
    BY <1>14, DeliverDisturbs DEF Row!Deliver
  <2>2. CASE Row!Task(n)[f] # Row!Prop[f]
    <3>1. tShown'[f] = Row!Local(Row!Prop')[f]
      BY <1>14, <2>2, DeliverBrings
    <3> QED
      BY <3>1 DEF Row!Local, AssigneeInv, Right, Matches
  <2>3. CASE Row!Task(n)[f] = Row!Prop[f]
    <3>1. /\ Row!Prop'[f] = Row!Prop[f] /\ tShown'[f] = tShown[f]
          /\ (Slack(f) => Slack(f)')
      BY <1>14, <2>3, DeliverBrings
    <3> QED
      BY <2>1, <3>1, AssigneeKept
  <2> QED
    BY <2>2, <2>3
<1>15. CASE UNCHANGED Row!vars
  BY <1>15, QuietSlack, AssigneeKept DEF Row!vars
<1>16. ASSUME NEW a \in Row!Assignees, NEW id \in Values, Row!OthersAssign(a, id)
       PROVE  AssigneeInv(f)'
  <2>1. /\ UNCHANGED <<tSeen, tShown, tRequests, tCallSeq, tBehind>>
        /\ \E w \in Version : tStored' = Append(tStored, w)
    BY <1>16, TypeOthersAssign DEF Row!OthersAssign
  <2> QED
    BY <2>1, SlackStays, AssigneeKept
<1> QED
  BY <1>1, <1>2, <1>3, <1>4, <1>5, <1>6, <1>7, <1>8, <1>9, <1>10, <1>11, <1>12, <1>13, <1>14,
         <1>15, <1>16
     DEF Row!Next
-----------------------------------------------------------------------------
(* The fields that are sent when they are chosen, and the form's. *)

Plain == Row!Direct \cup {"title"}

LEMMA DirectKept ==
    ASSUME NEW f \in Plain, DirectInv(f), tShown'[f] = tShown[f], tEditing => tEditing',
           Row!Prop'[f] = Row!Prop[f], Slack(f) => Slack(f)',
           \A r \in tRequests : r.kind \in {"direct", "save"} => r \in tRequests'
    PROVE  DirectInv(f)'
<1>1. CASE (f = "title" /\ tEditing) \/ Right(f)
  BY <1>1 DEF DirectInv, Right, Matches
<1>2. ASSUME NEW r \in tRequests, r.kind \in {"direct", "save"}, Awaited(f, r)
      PROVE  DirectInv(f)'
  BY <1>2 DEF DirectInv, Awaited, Matches
<1> QED
  BY <1>1, <1>2 DEF DirectInv

(* A choice is sent at once, the form when it is saved.                    *)
LEMMA DirectChosen ==
    ASSUME RowTypeInv, NEW f \in Row!Direct, NEW v \in Values, Row!DirectChange(f, v)
    PROVE  DirectInv(f)'
<1>1. DOMAIN [g \in {f} |-> v] \in About("direct") /\ Choosable([g \in {f} |-> v])
  BY DEF About, AnyValue, Choosable
<1>2. PICK r : /\ tRequests' = tRequests \cup {r} /\ r.kind = "direct"
               /\ r.changes = [g \in {f} |-> v] /\ r.answer = "none"
  BY <1>1, SendStep DEF Row!DirectChange
<1>3. tShown'[f] = v
  BY DEF Row!DirectChange, RowTypeInv, Row!Fields
<1>4. r \in tRequests' /\ f \in DOMAIN r.changes /\ r.changes[f] = v
  BY <1>2
<1> QED
  BY <1>2, <1>3, <1>4 DEF DirectInv, Awaited, Matches

(* The request of the form, as it is sent.                                 *)
LEMMA SaveSends ==
    ASSUME RowTypeInv, Row!handleSave
    PROVE  \E r : /\ tRequests' = tRequests \cup {r} /\ r.kind = "save" /\ r.answer = "none"
                  /\ r.id = tSent + 1 /\ tSent' = tSent + 1
                  /\ r.changes = Form
<1>1. DOMAIN Form \in About("save") /\ Choosable(Form)
  BY FormIsValue DEF About
<1>2. Row!Send("save", Form)
  BY DEF Row!handleSave, Row!Save, Form
<1> QED
  BY <1>1, <1>2, SendStep

LEMMA DirectSaved ==
    ASSUME RowTypeInv, NEW f \in Plain, DirectInv(f), Row!handleSave
    PROVE  DirectInv(f)'
<1>1. PICK r : /\ tRequests' = tRequests \cup {r} /\ r.kind = "save" /\ r.answer = "none"
               /\ r.changes = Form
  BY SaveSends
<1>2. UNCHANGED <<tStored, tSeen, tShown, tBehind>>
  BY DEF Row!handleSave, Row!Save
<1>3. CASE f = "title"
  <2>1. r \in tRequests' /\ f \in DOMAIN r.changes /\ r.changes[f] = Row!finalTitle(tShown'[f])
    BY <1>1, <1>2, <1>3, FormIsValue
  <2> QED
    BY <1>1, <1>3, <2>1 DEF DirectInv, Awaited, Matches, Row!finalTitle
<1>4. CASE f # "title"
  <2>1. Row!Prop' = Row!Prop /\ (Slack(f) => Slack(f)')
    BY <1>2, QuietSlack DEF Plain, Row!Fields
  <2>2. CASE Right(f)
    BY <1>2, <2>1, <2>2 DEF DirectInv, Right, Matches
  <2>3. ASSUME NEW q \in tRequests, q.kind \in {"direct", "save"}, Awaited(f, q)
        PROVE  DirectInv(f)'
    BY <1>1, <1>2, <2>3 DEF DirectInv, Awaited, Matches
  <2> QED
    BY <1>4, <2>2, <2>3 DEF DirectInv
<1> QED
  BY <1>3, <1>4

LEMMA FailureExcuses ==
    ASSUME RowTypeInv, NEW r \in tRequests, Row!Answered(r), r.answer = "error", r.kind \in {"direct", "save"},
           NEW f \in DOMAIN r.changes, f \in Plain
    PROVE  Slack(f)'
<1>1. <<f, "failed">> \in tBehind'
  BY DEF Row!Answered, Row!Marked
<1>2. "failed" \in Row!BehindIn(f)
  BY DEF Row!BehindIn, Plain, Row!Direct, Row!AssigneeFields
<1> QED
  BY <1>1, <1>2 DEF Slack, Excused

LEMMA DirectStep ==
    ASSUME RowTypeInv, NEW f \in Plain, DirectInv(f), [Row!Next]_Row!vars
    PROVE  DirectInv(f)'
<1>0. f \in Row!Fields /\ f \notin Row!AssigneeFields /\ f # "state" /\ f # "assigneeID"
  BY DEF Plain, Row!Fields, Row!Direct, Row!AssigneeFields
<1>1. ASSUME NEW a \in Row!Assignees, Row!AssigneeChange(a)
      PROVE  DirectInv(f)'
  <2>1. tShown'[f] = tShown[f]
    BY <1>0, <1>1 DEF Row!AssigneeChange, RowTypeInv
  <2>2. UNCHANGED <<tStored, tSeen, tEditing, tBehind>> /\ tRequests \subseteq tRequests'
    BY <1>1 DEF Row!AssigneeChange, Row!Send
  <2> QED
    BY <1>0, <2>1, <2>2, QuietSlack, DirectKept
<1>2. ASSUME NEW v \in Values, Row!Type(v)
      PROVE  DirectInv(f)'
  <2>1. CASE f = "title"
    BY <1>2, <2>1 DEF Row!Type, DirectInv
  <2>2. CASE f # "title"
    <3>1. tShown'[f] = tShown[f]
      BY <1>0, <1>2, <2>2 DEF Row!Type, RowTypeInv
    <3>2. UNCHANGED <<tStored, tSeen, tEditing, tRequests, tBehind>>
      BY <1>2 DEF Row!Type
    <3> QED
      BY <1>0, <3>1, <3>2, QuietSlack, DirectKept
  <2> QED
    BY <2>1, <2>2
<1>3. ASSUME NEW g \in Row!Direct, NEW v \in Values, Row!DirectChange(g, v)
      PROVE  DirectInv(f)'
  <2>1. CASE f = g
    BY <1>3, <2>1, DirectChosen
  <2>2. CASE f # g
    <3>1. tShown'[f] = tShown[f]
      BY <1>0, <1>3, <2>2 DEF Row!DirectChange, RowTypeInv
    <3>2. UNCHANGED <<tStored, tSeen, tEditing, tBehind>> /\ tRequests \subseteq tRequests'
      BY <1>3 DEF Row!DirectChange, Row!Send
    <3> QED
      BY <1>0, <3>1, <3>2, QuietSlack, DirectKept
  <2> QED
    BY <2>1, <2>2
<1>4. CASE Row!ClickCheckbox
  <2>1. PICK t : t = ~tShown["state"]
    OBVIOUS
  <2>2. tShown' = [tShown EXCEPT !["state"] = t]
    BY <1>4, <2>1 DEF Row!ClickCheckbox
  <2>3. tShown'[f] = tShown[f]
    BY <1>0, <2>2 DEF RowTypeInv
  <2>4. UNCHANGED <<tStored, tSeen, tEditing, tBehind>>
    BY <1>4 DEF Row!ClickCheckbox
  <2>5. \A q \in tRequests : q.kind \in {"direct", "save"} => q \in tRequests'
    BY <1>4, CheckboxSends
  <2> QED
    BY <1>0, <2>3, <2>4, <2>5, QuietSlack, DirectKept
<1>5. CASE Row!SkipOrRestore
  <2>1. UNCHANGED <<tStored, tSeen, tShown, tEditing, tBehind>> /\ tRequests \subseteq tRequests'
    BY <1>5 DEF Row!SkipOrRestore
  <2> QED
    BY <1>0, <2>1, QuietSlack, DirectKept
<1>6. CASE Row!Edit
  BY <1>0, <1>6, QuietSlack, DirectKept DEF Row!Edit
<1>7. CASE Row!handleSave
  BY <1>7, DirectSaved
<1>8. CASE Row!onCancel
  <2>1. UNCHANGED <<tStored, tSeen, tRequests, tBehind>> /\ Row!Prop' = Row!Prop
        /\ tShown' = [tShown EXCEPT !["title"] = Row!Prop["title"]]
    BY <1>8, QuietSlack DEF Row!onCancel
  <2>2. CASE f = "title"
    BY <1>0, <2>1, <2>2 DEF RowTypeInv, DirectInv, Right, Matches
  <2>3. CASE f # "title"
    <3>1. tShown'[f] = tShown[f] /\ (Slack(f) => Slack(f)')
      BY <1>0, <2>1, <2>3, QuietSlack DEF RowTypeInv
    <3> QED
      BY <2>1, <2>3, <3>1 DEF DirectInv, Awaited, Right, Matches
  <2> QED
    BY <2>2, <2>3
<1>9. ASSUME NEW r \in tRequests, Row!Handle(r)
      PROVE  DirectInv(f)'
  <2>1. PICK a \in {"ok", "error"} : Row!Answer(r, a)
    BY <1>9, HandleWrites
  <2>2. PICK m : tRequests' = (tRequests \ {r}) \cup {m}
    BY <1>9, <2>1, AnswerStep DEF Row!Handle
  <2>3. Row!Prop' = Row!Prop /\ tShown' = tShown /\ (Slack(f) => Slack(f)') /\ tEditing' = tEditing
    BY <1>0, <1>9, HandleSlack DEF Row!Handle
  <2>4. CASE (f = "title" /\ tEditing) \/ Right(f)
    BY <2>3, <2>4 DEF DirectInv, Right, Matches
  <2>5. ASSUME NEW q \in tRequests, q.kind \in {"direct", "save"}, Awaited(f, q)
        PROVE  DirectInv(f)'
    <3>1. CASE q # r
      BY <2>2, <2>3, <2>5, <3>1 DEF DirectInv, Awaited, Matches
    <3>2. CASE q = r
      <4>1. f \in DOMAIN r.changes /\ (Matches(f, r.changes[f])' \/ r.changes[f] = Unchosen)
        BY <1>9, <2>3, <2>5, <3>2 DEF Awaited, Matches, Row!Handle
      <4> QED
        BY <1>0, <1>9, <4>1, HandledIsShown DEF DirectInv
    <3> QED
      BY <3>1, <3>2
  <2> QED
    BY <2>4, <2>5 DEF DirectInv
<1>10. ASSUME NEW r \in tRequests, Row!Fail(r)
       PROVE  DirectInv(f)'
  <2>1. PICK m : /\ tRequests' = (tRequests \ {r}) \cup {m}
                 /\ m.kind = r.kind /\ m.changes = r.changes /\ m.answer = "error"
    BY <1>10, AnswerStep DEF Row!Fail
  <2>2. UNCHANGED <<tStored, tSeen, tShown, tEditing, tBehind>>
    BY <1>10 DEF Row!Fail
  <2>3. Row!Prop' = Row!Prop /\ (Slack(f) => Slack(f)')
    BY <1>0, <2>2, QuietSlack
  <2>4. CASE (f = "title" /\ tEditing) \/ Right(f)
    BY <2>2, <2>3, <2>4 DEF DirectInv, Right, Matches
  <2>5. ASSUME NEW q \in tRequests, q.kind \in {"direct", "save"}, Awaited(f, q)
        PROVE  DirectInv(f)'
    <3>1. CASE q # r
      BY <2>1, <2>2, <2>5, <3>1 DEF DirectInv, Awaited, Matches
    <3>2. CASE q = r
      <4>1. m \in tRequests' /\ m.kind \in {"direct", "save"} /\ Awaited(f, m)'
        BY <2>1, <2>2, <2>5, <3>2 DEF Awaited
      <4> QED
        BY <4>1 DEF DirectInv
    <3> QED
      BY <3>1, <3>2
  <2> QED
    BY <2>4, <2>5 DEF DirectInv
<1>11. ASSUME NEW r \in tRequests, Row!Answered(r)
       PROVE  DirectInv(f)'
  <2>1. UNCHANGED <<tStored, tSeen, tEditing>> /\ tBehind \subseteq tBehind'
        /\ tRequests' = tRequests \ {r} /\ tShown' = Row!TakenBack(r) /\ r.answer # "none"
    BY <1>11 DEF Row!Answered
  <2>2. Row!Prop' = Row!Prop /\ (Slack(f) => Slack(f)')
    BY <1>0, <2>1, QuietSlack
  <2>3. tShown'[f] = tShown[f]
    BY <1>0, <2>1, TakenBackType
  <2>4. CASE (f = "title" /\ tEditing) \/ Right(f)
    BY <2>1, <2>2, <2>3, <2>4 DEF DirectInv, Right, Matches
  <2>5. ASSUME NEW q \in tRequests, q.kind \in {"direct", "save"}, Awaited(f, q)
        PROVE  DirectInv(f)'
    <3>1. CASE q # r
      BY <2>1, <2>3, <2>5, <3>1 DEF DirectInv, Awaited, Matches
    <3>2. CASE q = r
      <4>1. Slack(f)'
        BY <1>11, <2>1, <2>5, <3>2, FailureExcuses DEF Awaited
      <4> QED
        BY <4>1 DEF DirectInv, Right
    <3> QED
      BY <3>1, <3>2
  <2> QED
    BY <2>4, <2>5 DEF DirectInv
<1>12. ASSUME NEW g \in Row!Fields, NEW v \in Row!ValuesOf(g), Row!OthersChange(g, v)
       PROVE  DirectInv(f)'
  <2>1. /\ UNCHANGED <<tSeen, tShown, tRequests, tEditing, tBehind>>
        /\ \E w \in Version : tStored' = Append(tStored, w)
    BY <1>12, TypeOthersChange DEF Row!OthersChange
  <2> QED
    BY <1>0, <2>1, SlackStays, DirectKept
<1>13. CASE Row!OthersDelete
  <2>1. /\ UNCHANGED <<tSeen, tShown, tRequests, tEditing, tBehind>>
        /\ \E w \in Version : tStored' = Append(tStored, w)
    BY <1>13, TypeOthersDelete DEF Row!OthersDelete
  <2> QED
    BY <1>0, <2>1, SlackStays, DirectKept
<1>14. ASSUME NEW n \in 1 .. Len(tStored), Row!Deliver(n)
       PROVE  DirectInv(f)'
  <2>1. tEditing' = tEditing /\ \A r \in tRequests : r.kind \in {"direct", "save"} => r \in tRequests'
    BY <1>14, DeliverDisturbs DEF Row!Deliver
  <2>2. CASE Row!Task(n)[f] # Row!Prop[f]
    <3>1. tShown'[f] = Row!Local(Row!Prop')[f] \/ Slack(f)'
      BY <1>0, <1>14, <2>2, DeliverBrings
    <3> QED
      BY <1>0, <3>1 DEF Row!Local, DirectInv, Right, Matches
  <2>3. CASE Row!Task(n)[f] = Row!Prop[f]
    <3>1. Row!Prop'[f] = Row!Prop[f] /\ tShown'[f] = tShown[f] /\ (Slack(f) => Slack(f)')
      BY <1>0, <1>14, <2>3, DeliverBrings
    <3> QED
      BY <2>1, <3>1, DirectKept
  <2> QED
    BY <2>2, <2>3
<1>15. CASE UNCHANGED Row!vars
  BY <1>0, <1>15, QuietSlack, DirectKept DEF Row!vars
<1>16. ASSUME NEW a \in Row!Assignees, NEW id \in Values, Row!OthersAssign(a, id)
       PROVE  DirectInv(f)'
  <2>1. /\ UNCHANGED <<tSeen, tShown, tRequests, tEditing, tBehind>>
        /\ \E w \in Version : tStored' = Append(tStored, w)
    BY <1>16, TypeOthersAssign DEF Row!OthersAssign
  <2> QED
    BY <1>0, <2>1, SlackStays, DirectKept
<1> QED
  BY <1>1, <1>2, <1>3, <1>4, <1>5, <1>6, <1>7, <1>8, <1>9, <1>10, <1>11, <1>12, <1>13, <1>14,
         <1>15, <1>16
     DEF Row!Next
-----------------------------------------------------------------------------
(* The tick. *)

(* Where the requests of the checkbox stay, so does what is known of it.   *)
LEMMA TickKept ==
    ASSUME NEW x, TickInv(x), Row!Prop'["state"] = Row!Prop["state"], Slack("state") => Slack("state")',
           \A r \in tRequests : r.kind = "checkbox" => r \in tRequests'
    PROVE  TickInv(x)'
BY DEF TickInv, Sets

LEMMA StateKept ==
    ASSUME StateInv, tShown'["state"] = tShown["state"],
           Row!Prop'["state"] = Row!Prop["state"], Slack("state") => Slack("state")',
           \A r \in tRequests : r.kind = "checkbox" => r \in tRequests',
           \A r \in tRequests' : r.kind = "checkbox" => r \in tRequests
    PROVE  StateInv'
<1>1. LastClick' = LastClick
  BY DEF LastClick
<1>2. \A x : TickInv(x) => TickInv(x)'
  BY TickKept
<1>3. \A r \in LastClick' : TickInv(r.before.state)'
  BY <1>1, <1>2 DEF StateInv
<1>4. PICK x : x = tShown["state"]
  OBVIOUS
<1>5. TickInv(x)' \/ \E r \in LastClick' : Sets(r, x)
  BY <1>1, <1>2, <1>4 DEF StateInv
<1>6. x = tShown'["state"]
  BY <1>4
<1>7. TickInv(tShown["state"])' \/ \E r \in LastClick' : Sets(r, tShown'["state"])
  BY <1>5, <1>6
<1> QED
  BY <1>1, <1>3, <1>7 DEF StateInv

(* An excuse is enough, if at most one click is undisturbed.               *)
LEMMA StateExcused ==
    ASSUME Slack("state")', \A q, r \in LastClick' : q = r
    PROVE  StateInv'
BY DEF StateInv, TickInv

LEMMA StateChanged ==
    ASSUME \/ tShown'["state"] <=> Row!Prop'["state"] = "closed"
           \/ Slack("state")',
           LastClick' = {}
    PROVE  StateInv'
BY DEF StateInv, TickInv

LEMMA StateClicked ==
    ASSUME RowTypeInv, StateInv, Row!ClickCheckbox
    PROVE  StateInv'
<1>1. PICK r : /\ r.kind = "checkbox" /\ ~r.disturbed /\ r.answer = "none"
               /\ (r.changes["state"] = "closed" <=> tShown'["state"])
               /\ (r.before.state <=> tShown["state"])
               /\ r \in tRequests'
               /\ \A q \in tRequests : q.kind = "checkbox" =>
                     \E m \in tRequests' :
                         /\ m.kind = q.kind /\ m.changes = q.changes
                         /\ m.disturbed /\ m.answer = q.answer
               /\ \A m \in tRequests' : m # r => \E q \in tRequests :
                     IF q.kind = "checkbox" THEN m.disturbed ELSE m = q
  BY CheckboxSends
<1>2. LastClick' = {r}
  BY <1>1 DEF LastClick
<1>3. Row!Prop' = Row!Prop /\ (Slack("state") => Slack("state")')
  BY QuietSlack DEF Row!ClickCheckbox, Row!Fields
<1>4. ASSUME NEW x, TickInv(x) \/ \E q \in LastClick : Sets(q, x)
      PROVE  TickInv(x)'
  <2>1. CASE (x <=> Row!Prop["state"] = "closed") \/ Slack("state")
    BY <1>3, <2>1 DEF TickInv
  <2>2. ASSUME NEW q \in tRequests, q.kind = "checkbox", Sets(q, x)
        PROVE  TickInv(x)'
    <3>1. PICK m \in tRequests' : m.kind = "checkbox" /\ m.changes = q.changes /\ m.disturbed /\ m.answer = q.answer
      BY <1>1, <2>2
    <3>2. Sets(m, x)
      BY <2>2, <3>1 DEF Sets
    <3> QED
      BY <3>1, <3>2 DEF TickInv
  <2> QED
    BY <1>4, <2>1, <2>2 DEF TickInv, LastClick
<1>5. PICK y : y = tShown["state"]
  OBVIOUS
<1>6. TickInv(y)'
  BY <1>4, <1>5 DEF StateInv
<1>7. TickInv(r.before.state)'
  <2>1. r.before.state <=> y
    BY <1>1, <1>5
  <2> QED
    BY <1>6, <2>1 DEF TickInv, Sets
<1>8. Sets(r, tShown'["state"])
  BY <1>1 DEF Sets
<1> QED
  BY <1>2, <1>7, <1>8 DEF StateInv

(* A click that is handled has set the tick, or found another task.        *)
LEMMA StateHandled ==
    ASSUME RowTypeInv, StateInv, NEW r \in tRequests, Row!Handle(r)
    PROVE  StateInv'
<1>1. PICK a \in {"ok", "error"} : Row!Answer(r, a)
  BY HandleWrites
<1>2. PICK m : /\ tRequests' = (tRequests \ {r}) \cup {m}
               /\ m.kind = r.kind /\ m.changes = r.changes /\ m.before = r.before
               /\ (m.disturbed <=> r.disturbed) /\ m.answer = a
  <2>1. tSent' = tSent
    BY DEF Row!Handle
  <2> QED
    BY <1>1, <2>1, AnswerStep
<1>3. Row!Prop' = Row!Prop /\ tShown' = tShown /\ (Slack("state") => Slack("state")')
  BY HandleSlack DEF Row!Fields
<1>4. CASE r.kind # "checkbox"
  BY <1>2, <1>3, <1>4, StateKept
<1>5. CASE r.kind = "checkbox"
  <2>1. DOMAIN r.changes = {"state"}
    BY <1>5 DEF RowTypeInv, IsRequest, About
  <2>2. \A p, q \in LastClick' : p = q
    BY <1>2, <1>5 DEF LastClick, StateInv
  <2>3. CASE Slack("state")'
    BY <2>2, <2>3, StateExcused
  <2>4. CASE ~Slack("state")'
    <3>1. RowTypeInv'
      BY RowTypeStep DEF Row!Next
    <3>2. tStored'[Len(tStored')].task["state"] = Row!Prop["state"]
      BY <1>3, <2>4, <3>1, LatestComes DEF Row!Fields
    <3>3. "state" \in DOMAIN r.changes /\ "state" \in Row!Fields /\ ~Slack("state")
      BY <1>3, <2>1, <2>4 DEF Row!Fields
    <3>4. <<"state", "shifted">> \notin tBehind'
      BY <2>4, ReasonsOfAll DEF Slack, Excused
    <3>5. Row!Prop["state"] = r.changes["state"] /\ r.answer = "none"
      BY <3>2, <3>3, <3>4, HandleWrites, PlainChanges
    <3>6. \A x : Sets(r, x) => (x <=> Row!Prop["state"] = "closed")
      BY <3>5 DEF Sets
    <3>7. ASSUME NEW x, TickInv(x)
          PROVE  TickInv(x)'
      <4>1. CASE x <=> Row!Prop["state"] = "closed"
        BY <1>3, <4>1 DEF TickInv
      <4>2. ASSUME NEW q \in tRequests, q.kind = "checkbox" /\ q.disturbed /\ Sets(q, x), q # r
            PROVE  TickInv(x)'
        BY <1>2, <4>2 DEF TickInv, Sets
      <4> QED
        BY <3>3, <3>6, <3>7, <4>1, <4>2 DEF TickInv
    <3>8. \A q \in LastClick' : TickInv(q.before.state)'
      <4>1. ASSUME NEW q \in LastClick'
            PROVE  \E p \in LastClick : p.before.state = q.before.state
        BY <1>2, <4>1 DEF LastClick
      <4> QED
        BY <3>7, <4>1 DEF StateInv
    <3>9. PICK x : x = tShown["state"]
      OBVIOUS
    <3>10. TickInv(x)' \/ \E q \in LastClick' : Sets(q, x)
      <4>1. CASE TickInv(x)
        BY <3>7, <4>1
      <4>2. CASE x <=> Row!Prop["state"] = "closed"
        BY <1>3, <4>2 DEF TickInv
      <4>3. ASSUME NEW q \in LastClick, Sets(q, x), q # r
            PROVE  q \in LastClick' /\ Sets(q, x)
        BY <1>2, <4>3 DEF LastClick
      <4> QED
        BY <3>6, <3>9, <4>1, <4>2, <4>3 DEF StateInv
    <3>11. x = tShown'["state"]
      BY <1>3, <3>9
    <3>12. TickInv(tShown["state"])' \/ \E q \in LastClick' : Sets(q, tShown'["state"])
      BY <3>10, <3>11
    <3> QED
      BY <2>2, <3>8, <3>12 DEF StateInv
  <2> QED
    BY <2>3, <2>4
<1> QED
  BY <1>4, <1>5

LEMMA StateFailed ==
    ASSUME RowTypeInv, StateInv, NEW r \in tRequests, Row!Fail(r)
    PROVE  StateInv'
<1>1. PICK m : /\ tRequests' = (tRequests \ {r}) \cup {m}
               /\ m.kind = r.kind /\ m.changes = r.changes /\ m.before = r.before
               /\ (m.disturbed <=> r.disturbed) /\ m.answer = "error"
  BY AnswerStep DEF Row!Fail
<1>2. UNCHANGED <<tStored, tSeen, tShown, tBehind>>
  BY DEF Row!Fail
<1>3. Row!Prop' = Row!Prop /\ (Slack("state") => Slack("state")')
  BY <1>2, QuietSlack DEF Row!Fields
<1>4. CASE r.kind # "checkbox"
  BY <1>1, <1>2, <1>3, <1>4, StateKept
<1>5. CASE r.kind = "checkbox"
  <2>1. \A p, q \in LastClick' : p = q
    BY <1>1, <1>5 DEF LastClick, StateInv
  <2>2. \A x : Sets(m, x)
    BY <1>1 DEF Sets
  <2>3. ASSUME NEW x, TickInv(x)
        PROVE  TickInv(x)'
    <3>1. CASE (x <=> Row!Prop["state"] = "closed") \/ Slack("state")
      BY <1>3, <3>1 DEF TickInv
    <3>2. ASSUME NEW q \in tRequests, q.kind = "checkbox" /\ q.disturbed /\ Sets(q, x)
          PROVE  TickInv(x)'
      <4>1. CASE q # r
        BY <1>1, <3>2, <4>1 DEF TickInv
      <4>2. CASE q = r
        BY <1>1, <2>2, <3>2, <4>2 DEF TickInv
      <4> QED
        BY <4>1, <4>2
    <3> QED
      BY <2>3, <3>1, <3>2 DEF TickInv
  <2>4. \A q \in LastClick' : TickInv(q.before.state)'
    <3>1. ASSUME NEW q \in LastClick'
          PROVE  \E p \in LastClick : p.before.state = q.before.state
      BY <1>1, <3>1 DEF LastClick
    <3> QED
      BY <2>3, <3>1 DEF StateInv
  <2>5. PICK x : x = tShown["state"]
    OBVIOUS
  <2>6. TickInv(x)' \/ \E q \in LastClick' : Sets(q, x)
    <3>1. ASSUME NEW q \in LastClick, Sets(q, x)
          PROVE  \E p \in LastClick' : Sets(p, x)
      <4>1. CASE q # r
        BY <1>1, <3>1, <4>1 DEF LastClick
      <4>2. CASE q = r
        BY <1>1, <2>2, <3>1, <4>2 DEF LastClick
      <4> QED
        BY <4>1, <4>2
    <3> QED
      BY <2>3, <2>5, <3>1 DEF StateInv
  <2>7. x = tShown'["state"]
    BY <1>2, <2>5
  <2>8. TickInv(tShown["state"])' \/ \E q \in LastClick' : Sets(q, tShown'["state"])
    BY <2>6, <2>7
  <2> QED
    BY <2>1, <2>4, <2>8 DEF StateInv
<1> QED
  BY <1>4, <1>5

(* What fails takes the tick back to what it was before the click, which   *)
(* is the task's tick or what an earlier click has still to set.           *)
LEMMA StateAnswered ==
    ASSUME RowTypeInv, StateInv, NEW r \in tRequests, Row!Answered(r)
    PROVE  StateInv'
<1>1. /\ UNCHANGED <<tStored, tSeen>> /\ tBehind \subseteq tBehind'
      /\ tRequests' = tRequests \ {r} /\ tShown' = Row!TakenBack(r) /\ r.answer # "none"
  BY DEF Row!Answered
<1>2. Row!Prop' = Row!Prop /\ (Slack("state") => Slack("state")')
  BY <1>1, QuietSlack DEF Row!Fields
<1>3. LastClick' = LastClick \ {r} /\ \A p, q \in LastClick' : p = q
  BY <1>1 DEF LastClick, StateInv
<1>4. CASE r.kind # "checkbox"
  <2>1. tShown'["state"] = tShown["state"]
    BY <1>1, <1>4, TakenBackType DEF Row!Fields, Row!AssigneeFields
  <2> QED
    BY <1>1, <1>2, <1>4, <2>1, StateKept
<1>5. CASE r.kind = "checkbox" /\ r.answer = "ok"
  <2>1. tShown' = tShown
    BY <1>1, <1>5 DEF Row!TakenBack
  <2>2. \A x : ~Sets(r, x)
    BY <1>5 DEF Sets
  <2>3. ASSUME NEW x, TickInv(x)
        PROVE  TickInv(x)'
    BY <1>1, <1>2, <2>2, <2>3 DEF TickInv, Sets
  <2>4. \A q \in LastClick' : TickInv(q.before.state)'
    BY <1>3, <2>3 DEF StateInv
  <2>5. PICK x : x = tShown["state"]
    OBVIOUS
  <2>6. TickInv(x)' \/ \E q \in LastClick' : Sets(q, x)
    BY <1>3, <2>2, <2>3, <2>5 DEF StateInv
  <2>7. x = tShown'["state"]
    BY <2>1, <2>5
  <2>8. TickInv(tShown["state"])' \/ \E q \in LastClick' : Sets(q, tShown'["state"])
    BY <2>6, <2>7
  <2> QED
    BY <1>3, <2>4, <2>8 DEF StateInv
<1>6. CASE r.kind = "checkbox" /\ r.answer = "error" /\ r.disturbed
  <2>1. "state" \in DOMAIN r.changes
    BY <1>6 DEF RowTypeInv, IsRequest, About
  <2>2. <<"state", "revertedLate">> \in tBehind'
    BY <1>6, <2>1 DEF Row!Answered, Row!Marked
  <2>3. Slack("state")'
    BY <2>2 DEF Slack, Excused, Row!BehindIn
  <2> QED
    BY <1>3, <2>3, StateExcused
<1>7. CASE r.kind = "checkbox" /\ r.answer = "error" /\ ~r.disturbed
  <2>1. r \in LastClick
    BY <1>7 DEF LastClick
  <2>2. LastClick' = {}
    BY <1>3, <2>1 DEF StateInv
  <2>3. PICK x : x = r.before.state
    OBVIOUS
  <2>4. TickInv(x)
    BY <2>1, <2>3 DEF StateInv
  <2>5. TickInv(x)'
    BY <1>1, <1>2, <1>7, <2>4 DEF TickInv, Sets
  <2>6. tShown'["state"] <=> x
    <3>1. x \in BOOLEAN /\ Row!TakenBack(r) = [tShown EXCEPT !["state"] = x]
      BY <1>7, <2>3 DEF Row!TakenBack, RowTypeInv, IsRequest
    <3> QED
      BY <1>1, <2>3, <3>1 DEF RowTypeInv, Row!Fields
  <2>7. TickInv(tShown["state"])'
    BY <2>5, <2>6 DEF TickInv, Sets
  <2> QED
    BY <2>2, <2>7 DEF StateInv
<1>8. r.answer \in {"none", "ok", "error"}
  BY DEF RowTypeInv, IsRequest
<1> QED
  BY <1>1, <1>4, <1>5, <1>6, <1>7, <1>8

LEMMA StateDelivered ==
    ASSUME RowTypeInv, StateInv, NEW n \in 1 .. Len(tStored), Row!Deliver(n)
    PROVE  StateInv'
<1>1. CASE Row!Task(n)["state"] # Row!Prop["state"]
  <2>1. tShown'["state"] = Row!Local(Row!Prop')["state"]
    BY <1>1, DeliverBrings DEF Row!Fields
  <2>2. tShown'["state"] <=> Row!Prop'["state"] = "closed"
    BY <2>1 DEF Row!Local, Row!Fields
  <2>3. \A m \in tRequests' : m.kind = "checkbox" => m.disturbed
    BY <1>1, DeliverDisturbs
  <2>4. LastClick' = {}
    BY <2>3 DEF LastClick
  <2> QED
    BY <2>2, <2>4, StateChanged
<1>2. CASE Row!Task(n)["state"] = Row!Prop["state"]
  <2>1. /\ Row!Prop'["state"] = Row!Prop["state"] /\ tShown'["state"] = tShown["state"]
        /\ (Slack("state") => Slack("state")')
    BY <1>2, DeliverBrings DEF Row!Fields
  <2>2. \A q \in tRequests : q \in tRequests'
    BY <1>2, DeliverDisturbs
  <2>3. \A m \in tRequests' : m \in tRequests
    BY <1>2, DeliverDisturbs
  <2> QED
    BY <2>1, <2>2, <2>3, StateKept
<1> QED
  BY <1>1, <1>2

LEMMA StateStep ==
    ASSUME RowTypeInv, StateInv, [Row!Next]_Row!vars
    PROVE  StateInv'
<1>0. "state" \in Row!Fields /\ "state" \notin Row!Direct /\ "state" \notin Row!AssigneeFields
  BY DEF Row!Fields, Row!Direct, Row!AssigneeFields
<1>1. ASSUME NEW a \in Row!Assignees, Row!AssigneeChange(a)
      PROVE  StateInv'
  <2>1. tShown'["state"] = tShown["state"]
    BY <1>0, <1>1 DEF Row!AssigneeChange, RowTypeInv
  <2>2. PICK r : tRequests' = tRequests \cup {r} /\ r.kind = "assignee"
    <3>1. DOMAIN a \in About("assignee") /\ Choosable(a)
      BY AssigneeIsValue DEF About
    <3>2. Row!Send("assignee", a)
      BY <1>1 DEF Row!AssigneeChange
    <3> QED
      BY <3>1, <3>2, SendStep
  <2>3. UNCHANGED <<tStored, tSeen, tBehind>>
    BY <1>1 DEF Row!AssigneeChange
  <2> QED
    BY <1>0, <2>1, <2>2, <2>3, QuietSlack, StateKept
<1>2. ASSUME NEW v \in Values, Row!Type(v)
      PROVE  StateInv'
  <2>1. tShown'["state"] = tShown["state"]
    BY <1>0, <1>2 DEF Row!Type, RowTypeInv
  <2>2. UNCHANGED <<tStored, tSeen, tRequests, tBehind>>
    BY <1>2 DEF Row!Type
  <2> QED
    BY <1>0, <2>1, <2>2, QuietSlack, StateKept
<1>3. ASSUME NEW g \in Row!Direct, NEW v \in Values, Row!DirectChange(g, v)
      PROVE  StateInv'
  <2>1. tShown'["state"] = tShown["state"]
    BY <1>0, <1>3 DEF Row!DirectChange, RowTypeInv
  <2>2. PICK r : tRequests' = tRequests \cup {r} /\ r.kind = "direct"
    <3>1. DOMAIN [f \in {g} |-> v] \in About("direct") /\ Choosable([f \in {g} |-> v])
      BY DEF About, AnyValue, Choosable
    <3> QED
      BY <1>3, <3>1, SendStep DEF Row!DirectChange
  <2>3. UNCHANGED <<tStored, tSeen, tBehind>>
    BY <1>3 DEF Row!DirectChange
  <2> QED
    BY <1>0, <2>1, <2>2, <2>3, QuietSlack, StateKept
<1>4. CASE Row!ClickCheckbox
  BY <1>4, StateClicked
<1>5. CASE Row!SkipOrRestore
  <2>1. PICK one, two : tRequests' = tRequests \cup {one, two} /\ one.kind = "skip" /\ two.kind = "skip"
    BY <1>5, SkipSends
  <2>2. UNCHANGED <<tStored, tSeen, tShown, tBehind>>
    BY <1>5 DEF Row!SkipOrRestore
  <2> QED
    BY <1>0, <2>1, <2>2, QuietSlack, StateKept
<1>6. CASE Row!Edit
  BY <1>0, <1>6, QuietSlack, StateKept DEF Row!Edit
<1>7. CASE Row!handleSave
  <2>1. PICK r : tRequests' = tRequests \cup {r} /\ r.kind = "save"
    BY <1>7, SaveSends
  <2>2. UNCHANGED <<tStored, tSeen, tShown, tBehind>>
    BY <1>7 DEF Row!handleSave, Row!Save
  <2> QED
    BY <1>0, <2>1, <2>2, QuietSlack, StateKept
<1>8. CASE Row!onCancel
  <2>1. tShown'["state"] = tShown["state"]
    BY <1>0, <1>8 DEF Row!onCancel, RowTypeInv
  <2>2. UNCHANGED <<tStored, tSeen, tRequests, tBehind>>
    BY <1>8 DEF Row!onCancel
  <2> QED
    BY <1>0, <2>1, <2>2, QuietSlack, StateKept
<1>9. ASSUME NEW r \in tRequests, Row!Handle(r)
      PROVE  StateInv'
  BY <1>9, StateHandled
<1>10. ASSUME NEW r \in tRequests, Row!Fail(r)
       PROVE  StateInv'
  BY <1>10, StateFailed
<1>11. ASSUME NEW r \in tRequests, Row!Answered(r)
       PROVE  StateInv'
  BY <1>11, StateAnswered
<1>12. ASSUME NEW f \in Row!Fields, NEW v \in Row!ValuesOf(f), Row!OthersChange(f, v)
       PROVE  StateInv'
  <2>1. /\ UNCHANGED <<tSeen, tShown, tRequests, tBehind>>
        /\ \E w \in Version : tStored' = Append(tStored, w)
    BY <1>12, TypeOthersChange DEF Row!OthersChange
  <2> QED
    BY <1>0, <2>1, SlackStays, StateKept
<1>13. CASE Row!OthersDelete
  <2>1. /\ UNCHANGED <<tSeen, tShown, tRequests, tBehind>>
        /\ \E w \in Version : tStored' = Append(tStored, w)
    BY <1>13, TypeOthersDelete DEF Row!OthersDelete
  <2> QED
    BY <1>0, <2>1, SlackStays, StateKept
<1>14. ASSUME NEW n \in 1 .. Len(tStored), Row!Deliver(n)
       PROVE  StateInv'
  BY <1>14, StateDelivered
<1>15. CASE UNCHANGED Row!vars
  BY <1>0, <1>15, QuietSlack, StateKept DEF Row!vars
<1>16. ASSUME NEW a \in Row!Assignees, NEW id \in Values, Row!OthersAssign(a, id)
       PROVE  StateInv'
  <2>1. /\ UNCHANGED <<tSeen, tShown, tRequests, tBehind>>
        /\ \E w \in Version : tStored' = Append(tStored, w)
    BY <1>16, TypeOthersAssign DEF Row!OthersAssign
  <2> QED
    BY <1>0, <2>1, SlackStays, StateKept
<1> QED
  BY <1>1, <1>2, <1>3, <1>4, <1>5, <1>6, <1>7, <1>8, <1>9, <1>10, <1>11, <1>12, <1>13, <1>14,
         <1>15, <1>16
     DEF Row!Next

LEMMA RowInit == Row!Init => RowInv
<1> SUFFICES ASSUME Row!Init PROVE RowInv
  OBVIOUS
<1>1. tShown = Row!Local(Row!Prop) /\ tRequests = {}
  BY DEF Row!Init
<1>2. \A f \in Row!Fields : tShown[f] = IF f = "state" THEN Row!Prop[f] = "closed" ELSE Row!Prop[f]
  BY <1>1 DEF Row!Local
<1>3. \A f \in Row!AssigneeFields : AssigneeInv(f)
  BY <1>2, AssigneeIsApart DEF AssigneeInv, Right, Matches
<1>4. \A f \in Row!Direct \cup {"title"} : DirectInv(f)
  BY <1>2 DEF DirectInv, Right, Matches, Row!Fields, Row!Direct
<1>5. tShown["state"] <=> Row!Prop["state"] = "closed"
  BY <1>2 DEF Row!Fields
<1>6. StateInv
  BY <1>1, <1>5 DEF StateInv, TickInv, LastClick
<1> QED
  BY <1>3, <1>4, <1>6 DEF RowInv

LEMMA RowStep == RowTypeInv /\ RowInv /\ [Row!Next]_Row!vars => RowInv'
BY AssigneeStep, StateStep, DirectStep DEF RowInv, Plain

LEMMA RowAtRest ==
    ASSUME RowTypeInv, RowInv
    PROVE  Row!RowShowsTask
<1> SUFFICES ASSUME Row!Quiet, NEW f \in Row!Fields
             PROVE  \/ tShown[f] = Row!Local(Row!Prop)[f]
                    \/ f = "title" /\ tShown[f] = 0 /\ Row!Prop[f] = Row!Untitled
                    \/ \E reason \in Row!BehindIn(f) : <<f, reason>> \in tBehind
  BY DEF Row!RowShowsTask
<1>1. ~tEditing /\ tRequests = {} /\ tSeen = Len(tStored) /\ Len(tStored) \in Nat
  BY LastVersion DEF Row!Quiet
<1>2. ~ToCome(f)
  BY <1>1 DEF ToCome
<1>3. Slack(f) => \E reason \in Row!BehindIn(f) : <<f, reason>> \in tBehind
  BY <1>2 DEF Slack, Excused
<1>4. CASE f \in Row!AssigneeFields
  <2>1. AssigneeInv(f) /\ f # "state"
    BY <1>4, AssigneeIsApart DEF RowInv
  <2> QED
    BY <1>1, <1>3, <2>1 DEF AssigneeInv, Right, Matches, Row!Local
<1>5. CASE f = "state"
  <2>1. (tShown[f] <=> Row!Prop[f] = "closed") \/ Slack(f)
    BY <1>1, <1>5 DEF RowInv, StateInv, TickInv, LastClick
  <2>2. tShown[f] \in BOOLEAN /\ Row!Local(Row!Prop)[f] = (Row!Prop[f] = "closed")
    BY <1>5 DEF RowTypeInv, Row!Local
  <2> QED
    BY <1>3, <2>1, <2>2
<1>6. CASE f \in Row!Direct \cup {"title"}
  <2>1. DirectInv(f) /\ f # "state"
    BY <1>6 DEF RowInv, Row!Direct
  <2> QED
    BY <1>1, <1>3, <2>1 DEF DirectInv, Right, Matches, Row!Local
<1> QED
  BY <1>4, <1>5, <1>6 DEF Row!Fields

(* Once everything is answered and delivered the row of a task shows what  *)
(* the database has of each field, the tick of two endpoints and the form  *)
(* included, except where one of the named ways left it behind.            *)
THEOREM RowShowsItsTask == Row!Spec => []Row!RowShowsTask
<1> DEFINE Inv == RowTypeInv /\ RowInv
<1>1. Row!Init => Inv
  BY RowTypeInit, RowInit
<1>2. Inv /\ [Row!Next]_Row!vars => Inv'
  BY RowTypeStep, RowStep
<1>3. Inv => Row!RowShowsTask
  BY RowAtRest
<1> QED
  BY <1>1, <1>2, <1>3, PTL DEF Row!Spec

-----------------------------------------------------------------------------
(* What the user chose. *)

(* Requests for f that have not been handled.                              *)
OpenFor(f) == {r \in tRequests : r.answer = "none" /\ f \in DOMAIN r.changes}

Latest(f) == tStored[Len(tStored)].task[f]

Lost(f) == \E reason \in {"failed", "shifted", "overtaken", "others", "replaced"} : <<f, reason>> \in tLost

(* The last request that is not handled brings the choice; without one the *)
(* database has it.                                                        *)
ChoiceInv(f) ==
    \/ tChoice[f] = Unchosen \/ Lost(f)
    \/ OpenFor(f) = {} /\ Latest(f) = tChoice[f]
    \/ \E last \in OpenFor(f) : last.changes[f] = tChoice[f] /\ \A r \in OpenFor(f) : r.id <= last.id

(* Requests are told apart by their numbers.                               *)
Distinct == \A q, r \in tRequests : q.id = r.id => q = r

LEMMA ChoiceKept ==
    ASSUME NEW f, ChoiceInv(f), tChoice'[f] = tChoice[f],
           Lost(f) => Lost(f)', Latest(f)' = Latest(f),
           \A q \in OpenFor(f) : \E m \in OpenFor(f)' : m.id = q.id /\ m.changes = q.changes,
           \A m \in OpenFor(f)' : \E q \in OpenFor(f) : m.id = q.id /\ m.changes = q.changes
    PROVE  ChoiceInv(f)'
<1>1. CASE tChoice[f] = Unchosen \/ Lost(f)
  BY <1>1 DEF ChoiceInv
<1>2. CASE OpenFor(f) = {} /\ Latest(f) = tChoice[f]
  BY <1>2 DEF ChoiceInv
<1>3. ASSUME NEW last \in OpenFor(f), last.changes[f] = tChoice[f], \A r \in OpenFor(f) : r.id <= last.id
      PROVE  ChoiceInv(f)'
  <2>1. PICK m \in OpenFor(f)' : m.id = last.id /\ m.changes = last.changes
    BY <1>3
  <2>2. \A r \in OpenFor(f)' : r.id <= m.id
    BY <1>3, <2>1
  <2> QED
    BY <1>3, <2>1, <2>2 DEF ChoiceInv
<1> QED
  BY <1>1, <1>2, <1>3 DEF ChoiceInv

(* Where the database and the requests for f stay as they are.             *)
LEMMA ChoiceUntouched ==
    ASSUME NEW f, ChoiceInv(f), tChoice'[f] = tChoice[f],
           Lost(f) => Lost(f)', tStored' = tStored, OpenFor(f)' = OpenFor(f)
    PROVE  ChoiceInv(f)'
BY ChoiceKept DEF Latest

(* The newest request brings the choice.                                   *)
LEMMA ChoiceSent ==
    ASSUME RowTypeInv', NEW f, NEW r \in tRequests', r.answer = "none", f \in DOMAIN r.changes,
           r.changes[f] = tChoice'[f], r.id = tSent'
    PROVE  ChoiceInv(f)'
<1>1. \A q \in tRequests' : q.id <= r.id
  BY DEF RowTypeInv, IsRequest
<1> QED
  BY <1>1 DEF ChoiceInv, OpenFor

LEMMA ChooseKeepsOthers ==
    ASSUME RowTypeInv, NEW f \in Row!Fields, NEW v, Row!Choose(f, v), NEW g \in Row!Fields, g # f
    PROVE  tChoice'[g] = tChoice[g] /\ (Lost(g) => Lost(g)')
BY DEF Row!Choose, RowTypeInv, Lost

LEMMA ChosenIs ==
    ASSUME RowTypeInv, NEW f \in Row!Fields, NEW v, Row!Choose(f, v)
    PROVE  tChoice'[f] = v
BY DEF Row!Choose, RowTypeInv

(* A request that is about something else is not open for f.               *)
LEMMA OpenUntouched ==
    ASSUME NEW f, NEW r, tRequests' = tRequests \cup {r}, f \notin DOMAIN r.changes
    PROVE  OpenFor(f)' = OpenFor(f)
BY DEF OpenFor

(* A handler writes what the oldest open request brings.                   *)
LEMMA ChoiceHandled ==
    ASSUME RowTypeInv, Distinct, NEW f \in Row!Fields, ChoiceInv(f), NEW r \in tRequests, Row!Handle(r)
    PROVE  ChoiceInv(f)'
<1>1. PICK a \in {"ok", "error"} : Row!Answer(r, a)
  BY HandleWrites
<1>2. PICK m : tRequests' = (tRequests \ {r}) \cup {m} /\ m.answer = a
  <2>1. tSent' = tSent
    BY DEF Row!Handle
  <2> QED
    BY <1>1, <2>1, AnswerStep
<1>3. OpenFor(f)' = OpenFor(f) \ {r}
  BY <1>2 DEF OpenFor
<1>4. /\ tChoice' = tChoice /\ (Lost(f) => Lost(f)')
      /\ r.answer = "none"
  BY HandleWrites DEF Row!Handle, Lost
<1>5. CASE f \notin DOMAIN r.changes
  <2>1. Latest(f)' = Latest(f)
    BY <1>5, HandleWrites, LastVersion DEF Latest
  <2>2. OpenFor(f)' = OpenFor(f)
    BY <1>3, <1>5 DEF OpenFor
  <2> QED
    BY <1>4, <2>1, <2>2, ChoiceKept
<1>6. CASE f \in DOMAIN r.changes /\ <<f, "shifted">> \in tLost'
  BY <1>6 DEF ChoiceInv, Lost
<1>7. CASE f \in DOMAIN r.changes /\ <<f, "shifted">> \notin tLost'
  <2>1. r.changes[f] # Unchosen => Latest(f)' = r.changes[f]
    BY <1>7, HandleWrites DEF Latest
  <2>2. r \in OpenFor(f)
    BY <1>4, <1>7 DEF OpenFor
  <2>3. CASE tChoice[f] = Unchosen \/ Lost(f)
    BY <1>4, <2>3 DEF ChoiceInv
  <2>4. ASSUME NEW last \in OpenFor(f), last.changes[f] = tChoice[f], \A q \in OpenFor(f) : q.id <= last.id
        PROVE  ChoiceInv(f)'
    <3>1. CASE last # r
      BY <1>3, <1>4, <2>4, <3>1 DEF ChoiceInv
    <3>2. CASE last = r /\ OpenFor(f) = {r}
      <4>1. tChoice[f] = Unchosen \/ Latest(f)' = tChoice[f]
        BY <2>1, <2>4, <3>2
      <4> QED
        BY <1>3, <1>4, <3>2, <4>1 DEF ChoiceInv
    <3>3. CASE last = r /\ OpenFor(f) # {r}
      <4>1. PICK q \in OpenFor(f) : q # r
        BY <2>2, <3>3
      <4>2. q \in tRequests /\ q.answer = "none" /\ f \in DOMAIN q.changes
        BY DEF OpenFor
      <4>3. q.id \in Nat /\ r.id \in Nat /\ q.id # r.id
        BY <4>1, <4>2 DEF RowTypeInv, IsRequest, Distinct
      <4>4. q.id < r.id
        BY <2>4, <3>3, <4>3
      <4>5. <<f, "overtaken">> \in tLost'
        BY <1>7, <4>2, <4>4, HandleWrites
      <4> QED
        BY <4>5 DEF ChoiceInv, Lost
    <3> QED
      BY <3>1, <3>2, <3>3
  <2> QED
    BY <2>2, <2>3, <2>4 DEF ChoiceInv
<1> QED
  BY <1>5, <1>6, <1>7

LEMMA ChoiceFailed ==
    ASSUME RowTypeInv, NEW f \in Row!Fields, ChoiceInv(f), NEW r \in tRequests, Row!Fail(r)
    PROVE  ChoiceInv(f)'
<1>1. PICK m : tRequests' = (tRequests \ {r}) \cup {m} /\ m.answer = "error"
  BY AnswerStep DEF Row!Fail
<1>2. /\ UNCHANGED <<tStored, tChoice>>
      /\ tLost' = tLost \cup Row!Marked(r, "failed")
  BY DEF Row!Fail
<1>3. CASE f \in DOMAIN r.changes
  <2>1. <<f, "failed">> \in tLost'
    BY <1>2, <1>3 DEF Row!Marked
  <2> QED
    BY <2>1 DEF ChoiceInv, Lost
<1>4. CASE f \notin DOMAIN r.changes
  <2>1. OpenFor(f)' = OpenFor(f)
    BY <1>1, <1>4 DEF OpenFor
  <2>2. Lost(f) => Lost(f)'
    BY <1>2 DEF Lost
  <2> QED
    BY <1>2, <2>1, <2>2, ChoiceUntouched
<1> QED
  BY <1>3, <1>4

LEMMA ChoiceClicked ==
    ASSUME RowTypeInv, NEW f \in Row!Fields, ChoiceInv(f), Row!ClickCheckbox
    PROVE  ChoiceInv(f)'
<1>1. PICK r : /\ r.id = tSent + 1 /\ tSent' = tSent + 1
               /\ DOMAIN r.changes = {"state"} /\ r.changes["state"] = tChoice'["state"]
               /\ r.answer = "none" /\ r \in tRequests'
               /\ \A q \in tRequests : q.kind # "checkbox" => q \in tRequests'
               /\ \A q \in tRequests : q.kind = "checkbox" =>
                     \E m \in tRequests' :
                         /\ m.kind = q.kind /\ m.id = q.id /\ m.changes = q.changes
                         /\ m.before = q.before /\ m.disturbed /\ m.answer = q.answer
               /\ \A m \in tRequests' : m # r =>
                     \E q \in tRequests :
                         /\ m.kind = q.kind /\ m.id = q.id /\ m.changes = q.changes
                         /\ m.before = q.before /\ m.answer = q.answer
  BY CheckboxSends
<1>2. CASE f = "state"
  <2>1. RowTypeInv'
    BY TypeCheckbox
  <2> QED
    BY <1>1, <1>2, <2>1, ChoiceSent
<1>3. CASE f # "state"
  <2>1. tStored' = tStored /\ \E v : Row!Choose("state", v)
    BY DEF Row!ClickCheckbox
  <2>2. tChoice'[f] = tChoice[f] /\ (Lost(f) => Lost(f)')
    BY <1>3, <2>1, ChooseKeepsOthers DEF Row!Fields
  <2>3. \A q \in OpenFor(f) : \E m \in OpenFor(f)' : m.id = q.id /\ m.changes = q.changes
    BY <1>1 DEF OpenFor
  <2>4. \A m \in OpenFor(f)' : \E q \in OpenFor(f) : m.id = q.id /\ m.changes = q.changes
    BY <1>1, <1>3 DEF OpenFor
  <2> QED
    BY <2>1, <2>2, <2>3, <2>4, ChoiceKept DEF Latest
<1> QED
  BY <1>2, <1>3

LEMMA ChoiceSaved ==
    ASSUME RowTypeInv, NEW f \in Row!Fields, ChoiceInv(f), Row!handleSave
    PROVE  ChoiceInv(f)'
<1>1. PICK r : /\ tRequests' = tRequests \cup {r} /\ r.answer = "none"
               /\ r.id = tSent + 1 /\ tSent' = tSent + 1
               /\ r.changes = Form
  BY SaveSends
<1>2. PICK wanted : wanted = [tChoice EXCEPT !["title"] = IF tTyped = Unchosen THEN @ ELSE Row!finalTitle(tTyped)]
  OBVIOUS
<1>3. /\ tStored' = tStored /\ tChoice' = wanted
      /\ tLost' = {l \in tLost : l[1] # "title" \/ tTyped = Unchosen}
           \cup {<<g, "replaced">> : g \in {h \in {"title", "command"} :
                  (IF h = "title" THEN Row!finalTitle(tShown[h]) ELSE tShown[h]) # wanted[h]}}
  BY <1>2 DEF Row!handleSave, Row!Save
<1>4. CASE f \in {"title", "command"} /\ Form[f] # wanted[f]
  <2>1. Form[f] = IF f = "title" THEN Row!finalTitle(tShown[f]) ELSE tShown[f]
    BY <1>4 DEF Form
  <2>2. <<f, "replaced">> \in tLost'
    BY <1>3, <1>4, <2>1
  <2> QED
    BY <2>2 DEF ChoiceInv, Lost
<1>5. CASE f \in {"title", "command"} /\ Form[f] = wanted[f]
  <2>1. RowTypeInv'
    BY TypeSave
  <2>2. r \in tRequests' /\ f \in DOMAIN r.changes /\ r.changes[f] = tChoice'[f] /\ r.id = tSent'
    BY <1>1, <1>3, <1>5, FormIsValue
  <2> QED
    BY <1>1, <2>1, <2>2, ChoiceSent
<1>6. CASE f \notin {"title", "command"}
  <2>1. OpenFor(f)' = OpenFor(f)
    BY <1>1, <1>6, FormIsValue, OpenUntouched
  <2>2. Lost(f) => Lost(f)'
    BY <1>3, <1>6 DEF Lost
  <2>3. tChoice'[f] = tChoice[f]
    BY <1>2, <1>3, <1>6 DEF RowTypeInv
  <2> QED
    BY <1>3, <2>1, <2>2, <2>3, ChoiceUntouched
<1> QED
  BY <1>4, <1>5, <1>6

(* A step about other fields of the row leaves a choice as it is.          *)
LEMMA ChoiceStep ==
    ASSUME RowTypeInv, Distinct, NEW f \in Row!Fields, ChoiceInv(f), [Row!Next]_Row!vars
    PROVE  ChoiceInv(f)'
<1>0. RowTypeInv'
  BY RowTypeStep
<1>1. ASSUME NEW a \in Row!Assignees, Row!AssigneeChange(a)
      PROVE  ChoiceInv(f)'
  <2>1. DOMAIN a \in About("assignee") /\ Choosable(a) /\ DOMAIN a = Row!AssigneeFields
    BY AssigneeIsValue DEF About
  <2>2. PICK r : /\ tRequests' = tRequests \cup {r} /\ tSent' = tSent + 1 /\ r.id = tSent + 1
                 /\ r.changes = a /\ r.answer = "none"
    <3>1. Row!Send("assignee", a)
      BY <1>1 DEF Row!AssigneeChange
    <3> QED
      BY <2>1, <3>1, SendStep
  <2>3. /\ tStored' = tStored
        /\ tChoice'[f] = IF f \in Row!AssigneeFields THEN a[f] ELSE tChoice[f]
        /\ tLost' = {l \in tLost : l[1] \notin Row!AssigneeFields}
    BY <1>1 DEF Row!AssigneeChange
  <2>4. CASE f \in Row!AssigneeFields
    BY <1>0, <2>1, <2>2, <2>3, <2>4, ChoiceSent
  <2>5. CASE f \notin Row!AssigneeFields
    <3>1. OpenFor(f)' = OpenFor(f)
      BY <2>1, <2>2, <2>5, OpenUntouched
    <3>2. Lost(f) => Lost(f)'
      BY <2>3, <2>5 DEF Lost
    <3> QED
      BY <2>3, <2>5, <3>1, <3>2, ChoiceUntouched
  <2> QED
    BY <2>4, <2>5
<1>2. ASSUME NEW v \in Values, Row!Type(v)
      PROVE  ChoiceInv(f)'
  <2>1. UNCHANGED <<tStored, tRequests, tChoice, tLost>>
    BY <1>2 DEF Row!Type
  <2> QED
    BY <2>1, ChoiceUntouched DEF OpenFor, Lost
<1>3. ASSUME NEW g \in Row!Direct, NEW v \in Values, Row!DirectChange(g, v)
      PROVE  ChoiceInv(f)'
  <2>1. DOMAIN [h \in {g} |-> v] \in About("direct") /\ Choosable([h \in {g} |-> v])
    BY DEF About, AnyValue, Choosable
  <2>2. PICK r : /\ tRequests' = tRequests \cup {r} /\ tSent' = tSent + 1 /\ r.id = tSent + 1
                 /\ r.changes = [h \in {g} |-> v] /\ r.answer = "none"
    BY <1>3, <2>1, SendStep DEF Row!DirectChange
  <2>3. UNCHANGED tStored /\ Row!Choose(g, v) /\ g \in Row!Fields
    BY <1>3 DEF Row!DirectChange, Row!Fields
  <2>4. CASE f = g
    <3>1. tChoice'[f] = v
      BY <2>3, <2>4, ChosenIs
    <3> QED
      BY <1>0, <2>2, <2>4, <3>1, ChoiceSent
  <2>5. CASE f # g
    <3>1. OpenFor(f)' = OpenFor(f)
      BY <2>2, <2>5, OpenUntouched
    <3>2. tChoice'[f] = tChoice[f] /\ (Lost(f) => Lost(f)')
      BY <2>3, <2>5, ChooseKeepsOthers
    <3> QED
      BY <2>3, <3>1, <3>2, ChoiceUntouched
  <2> QED
    BY <2>4, <2>5
<1>4. CASE Row!ClickCheckbox
  BY <1>4, ChoiceClicked
<1>5. CASE Row!SkipOrRestore
  <2>1. PICK one, two :
           /\ tRequests' = tRequests \cup {one, two} /\ tSent' = tSent + 2
           /\ one.id = tSent + 1 /\ two.id = tSent + 2
           /\ DOMAIN one.changes = {"state"} /\ two.changes = one.changes
           /\ one.changes["state"] = tChoice'["state"]
           /\ one.answer = "none" /\ two.answer = "none"
    BY <1>5, SkipSends
  <2>2. UNCHANGED tStored /\ \E v : Row!Choose("state", v)
    BY <1>5 DEF Row!SkipOrRestore
  <2>3. CASE f = "state"
    <3>1. two \in tRequests' /\ two.id = tSent' /\ two.answer = "none"
          /\ f \in DOMAIN two.changes /\ two.changes[f] = tChoice'[f]
      BY <2>1, <2>3
    <3> QED
      BY <1>0, <3>1, ChoiceSent
  <2>4. CASE f # "state"
    <3>1. OpenFor(f)' = OpenFor(f)
      BY <2>1, <2>4 DEF OpenFor
    <3>2. tChoice'[f] = tChoice[f] /\ (Lost(f) => Lost(f)')
      BY <2>2, <2>4, ChooseKeepsOthers DEF Row!Fields
    <3> QED
      BY <2>2, <3>1, <3>2, ChoiceUntouched
  <2> QED
    BY <2>3, <2>4
<1>6. CASE Row!Edit
  <2>1. UNCHANGED <<tStored, tRequests, tChoice, tLost>>
    BY <1>6 DEF Row!Edit
  <2> QED
    BY <2>1, ChoiceUntouched DEF OpenFor, Lost
<1>7. CASE Row!handleSave
  BY <1>7, ChoiceSaved
<1>8. CASE Row!onCancel
  <2>1. UNCHANGED <<tStored, tRequests, tChoice, tLost>>
    BY <1>8 DEF Row!onCancel
  <2> QED
    BY <2>1, ChoiceUntouched DEF OpenFor, Lost
<1>9. ASSUME NEW r \in tRequests, Row!Handle(r)
      PROVE  ChoiceInv(f)'
  BY <1>9, ChoiceHandled
<1>10. ASSUME NEW r \in tRequests, Row!Fail(r)
       PROVE  ChoiceInv(f)'
  BY <1>10, ChoiceFailed
<1>11. ASSUME NEW r \in tRequests, Row!Answered(r)
       PROVE  ChoiceInv(f)'
  <2>1. UNCHANGED <<tStored, tChoice, tLost>> /\ r.answer # "none" /\ tRequests' = tRequests \ {r}
    BY <1>11 DEF Row!Answered
  <2> QED
    BY <2>1, ChoiceUntouched DEF OpenFor, Lost
<1>12. ASSUME NEW g \in Row!Fields, NEW v \in Row!ValuesOf(g), Row!OthersChange(g, v)
       PROVE  ChoiceInv(f)'
  <2>1. /\ UNCHANGED <<tRequests, tChoice>> /\ tLost' = tLost \cup {<<g, "others">>}
    BY <1>12 DEF Row!OthersChange
  <2>2. PICK w \in Version : tStored' = Append(tStored, w) /\ \A h \in Row!Fields \ {g} : w.task[h] = Row!Last(tStored).task[h]
    BY <1>12, TypeOthersChange
  <2>3. CASE f = g
    <3>1. <<f, "others">> \in tLost'
      BY <2>1, <2>3
    <3> QED
      BY <3>1 DEF ChoiceInv, Lost
  <2>4. CASE f # g
    <3>1. Latest(f)' = Latest(f)
      BY <2>2, <2>4, OneMoreVersion, LastVersion DEF Latest
    <3>2. OpenFor(f)' = OpenFor(f) /\ (Lost(f) => Lost(f)')
      BY <2>1 DEF OpenFor, Lost
    <3> QED
      BY <2>1, <3>1, <3>2, ChoiceKept
  <2> QED
    BY <2>3, <2>4
<1>13. CASE Row!OthersDelete
  <2>1. UNCHANGED <<tRequests, tChoice, tLost>>
    BY <1>13 DEF Row!OthersDelete
  <2>2. Latest(f)' = Latest(f)
    BY <1>13, TypeOthersDelete, OneMoreVersion, LastVersion DEF Latest
  <2>3. OpenFor(f)' = OpenFor(f) /\ (Lost(f) => Lost(f)')
    BY <2>1 DEF OpenFor, Lost
  <2> QED
    BY <2>1, <2>2, <2>3, ChoiceKept
<1>14. ASSUME NEW n \in 1 .. Len(tStored), Row!Deliver(n)
       PROVE  ChoiceInv(f)'
  <2>1. UNCHANGED <<tStored, tChoice, tLost>>
    BY <1>14 DEF Row!Deliver
  <2>2. \A q \in OpenFor(f) : \E m \in OpenFor(f)' : m.id = q.id /\ m.changes = q.changes
    BY <1>14, DeliverDisturbs DEF OpenFor
  <2>3. \A m \in OpenFor(f)' : \E q \in OpenFor(f) : m.id = q.id /\ m.changes = q.changes
    BY <1>14, DeliverDisturbs DEF OpenFor
  <2> QED
    BY <2>1, <2>2, <2>3, ChoiceKept DEF Latest, Lost
<1>15. CASE UNCHANGED Row!vars
  BY <1>15, ChoiceUntouched DEF Row!vars, OpenFor, Lost
<1>16. ASSUME NEW a \in Row!Assignees, NEW id \in Values, Row!OthersAssign(a, id)
       PROVE  ChoiceInv(f)'
  <2>1. /\ UNCHANGED <<tRequests, tChoice>>
        /\ tLost' = tLost \cup {<<g, "others">> : g \in Row!AssigneeFields}
    BY <1>16 DEF Row!OthersAssign
  <2>2. PICK w \in Version : /\ tStored' = Append(tStored, w)
                            /\ \A h \in Row!Fields \ Row!AssigneeFields : w.task[h] = Row!Last(tStored).task[h]
    BY <1>16, TypeOthersAssign
  <2>3. CASE f \in Row!AssigneeFields
    <3>1. <<f, "others">> \in tLost'
      BY <2>1, <2>3
    <3> QED
      BY <3>1 DEF ChoiceInv, Lost
  <2>4. CASE f \notin Row!AssigneeFields
    <3>1. Latest(f)' = Latest(f)
      BY <2>2, <2>4, OneMoreVersion, LastVersion DEF Latest
    <3>2. OpenFor(f)' = OpenFor(f) /\ (Lost(f) => Lost(f)')
      BY <2>1 DEF OpenFor, Lost
    <3> QED
      BY <2>1, <3>1, <3>2, ChoiceKept
  <2> QED
    BY <2>3, <2>4
<1> QED
  BY <1>1, <1>2, <1>3, <1>4, <1>5, <1>6, <1>7, <1>8, <1>9, <1>10, <1>11, <1>12, <1>13, <1>14,
         <1>15, <1>16
     DEF Row!Next

(* What disturbs requests leaves their numbers.                            *)
LEMMA DisturbKeepsNumbers ==
    ASSUME RowTypeInv, Distinct, NEW d,
           \A q \in tRequests : d[q] = q \/ d[q] = [q EXCEPT !.disturbed = TRUE]
    PROVE  /\ \A q \in tRequests : d[q].id = q.id
           /\ \A p, q \in {d[r] : r \in tRequests} : p.id = q.id => p = q
<1>1. ASSUME NEW q \in tRequests
      PROVE  d[q].id = q.id
  <2>1. PICK m : m = [q EXCEPT !.disturbed = TRUE]
    OBVIOUS
  <2>2. m.id = q.id
    BY <2>1, DisturbKeepsRequest DEF RowTypeInv
  <2>3. d[q] = q \/ d[q] = m
    BY <2>1
  <2> QED
    BY <2>2, <2>3
<1>2. ASSUME NEW p \in tRequests, NEW q \in tRequests, d[p].id = d[q].id
      PROVE  d[p] = d[q]
  BY <1>1, <1>2 DEF Distinct
<1> QED
  BY <1>1, <1>2

LEMMA SentIsDistinct ==
    ASSUME RowTypeInv, Distinct, NEW r, tRequests' = tRequests \cup {r}, r.id = tSent + 1
    PROVE  Distinct'
BY DEF Distinct, RowTypeInv, IsRequest

LEMMA AnsweredIsDistinct ==
    ASSUME Distinct, NEW r \in tRequests, NEW m, tRequests' = (tRequests \ {r}) \cup {m}, m.id = r.id
    PROVE  Distinct'
BY DEF Distinct

LEMMA DistinctStep ==
    ASSUME RowTypeInv, Distinct, [Row!Next]_Row!vars
    PROVE  Distinct'
<1>1. ASSUME NEW a \in Row!Assignees, Row!AssigneeChange(a)
      PROVE  Distinct'
  <2>1. DOMAIN a \in About("assignee") /\ Choosable(a)
    BY AssigneeIsValue DEF About
  <2> QED
    BY <1>1, <2>1, SendStep, SentIsDistinct DEF Row!AssigneeChange
<1>2. ASSUME NEW g \in Row!Direct, NEW v \in Values, Row!DirectChange(g, v)
      PROVE  Distinct'
  <2>1. DOMAIN [h \in {g} |-> v] \in About("direct") /\ Choosable([h \in {g} |-> v])
    BY DEF About, AnyValue, Choosable
  <2> QED
    BY <1>2, <2>1, SendStep, SentIsDistinct DEF Row!DirectChange
<1>3. CASE Row!ClickCheckbox
  <2>1. PICK d : d = [r \in tRequests |-> IF r.kind = "checkbox" THEN [r EXCEPT !.disturbed = TRUE] ELSE r]
    OBVIOUS
  <2>2. \A q \in tRequests : d[q] = q \/ d[q] = [q EXCEPT !.disturbed = TRUE]
    BY <2>1
  <2>3. PICK new : tRequests' = {d[r] : r \in tRequests} \cup {new} /\ new.id = tSent + 1
    <3>1. PICK changes : tRequests' = {d[r] : r \in tRequests} \cup {Row!Request("checkbox", tSent + 1, changes)}
      BY <1>3, <2>1 DEF Row!ClickCheckbox
    <3>2. PICK new : new = Row!Request("checkbox", tSent + 1, changes)
      OBVIOUS
    <3>3. new.id = tSent + 1
      BY <3>2 DEF Row!Request
    <3> QED
      BY <3>1, <3>2, <3>3
  <2>4. /\ \A q \in tRequests : d[q].id = q.id
        /\ \A p, q \in {d[r] : r \in tRequests} : p.id = q.id => p = q
    BY <2>2, DisturbKeepsNumbers
  <2>5. \A q \in {d[r] : r \in tRequests} : q.id # tSent + 1
    BY <2>4 DEF RowTypeInv, IsRequest
  <2> QED
    BY <2>3, <2>4, <2>5 DEF Distinct
<1>4. CASE Row!SkipOrRestore
  <2>1. PICK one, two : /\ tRequests' = tRequests \cup {one, two}
                        /\ one.id = tSent + 1 /\ two.id = tSent + 2
    BY <1>4, SkipSends
  <2> QED
    BY <2>1 DEF Distinct, RowTypeInv, IsRequest
<1>5. CASE Row!handleSave
  BY <1>5, SaveSends, SentIsDistinct
<1>6. ASSUME NEW r \in tRequests, Row!Handle(r) \/ Row!Fail(r)
      PROVE  Distinct'
  <2>1. \E a \in {"none", "ok", "error"} : Row!Answer(r, a) /\ tSent' = tSent
    BY <1>6, HandleWrites DEF Row!Handle, Row!Fail
  <2> QED
    BY <2>1, AnswerStep, AnsweredIsDistinct
<1>7. ASSUME NEW r \in tRequests, Row!Answered(r)
      PROVE  Distinct'
  BY <1>7 DEF Row!Answered, Distinct
<1>8. ASSUME NEW n \in 1 .. Len(tStored), Row!Deliver(n)
      PROVE  Distinct'
  <2> DEFINE changed == {f \in Row!Fields : Row!Task(n)[f] # Row!Prop[f]}
  <2>1. PICK d : d = [r \in tRequests |-> IF r.kind = "checkbox" /\ "state" \in changed
                                         THEN [r EXCEPT !.disturbed = TRUE] ELSE r]
    OBVIOUS
  <2>2. \A q \in tRequests : d[q] = q \/ d[q] = [q EXCEPT !.disturbed = TRUE]
    BY <2>1
  <2>3. tRequests' = {d[r] : r \in tRequests}
    BY <1>8, <2>1 DEF Row!Deliver
  <2>4. \A p, q \in {d[r] : r \in tRequests} : p.id = q.id => p = q
    BY <2>2, DisturbKeepsNumbers
  <2> QED
    BY <2>3, <2>4 DEF Distinct
<1>9. CASE UNCHANGED tRequests
  BY <1>9 DEF Distinct
<1> QED
  BY <1>1, <1>2, <1>3, <1>4, <1>5, <1>6, <1>7, <1>8, <1>9
     DEF Row!Next, Row!Type, Row!Edit, Row!onCancel, Row!OthersChange, Row!OthersAssign,
         Row!OthersDelete, Row!vars

(* Once all is answered the database has what the user chose last for each *)
(* field of a task, unless the request failed, met another task, was       *)
(* overtaken, another user changed the field, or the form was refilled.    *)
THEOREM ChoicesReachStore == Row!Spec => []Row!ChoicesStored
<1> DEFINE Inv == RowTypeInv /\ Distinct /\ \A f \in Row!Fields : ChoiceInv(f)
<1>1. Row!Init => Inv
  <2>1. Row!Init => Distinct /\ \A f \in Row!Fields : ChoiceInv(f)
    BY DEF Row!Init, Distinct, ChoiceInv
  <2> QED
    BY <2>1, RowTypeInit
<1>2. Inv /\ [Row!Next]_Row!vars => Inv'
  BY RowTypeStep, DistinctStep, ChoiceStep
<1>3. Inv => Row!ChoicesStored
  <2> SUFFICES ASSUME Inv, Row!Quiet, NEW f \in Row!Fields
               PROVE  tChoice[f] \in {Unchosen, Row!Prop[f]} \/ Lost(f)
    BY DEF Row!ChoicesStored, Lost
  <2>1. ~tEditing /\ tRequests = {} /\ tSeen = Len(tStored)
    BY DEF Row!Quiet
  <2>2. OpenFor(f) = {} /\ Latest(f) = Row!Prop[f]
    BY <2>1 DEF OpenFor, Latest, Row!Prop, Row!Task
  <2>3. ChoiceInv(f)
    OBVIOUS
  <2> QED
    BY <2>1, <2>2, <2>3 DEF ChoiceInv
<1> QED
  BY <1>1, <1>2, <1>3, PTL DEF Row!Spec

-----------------------------------------------------------------------------
(* Whatever screen is shown and whichever fields may change, the row takes *)
(* steps of TaskRow.                                                       *)
LEMMA RowRuns == MCSpec => Row!Spec
<1>1. MCInit => Row!Init
  BY DEF MCInit
<1>2. [MCNext]_<<screen, vars, sidebarVars, taskVars>> => [Row!Next]_Row!vars
  BY DEF MCNext, RowNext, taskVars, Row!vars
<1> QED
  BY <1>1, <1>2, PTL DEF MCSpec, Row!Spec

(* So it shows its task at rest beside the lists (RowShowsItsTask).        *)
THEOREM RowBesideLists == MCSpec => []RowShowsTask
BY RowRuns, RowShowsItsTask, PTL DEF RowShowsTask

(* And what the user chose for it is stored (ChoicesReachStore).           *)
THEOREM ChoicesBesideLists == MCSpec => []ChoicesStored
BY RowRuns, ChoicesReachStore, PTL DEF ChoicesStored

-----------------------------------------------------------------------------
(* The sidebar of a channel.  BarTypeInv: what its parts are; a query for  *)
(* a later page is made only after an answer for its list.                 *)

SidebarRun == 1 .. MaxRuns

Data == [known : BOOLEAN, edges : Seq(SidebarRun), next : Nat, more : BOOLEAN]

Page == [items : Seq(SidebarRun), more : BOOLEAN]

Request == [key : Sidebar!Keys, page : Nat, step : {"sent", "done"}, answer : Page]

BarTypeInv ==
    /\ sServer \in [SidebarRun -> [channel : Channels \cup {"none"}, state : Sidebar!State]]
    /\ sChannel \in Channels
    /\ sOptions \in [sort : {"create_at", "name"}, filter : Sidebar!State]
    /\ sCache \in [Sidebar!Keys -> Data]
    /\ sRequests \subseteq Request
    /\ sCurrent \in SidebarRun \cup {Sidebar!None}
    /\ sCheckedFor \in Channels \cup {"none"}
    /\ sCreating \in [from : Channels, to : Channels, run : SidebarRun \cup {Sidebar!None},
                      step : {"none", "sent", "done"}]
    /\ sCreating.step = "done" => sCreating.run \in SidebarRun
    /\ sMoving \in [run : SidebarRun \cup {Sidebar!None}, to : Channels,
                    phase : {"none", "removed", "sent", "done"}]
    /\ sMoving.phase # "none" => sMoving.run \in SidebarRun /\ "moved" \in sWhy
    /\ sCreated \in SidebarRun \cup {Sidebar!None}
    /\ sTouched \in BOOLEAN

(* The runs in progress of a channel, as they are listed first.            *)
Active(ch) == Sidebar!Key(ch, "create_at", "InProgress")

(* Lists the user has seen are known, and are looked at once.              *)
LooksInv ==
    /\ \A k \in Sidebar!Keys : sCache[k].more => sCache[k].known
    /\ \A q \in sRequests : /\ q.page > 0 => sCache[q.key].known
                            /\ q.page = 0 => Len(q.answer.items) <= PageSize
    /\ sOptions.sort # "create_at" => sCache[Active(sChannel)].known
    /\ sCreating.step # "none" => sCache[Active(sCreating.from)].known
    /\ sCache[Active(sChannel)].known => sCheckedFor = sChannel
    /\ sCreating.step = "sent" => sCreating.from = sChannel \/ "leftCreating" \in sWhy
    /\ sWhy \cap {"visitedBefore"} = {} /\ sCheckedFor # "none" => sCache[Active(sCheckedFor)].known

(* Nothing happened since the channel was entered.                         *)
Untouched ==
    /\ ~sTouched
    /\ sWhy \cap {"visitedBefore", "others", "joined", "leftCreating", "moved"} = {}
    /\ ~(sCreating.step = "done" /\ sCreating.from = sChannel /\ sCreating.to = sChannel)

(* The answer for the list of the channel is still to come, or the single  *)
(* run, if there is one, was opened.                                       *)
SingleInv ==
    LET k == Active(sChannel)
    IN  Untouched =>
        /\ \A q \in sRequests : q.key = k /\ q.page = 0 /\ q.step = "done" =>
             q.answer = Sidebar!GetRuns(k, 0)
        /\ ~sCache[k].known =>
             /\ \E q \in sRequests : q.key = k /\ q.page = 0
             /\ sOptions.sort = "create_at" /\ sCheckedFor # sChannel
        /\ sCache[k].known /\ Len(Sidebar!View(k)) # 1 => sCurrent = Sidebar!None
        /\ sCache[k].known /\ Len(Sidebar!View(k)) = 1 =>
             /\ sCurrent = Sidebar!View(k)[1] /\ sCurrent \in ToSet(sCache[k].edges)
             /\ sOptions.sort = "create_at"
             /\ \A q \in sRequests : q.key = k => q.page = 0

OpenInv ==
    sCreated # Sidebar!None =>
        /\ sCurrent = sCreated /\ sCheckedFor = sChannel
        /\ sCreating.step # "none" => sCreating.from = sChannel

(* The runs of the list as it is sorted are not about to change without    *)
(* being asked for again.                                                  *)
Settled ==
    /\ sCreated # Sidebar!None
    /\ sWhy \cap {"joined", "sortJoined", "others"} = {}
    /\ ~(sCreating.step = "done" /\ sCreating.to = sChannel)
    /\ sMoving.phase # "done"

(* What was created is on the first page, or will be.                      *)
CreatedInv ==
    LET k == Sidebar!Key(sChannel, sOptions.sort, "InProgress")
    IN  Settled /\ sCreated \in ToSet(Sidebar!GetRuns(k, 0).items) =>
        /\ \/ \E q \in sRequests : q.key = k /\ q.page = 0
           \/ \E n \in 1 .. Len(sCache[k].edges) : n <= PageSize /\ sCache[k].edges[n] = sCreated
        /\ \A q \in sRequests : q.key = k /\ q.page = 0 /\ q.step = "done" =>
              sCreated \in ToSet(q.answer.items)

BarInv == BarTypeInv /\ LooksInv /\ SingleInv /\ OpenInv /\ CreatedInv

-----------------------------------------------------------------------------
(* What the server answers.                                                *)

Rows == [SidebarRun -> [channel : Channels \cup {"none"}, state : Sidebar!State]]

(* Words of libraries, as the sidebar has them.                            *)
LEMMA SidebarWords ==
    /\ \A S : Sidebar!Cardinality(S) = Cardinality(S)
    /\ \A s : Sidebar!ToSet(s) = ToSet(s)
BY DEF Cardinality, Sidebar!Cardinality, ToSet, Sidebar!ToSet

(* In a finite set of numbers there is one with n - 1 before it.           *)
LEMMA RankExists ==
    ASSUME NEW S, IsFiniteSet(S), S \subseteq Nat, NEW up \in BOOLEAN, NEW n \in 1 .. Cardinality(S)
    PROVE  \E r \in S : Cardinality({q \in S : IF up THEN q < r ELSE q > r}) = n - 1
<1> DEFINE B(r) == {q \in S : IF up THEN q < r ELSE q > r}
           f == [r \in S |-> Cardinality(B(r)) + 1]
<1>1. Cardinality(S) \in Nat
  BY FS_CardinalityType
<1>2. ASSUME NEW r \in S PROVE IsFiniteSet(B(r)) /\ Cardinality(B(r)) \in Nat /\ B(r) \subseteq S \ {r}
  <2>1. B(r) \in SUBSET S /\ r \notin B(r)
    OBVIOUS
  <2>2. IsFiniteSet(B(r))
    BY <2>1, FS_Subset
  <2> QED BY <2>1, <2>2, FS_CardinalityType
<1>3. ASSUME NEW r \in S PROVE Cardinality(B(r)) + 1 \in 1 .. Cardinality(S)
  <2>1. IsFiniteSet(S \ {r}) /\ Cardinality(S \ {r}) = Cardinality(S) - 1
    BY FS_RemoveElement
  <2>2. B(r) \in SUBSET (S \ {r})
    BY <1>2
  <2>3. Cardinality(B(r)) <= Cardinality(S \ {r})
    BY <2>1, <2>2, FS_Subset
  <2> HIDE DEF B
  <2> QED BY <1>1, <1>2, <2>1, <2>3
<1>4. ASSUME NEW r \in S, NEW t \in S, IF up THEN r < t ELSE r > t
      PROVE  Cardinality(B(r)) < Cardinality(B(t))
  <2>1. B(r) \cup {r} \in SUBSET B(t)
    <3>1. r \in Nat /\ t \in Nat /\ \A q \in S : q \in Nat
      OBVIOUS
    <3>2. ASSUME NEW q \in B(r) \cup {r} PROVE q \in B(t)
      <4>1. q \in S /\ q \in Nat /\ (IF up THEN q < t ELSE q > t)
        BY <1>4, <3>1, <3>2
      <4> QED BY <4>1
    <3> QED BY <3>2
  <2>2. Cardinality(B(r) \cup {r}) = Cardinality(B(r)) + 1
    BY <1>2, FS_AddElement
  <2>3. Cardinality(B(r) \cup {r}) <= Cardinality(B(t))
    BY <1>2, <2>1, FS_Subset
  <2> HIDE DEF B
  <2> QED BY <1>2, <2>2, <2>3
<1>5. f \in Injection(S, 1 .. Cardinality(S))
  <2>1. f \in [S -> 1 .. Cardinality(S)]
    BY <1>3
  <2>2. ASSUME NEW r \in S, NEW t \in S, r # t PROVE f[r] # f[t]
    <3>1. r \in Nat /\ t \in Nat
      OBVIOUS
    <3>2. (IF up THEN r < t ELSE r > t) \/ (IF up THEN t < r ELSE t > r)
      BY <2>2, <3>1
    <3>3. Cardinality(B(r)) < Cardinality(B(t)) \/ Cardinality(B(t)) < Cardinality(B(r))
      BY <1>4, <3>2
    <3>4. f[r] = Cardinality(B(r)) + 1 /\ f[t] = Cardinality(B(t)) + 1
      OBVIOUS
    <3> HIDE DEF B, f
    <3> QED BY <1>2, <3>3, <3>4
  <2> HIDE DEF f
  <2> QED BY <2>1, <2>2 DEF Injection, IsInjective
<1>6. IsFiniteSet(1 .. Cardinality(S)) /\ Cardinality(1 .. Cardinality(S)) = Cardinality(S)
  BY <1>1, FS_Interval
<1>7. f \in Surjection(S, 1 .. Cardinality(S))
  <2> HIDE DEF f
  <2> QED BY <1>5, <1>6, FS_Injection
<1>8. PICK r \in S : f[r] = n
  <2> HIDE DEF f
  <2> QED BY <1>7 DEF Surjection
<1>9. Cardinality(B(r)) + 1 = n
  BY <1>8
<1>10. Cardinality(B(r)) = n - 1
  <2> HIDE DEF B
  <2> QED BY <1>2, <1>9
<1> QED BY <1>10

LEMMA ViewIs ==
    ASSUME sServer \in Rows, NEW k \in Sidebar!Keys
    PROVE  Sidebar!View(k) \in Seq(SidebarRun)
<1>1. Sidebar!Here(k) \subseteq SidebarRun /\ Sidebar!Here(k) \in SUBSET (1 .. MaxRuns)
  BY SidebarAssumption DEF Sidebar!Here, SidebarRun
<1>2. IsFiniteSet(Sidebar!Here(k)) /\ Sidebar!Here(k) \subseteq Nat
  <2>1. IsFiniteSet(1 .. MaxRuns)
    <3>1. 1 \in Int /\ MaxRuns \in Int
      BY SidebarAssumption
    <3> QED BY <3>1, FS_Interval
  <2>2. IsFiniteSet(Sidebar!Here(k))
    BY <1>1, <2>1, FS_Subset
  <2> QED BY <1>1, <2>2
<1>3. Cardinality(Sidebar!Here(k)) \in Nat
  BY <1>2, FS_CardinalityType
<1>4. ASSUME NEW n \in 1 .. Cardinality(Sidebar!Here(k)) PROVE Sidebar!View(k)[n] \in SidebarRun
  <2>1. \E r \in Sidebar!Here(k) :
          Cardinality({q \in Sidebar!Here(k) : IF k.sort = "name" THEN q < r ELSE q > r}) = n - 1
    <3>1. PICK up \in BOOLEAN : up <=> k.sort = "name"
      OBVIOUS
    <3>2. \E r \in Sidebar!Here(k) :
            Cardinality({q \in Sidebar!Here(k) : IF up THEN q < r ELSE q > r}) = n - 1
      BY <1>2, RankExists
    <3> QED BY <3>1, <3>2
  <2>2. \E r \in Sidebar!Here(k) : Cardinality(Sidebar!Before(k, r)) = n - 1
    BY <2>1 DEF Sidebar!Before
  <2>3. Sidebar!View(k)[n] = CHOOSE r \in Sidebar!Here(k) : Cardinality(Sidebar!Before(k, r)) = n - 1
    BY SidebarWords DEF Sidebar!View
  <2> QED BY <1>1, <2>2, <2>3
<1>5. Sidebar!View(k) = [n \in 1 .. Cardinality(Sidebar!Here(k)) |-> Sidebar!View(k)[n]]
  BY SidebarWords DEF Sidebar!View
<1> QED BY <1>3, <1>4, <1>5, IsASeq

LEMMA PageIs ==
    ASSUME sServer \in Rows, NEW k \in Sidebar!Keys, NEW page \in Nat
    PROVE  Sidebar!GetRuns(k, page) \in Page
<1>1. Sidebar!View(k) \in Seq(SidebarRun) /\ Len(Sidebar!View(k)) \in Nat
  BY ViewIs
<1>2. PICK v, m, n : /\ v = Sidebar!View(k) /\ m = page * PageSize + 1
                     /\ n = Sidebar!Least((page + 1) * PageSize, Len(Sidebar!View(k)))
  OBVIOUS
<1>3. page * PageSize \in Nat /\ (page + 1) * PageSize \in Nat
  BY SidebarAssumption
<1>4. m \in Int /\ m >= 1 /\ n \in Int /\ n <= Len(v)
  BY <1>1, <1>2, <1>3 DEF Sidebar!Least
<1>5. \A i \in m .. n : v[i] \in SidebarRun
  BY <1>1, <1>2, <1>4
<1>6. SubSeq(v, m, n) \in Seq(SidebarRun)
  BY <1>4, <1>5, SubSeqProperties
<1>7. Sidebar!GetRuns(k, page) = [items |-> SubSeq(v, m, n), more |-> Len(v) > (page + 1) * PageSize]
  BY <1>2 DEF Sidebar!GetRuns
<1>8. (Len(v) > (page + 1) * PageSize) \in BOOLEAN
  OBVIOUS
<1> QED BY <1>6, <1>7, <1>8 DEF Page

LEMMA FirstPageIs ==
    ASSUME sServer \in Rows, NEW k \in Sidebar!Keys
    PROVE  LET items == Sidebar!GetRuns(k, 0).items
           IN  /\ items \in Seq(SidebarRun) /\ Len(items) <= PageSize
               /\ Len(items) = 1 <=> Len(Sidebar!View(k)) = 1
               /\ Len(Sidebar!View(k)) = 1 => items[1] = Sidebar!View(k)[1]
<1>1. Sidebar!View(k) \in Seq(SidebarRun) /\ Len(Sidebar!View(k)) \in Nat
  BY ViewIs
<1>2. PICK v, n : v = Sidebar!View(k) /\ n = Sidebar!Least(PageSize, Len(Sidebar!View(k)))
  OBVIOUS
<1>3. n \in Nat /\ n <= PageSize /\ n <= Len(v) /\ (n = 1 <=> Len(v) = 1)
  <2>1. PICK l \in Nat : l = Len(Sidebar!View(k)) /\ n = IF PageSize < l THEN PageSize ELSE l
    BY <1>1, <1>2 DEF Sidebar!Least
  <2>2. n \in Nat /\ n <= PageSize /\ n <= l /\ (n = 1 <=> l = 1)
    <3>1. PICK p \in Nat : p = PageSize /\ p > 1
      BY SidebarAssumption
    <3>2. CASE p < l
      BY <2>1, <3>1, <3>2
    <3>3. CASE ~(p < l)
      BY <2>1, <3>1, <3>3
    <3> QED BY <3>2, <3>3
  <2> QED BY <1>2, <2>1, <2>2
<1>4. /\ SubSeq(v, 1, n) \in Seq(SidebarRun) /\ Len(SubSeq(v, 1, n)) = IF 1 <= n THEN n - 1 + 1 ELSE 0
      /\ \A i \in 1 .. n - 1 + 1 : SubSeq(v, 1, n)[i] = v[1 + i - 1]
  <2>1. \A i \in 1 .. n : v[i] \in SidebarRun
    BY <1>1, <1>2, <1>3
  <2> QED BY <1>3, <2>1, SubSeqProperties
<1>5. Len(SubSeq(v, 1, n)) = n /\ (n = 1 => SubSeq(v, 1, n)[1] = v[1])
  BY <1>3, <1>4
<1>6. Sidebar!GetRuns(k, 0).items = SubSeq(v, 1, n)
  <2>1. 0 * PageSize + 1 = 1 /\ (0 + 1) * PageSize = PageSize
    BY SidebarAssumption
  <2> QED BY <1>2, <2>1 DEF Sidebar!GetRuns
<1> QED BY <1>2, <1>3, <1>4, <1>5, <1>6

LEMMA MergedIs ==
    ASSUME NEW d \in Data, NEW page \in Nat, NEW answer \in Page
    PROVE  LET m == Sidebar!Merged(d, page, answer)
           IN  /\ m \in Data /\ m.known
               /\ page = 0 => m.edges = answer.items
               /\ page > 0 => \A n \in 1 .. Len(d.edges) : n <= PageSize =>
                                 n \in 1 .. Len(m.edges) /\ m.edges[n] = d.edges[n]
<1>1. PICK kept : kept = IF Len(d.edges) >= page * PageSize
                         THEN SubSeq(d.edges, 1, page * PageSize) ELSE d.edges
  OBVIOUS
<1>2. PICK m : m = Sidebar!Merged(d, page, answer)
  OBVIOUS
<1>3. m = [known |-> TRUE, next |-> page + 1, more |-> answer.more,
           edges |-> (IF page = 0 THEN <<>> ELSE kept) \o answer.items]
  BY <1>1, <1>2 DEF Sidebar!Merged
<1>4. d.edges \in Seq(SidebarRun) /\ Len(d.edges) \in Nat /\ page * PageSize \in Nat
      /\ answer.items \in Seq(SidebarRun) /\ answer.more \in BOOLEAN
  BY SidebarAssumption DEF Data, Page
<1>5. page > 0 => page * PageSize >= PageSize
  BY SidebarAssumption
<1>6. /\ kept \in Seq(SidebarRun) /\ Len(kept) \in Nat
      /\ page > 0 => \A n \in 1 .. Len(d.edges) : n <= PageSize => n <= Len(kept) /\ kept[n] = d.edges[n]
  <2>1. CASE Len(d.edges) >= page * PageSize
    <3>1. PICK p \in Nat : p = page * PageSize
      BY <1>4
    <3>2. \A i \in 1 .. p : d.edges[i] \in SidebarRun
      BY <1>4, <2>1, <3>1
    <3>3. /\ SubSeq(d.edges, 1, p) \in Seq(SidebarRun)
          /\ Len(SubSeq(d.edges, 1, p)) = IF 1 <= p THEN p - 1 + 1 ELSE 0
          /\ \A i \in 1 .. p - 1 + 1 : SubSeq(d.edges, 1, p)[i] = d.edges[1 + i - 1]
      BY <3>1, <3>2, SubSeqProperties
    <3>4. kept = SubSeq(d.edges, 1, p)
      BY <1>1, <2>1, <3>1
    <3>5. Len(kept) = p /\ \A n \in 1 .. p : kept[n] = d.edges[n]
      <4>1. Len(kept) = p
        BY <3>1, <3>3, <3>4
      <4>2. ASSUME NEW n \in 1 .. p PROVE kept[n] = d.edges[n]
        <5>1. n \in 1 .. p - 1 + 1 /\ 1 + n - 1 = n
          OBVIOUS
        <5> QED BY <3>3, <3>4, <5>1
      <4> QED BY <4>1, <4>2
    <3>6. page > 0 => p >= PageSize
      BY <1>5, <3>1
    <3>7. ASSUME page > 0, NEW n \in 1 .. Len(d.edges), n <= PageSize
          PROVE  n <= Len(kept) /\ kept[n] = d.edges[n]
      <4>1. n \in Nat /\ n >= 1 /\ n <= p
        <5>1. n \in Nat /\ n >= 1
          BY <1>4
        <5>2. PageSize \in Nat /\ p >= PageSize
          BY <3>6, <3>7, SidebarAssumption
        <5> QED BY <3>1, <3>7, <5>1, <5>2
      <4> QED BY <3>5, <4>1
    <3>8. kept \in Seq(SidebarRun) /\ Len(kept) \in Nat
      BY <3>1, <3>3, <3>4, <3>5
    <3> QED BY <3>7, <3>8
  <2>2. CASE ~(Len(d.edges) >= page * PageSize)
    BY <1>1, <1>4, <2>2
  <2> QED BY <2>1, <2>2
<1>7. m \in Data /\ m.known
  <2>1. (IF page = 0 THEN <<>> ELSE kept) \o answer.items \in Seq(SidebarRun)
    BY <1>4, <1>6
  <2> QED BY <1>3, <1>4, <2>1 DEF Data
<1>8. page = 0 => m.edges = answer.items
  BY <1>3, <1>4
<1>9. ASSUME page > 0, NEW n \in 1 .. Len(d.edges), n <= PageSize
      PROVE  n \in 1 .. Len(m.edges) /\ m.edges[n] = d.edges[n]
  <2>1. m.edges = kept \o answer.items
    <3>1. page # 0
      BY <1>9
    <3> QED BY <1>3, <3>1
  <2>2. n \in 1 .. Len(kept) /\ kept[n] = d.edges[n]
    BY <1>4, <1>6, <1>9
  <2> QED BY <1>4, <1>6, <2>1, <2>2
<1> QED BY <1>2, <1>7, <1>8, <1>9

(* A row of another list is of no account for this one.                    *)
LEMMA SameAnswers ==
    ASSUME NEW k, Sidebar!Here(k)' = Sidebar!Here(k)
    PROVE  /\ Sidebar!View(k)' = Sidebar!View(k)
           /\ \A page : Sidebar!GetRuns(k, page)' = Sidebar!GetRuns(k, page)
<1>1. \A r : Sidebar!Before(k, r)' = Sidebar!Before(k, r)
  BY DEF Sidebar!Before
<1>2. Sidebar!View(k)' = Sidebar!View(k)
  BY <1>1 DEF Sidebar!View
<1> QED BY <1>2 DEF Sidebar!GetRuns

-----------------------------------------------------------------------------
(* What a query adds to those under way.                                   *)

Asked(old, new, keys) ==
    /\ old \subseteq new /\ new \subseteq Request
    /\ \A q \in new \ old : q.page = 0 /\ q.step = "sent" /\ q.key \in keys /\ Len(q.answer.items) = 0
    /\ \A k \in keys : \E q \in new : q.key = k /\ q.page = 0

(* Of a list that was not asked for before no answer is there yet.         *)
Afresh(old, new, k) ==
    (\A q \in old : q.key = k => q.page # 0)
        => \A q \in new : q.key = k /\ q.page = 0 => q.step = "sent"

LEMMA AskingIs ==
    ASSUME NEW k \in Sidebar!Keys, NEW page \in Nat
    PROVE  LET q == Sidebar!Asking(k, page)
           IN  /\ q \in Request /\ q.key = k /\ q.page = page /\ q.step = "sent"
               /\ Len(q.answer.items) = 0
<1>1. <<>> \in Seq(SidebarRun)
  OBVIOUS
<1> QED BY <1>1 DEF Sidebar!Asking, Request, Page

LEMMA QueryAsks ==
    ASSUME sRequests \subseteq Request, NEW keys, keys \subseteq Sidebar!Keys, Sidebar!Query(keys)
    PROVE  Asked(sRequests, sRequests', keys) /\ \A k \in keys : Afresh(sRequests, sRequests', k)
<1>1. sRequests' = sRequests \cup {Sidebar!Asking(k, 0) : k \in {a \in keys : ~Sidebar!Underway(a, 0)}}
  BY DEF Sidebar!Query
<1>2. \A q \in sRequests' \ sRequests : \E k \in keys : q = Sidebar!Asking(k, 0)
  BY <1>1
<1>3. \A q \in sRequests' \ sRequests :
          /\ q \in Request /\ q.page = 0 /\ q.step = "sent" /\ q.key \in keys /\ Len(q.answer.items) = 0
  BY <1>2, AskingIs
<1>4. ASSUME NEW k \in keys PROVE \E q \in sRequests' : q.key = k /\ q.page = 0
  <2>1. CASE Sidebar!Underway(k, 0)
    BY <1>1, <2>1 DEF Sidebar!Underway
  <2>2. CASE ~Sidebar!Underway(k, 0)
    BY <1>1, <2>2, AskingIs
  <2> QED BY <2>1, <2>2
<1>5. sRequests \subseteq sRequests' /\ sRequests' \subseteq Request
  BY <1>1, <1>3
<1>6. ASSUME NEW k \in keys PROVE Afresh(sRequests, sRequests', k)
  BY <1>3 DEF Afresh
<1> QED BY <1>3, <1>4, <1>5, <1>6 DEF Asked

LEMMA KeysAre ==
    ASSUME NEW ch \in Channels, NEW sort \in {"create_at", "name"}, NEW state \in Sidebar!State
    PROVE  /\ Sidebar!Key(ch, sort, state) \in Sidebar!Keys /\ Sidebar!Both(ch, sort) \subseteq Sidebar!Keys
           /\ Sidebar!Key(ch, sort, "InProgress") \in Sidebar!Both(ch, sort)
           /\ "InProgress" \in Sidebar!State
           /\ \A k \in Sidebar!Both(ch, sort) : k.channel = ch /\ k.sort = sort
BY DEF Sidebar!Key, Sidebar!Both, Sidebar!Keys, Sidebar!State

LEMMA SingleIs ==
    ASSUME NEW d \in Data
    PROVE  Sidebar!Single(d) \in SidebarRun \cup {Sidebar!None}
BY DEF Sidebar!Single, Data

(* Entering a channel.                                                     *)
Entered(ch) ==
    /\ sChannel' = ch /\ sOptions' = Sidebar!DefaultOptions /\ sCreated' = Sidebar!None /\ sTouched' = FALSE
    /\ UNCHANGED <<sServer, sCache>>
    /\ Asked(sRequests, sRequests', Sidebar!Both(ch, sOptions.sort) \cup Sidebar!Both(ch, "create_at"))
    /\ "joined" \in sWhy' \/ \A q \in sRequests' : q.key = Active(ch) /\ q.page = 0 => q.step = "sent"
    /\ sCurrent' \in SidebarRun \cup {Sidebar!None} /\ sCheckedFor' \in {ch, sCheckedFor}
    /\ sCache[Active(ch)].known => sCheckedFor' = ch /\ "visitedBefore" \in sWhy'
    /\ "visitedBefore" \in sWhy' \/ (sCurrent' = Sidebar!None /\ sCheckedFor' = sCheckedFor)
    /\ sWhy \subseteq sWhy'
    /\ sCreating.step = "sent" => "leftCreating" \in sWhy'
    /\ sMoving' = sMoving \/ sMoving' = [sMoving EXCEPT !.run = Sidebar!None, !.phase = "none"]

LEMMA EnterIs ==
    ASSUME BarTypeInv, NEW ch \in Channels, Sidebar!Enter(ch)
    PROVE  Entered(ch)
<1>1. /\ sOptions.sort \in {"create_at", "name"} /\ Sidebar!Both(ch, sOptions.sort) \subseteq Sidebar!Keys
      /\ Sidebar!Both(ch, "create_at") \subseteq Sidebar!Keys
      /\ Active(ch) \in Sidebar!Both(ch, "create_at")
      /\ Sidebar!Key(ch, sOptions.sort, "InProgress") \in Sidebar!Keys /\ Active(ch) \in Sidebar!Keys
  BY KeysAre DEF BarTypeInv, Active
<1>2. PICK seen : seen = IF sCache[Sidebar!Key(ch, sOptions.sort, "InProgress")].known
                         THEN sCache[Sidebar!Key(ch, sOptions.sort, "InProgress")] ELSE sCache[Active(ch)]
  OBVIOUS
<1>3. seen \in Data /\ (sCache[Active(ch)].known => seen.known)
  BY <1>1, <1>2 DEF BarTypeInv
<1>4. /\ sChannel' = ch /\ sOptions' = Sidebar!DefaultOptions
      /\ Sidebar!Query(Sidebar!Both(ch, sOptions.sort) \cup Sidebar!Both(ch, "create_at"))
      /\ sCheckedFor' = IF seen.known THEN ch ELSE sCheckedFor
      /\ sCurrent' = IF sCheckedFor = ch THEN sCurrent
                     ELSE IF seen.known THEN Sidebar!Single(seen) ELSE Sidebar!None
      /\ sWhy' = sWhy \cup Sidebar!Reasons(Sidebar!Both(ch, "create_at"))
                      \cup (IF seen.known \/ sCheckedFor = ch THEN {"visitedBefore"} ELSE {})
                      \cup (IF sCreating.step = "sent" THEN {"leftCreating"} ELSE {})
      /\ sMoving' = IF sMoving.phase = "removed"
                    THEN [sMoving EXCEPT !.run = Sidebar!None, !.phase = "none"] ELSE sMoving
      /\ sCreated' = Sidebar!None /\ sTouched' = FALSE /\ UNCHANGED <<sServer, sCache>>
  BY <1>2 DEF Sidebar!Enter, Active
<1>5. /\ Asked(sRequests, sRequests', Sidebar!Both(ch, sOptions.sort) \cup Sidebar!Both(ch, "create_at"))
      /\ Afresh(sRequests, sRequests', Active(ch))
  <2>1. PICK keys : keys = Sidebar!Both(ch, sOptions.sort) \cup Sidebar!Both(ch, "create_at")
    OBVIOUS
  <2>2. Sidebar!Query(keys) /\ keys \subseteq Sidebar!Keys /\ Active(ch) \in keys
    BY <1>1, <1>4, <2>1
  <2> QED BY <2>1, <2>2, QueryAsks DEF BarTypeInv
<1>6. "joined" \in sWhy' \/ \A q \in sRequests' : q.key = Active(ch) /\ q.page = 0 => q.step = "sent"
  <2>1. CASE Sidebar!Underway(Active(ch), 0)
    BY <1>1, <1>4, <2>1 DEF Sidebar!Reasons
  <2>2. CASE ~Sidebar!Underway(Active(ch), 0)
    BY <1>5, <2>2 DEF Sidebar!Underway, Afresh
  <2> QED BY <2>1, <2>2
<1>7. sCurrent' \in SidebarRun \cup {Sidebar!None} /\ sCheckedFor' \in {ch, sCheckedFor}
  BY <1>3, <1>4, SingleIs DEF BarTypeInv
<1>8. seen.known => "visitedBefore" \in sWhy' /\ sCheckedFor' = ch
  BY <1>4
<1> QED BY <1>3, <1>4, <1>5, <1>6, <1>7, <1>8 DEF Entered

LEMMA BarTypeInit == Sidebar!Init => BarTypeInv
<1> SUFFICES ASSUME Sidebar!Init PROVE BarTypeInv
  OBVIOUS
<1>1. sServer \in Rows
  BY SidebarAssumption DEF Sidebar!Init, Rows, SidebarRun
<1>2. sOptions \in [sort : {"create_at", "name"}, filter : Sidebar!State] /\ sChannel \in Channels
  BY DEF Sidebar!Init, Sidebar!DefaultOptions, Sidebar!State
<1>3. Sidebar!NoData \in Data
  <2>1. <<>> \in Seq(SidebarRun)
    OBVIOUS
  <2> QED BY <2>1 DEF Sidebar!NoData, Data
<1>4. sCache \in [Sidebar!Keys -> Data]
  BY <1>3 DEF Sidebar!Init
<1>5. sRequests \subseteq Request
  <2>1. Sidebar!Both(sChannel, "create_at") \subseteq Sidebar!Keys
    BY <1>2, KeysAre
  <2> QED BY <2>1, AskingIs DEF Sidebar!Init
<1>6. /\ sCreating \in [from : Channels, to : Channels, run : SidebarRun \cup {Sidebar!None},
                        step : {"none", "sent", "done"}]
      /\ sMoving \in [run : SidebarRun \cup {Sidebar!None}, to : Channels,
                      phase : {"none", "removed", "sent", "done"}]
      /\ sCreating.step = "none" /\ sMoving.phase = "none"
  BY DEF Sidebar!Init
<1> QED BY <1>1, <1>2, <1>4, <1>5, <1>6 DEF Sidebar!Init, BarTypeInv, Rows

(* The answers there are to serve and to deliver.                          *)
LEMMA ServedIs ==
    ASSUME BarTypeInv, NEW q \in sRequests, Sidebar!Serve(q)
    PROVE  \E a \in Request :
             /\ a.key = q.key /\ a.page = q.page /\ a.step = "done"
             /\ a.answer = Sidebar!GetRuns(q.key, q.page)
             /\ sRequests' = (sRequests \ {q}) \cup {a}
<1>1. q \in Request /\ sServer \in Rows
  BY DEF BarTypeInv, Rows
<1>2. Sidebar!GetRuns(q.key, q.page) \in Page
  BY <1>1, PageIs DEF Request
<1>3. PICK a : a = [q EXCEPT !.step = "done", !.answer = Sidebar!GetRuns(q.key, q.page)]
  OBVIOUS
<1>4. a \in Request /\ a.key = q.key /\ a.page = q.page /\ a.step = "done"
      /\ a.answer = Sidebar!GetRuns(q.key, q.page)
  BY <1>1, <1>2, <1>3 DEF Request
<1>5. sRequests' = (sRequests \ {q}) \cup {a}
  BY <1>3 DEF Sidebar!Serve
<1> QED BY <1>4, <1>5

LEMMA DeliveredIs ==
    ASSUME BarTypeInv, NEW q \in sRequests, Sidebar!Deliver(q)
    PROVE  /\ q \in Request /\ q.step = "done" /\ sRequests' = sRequests \ {q}
           /\ sCache' \in [Sidebar!Keys -> Data] /\ sCache'[q.key].known
           /\ \A k \in Sidebar!Keys : k # q.key => sCache'[k] = sCache[k]
           /\ q.page = 0 => sCache'[q.key].edges = q.answer.items
           /\ q.page > 0 => \A n \in 1 .. Len(sCache[q.key].edges) : n <= PageSize =>
                               /\ n \in 1 .. Len(sCache'[q.key].edges)
                               /\ sCache'[q.key].edges[n] = sCache[q.key].edges[n]
           /\ IF q.key = Sidebar!Key(sChannel, sOptions.sort, "InProgress") /\ sCheckedFor # sChannel
              THEN sCurrent' = Sidebar!Single(sCache'[q.key]) /\ sCheckedFor' = sChannel
              ELSE UNCHANGED <<sCurrent, sCheckedFor>>
           /\ UNCHANGED <<sServer, sChannel, sOptions, sCreating, sMoving, sEvents, sCreated,
                          sTouched, sWhy>>
<1>1. q \in Request /\ q.key \in Sidebar!Keys /\ q.page \in Nat /\ q.answer \in Page
      /\ sCache \in [Sidebar!Keys -> Data] /\ sCache[q.key] \in Data
  BY DEF BarTypeInv, Request
<1>2. PICK data : data = Sidebar!Merged(sCache[q.key], q.page, q.answer)
  OBVIOUS
<1>3. /\ data \in Data /\ data.known
      /\ q.page = 0 => data.edges = q.answer.items
      /\ q.page > 0 => \A n \in 1 .. Len(sCache[q.key].edges) : n <= PageSize =>
                          n \in 1 .. Len(data.edges) /\ data.edges[n] = sCache[q.key].edges[n]
  BY <1>1, <1>2, MergedIs
<1>4. /\ q.step = "done" /\ sRequests' = sRequests \ {q}
      /\ sCache' = [sCache EXCEPT ![q.key] = data]
      /\ IF q.key = Sidebar!Key(sChannel, sOptions.sort, "InProgress") /\ sCheckedFor # sChannel
         THEN sCurrent' = Sidebar!Single(data) /\ sCheckedFor' = sChannel
         ELSE UNCHANGED <<sCurrent, sCheckedFor>>
      /\ UNCHANGED <<sServer, sChannel, sOptions, sCreating, sMoving, sEvents, sCreated, sTouched, sWhy>>
  BY <1>2 DEF Sidebar!Deliver
<1>5. /\ sCache' \in [Sidebar!Keys -> Data] /\ sCache'[q.key] = data
      /\ \A k \in Sidebar!Keys : k # q.key => sCache'[k] = sCache[k]
  BY <1>1, <1>3, <1>4
<1> QED BY <1>1, <1>3, <1>4, <1>5

(* The page asked for by scrolling is not the first.                       *)
LEMMA MoreAsks ==
    ASSUME BarTypeInv, LooksInv, Sidebar!GetMore
    PROVE  /\ Sidebar!ListShown
           /\ \E a \in Request :
             /\ a.key = Sidebar!Key(sChannel, sOptions.sort, sOptions.filter) /\ a.step = "sent"
             /\ Len(a.answer.items) = 0 /\ sCache[a.key].known /\ sRequests' = sRequests \cup {a}
           /\ UNCHANGED <<sServer, sChannel, sOptions, sCache, sCurrent, sCheckedFor, sCreating, sMoving,
                          sCreated, sTouched>>
           /\ sWhy' = sWhy
<1>1. PICK k : k = Sidebar!Key(sChannel, sOptions.sort, sOptions.filter)
  OBVIOUS
<1>2. k \in Sidebar!Keys /\ sCache[k] \in Data
  BY <1>1, KeysAre DEF BarTypeInv
<1>3. /\ sRequests' = sRequests \cup {Sidebar!Asking(k, sCache[k].next)} /\ sCache[k].more
  BY <1>1 DEF Sidebar!GetMore, Sidebar!Listed
<1>4. sCache[k].known /\ sCache[k].next \in Nat
  BY <1>2, <1>3 DEF LooksInv, Data
<1>5. sWhy' = sWhy
  BY DEF Sidebar!GetMore, Sidebar!Event
<1> QED BY <1>1, <1>2, <1>3, <1>4, <1>5, AskingIs DEF Sidebar!GetMore

(* The queries of both lists of the channel.                               *)
LEMMA BothAsked ==
    ASSUME BarTypeInv, NEW sort \in {"create_at", "name"}, Sidebar!Query(Sidebar!Both(sChannel, sort)),
           NEW k, k = Sidebar!Key(sChannel, sort, "InProgress")
    PROVE  /\ Asked(sRequests, sRequests', Sidebar!Both(sChannel, sort))
           /\ k \in Sidebar!Both(sChannel, sort) /\ k \in Sidebar!Keys
           /\ \E q \in sRequests' : q.key = k /\ q.page = 0
           /\ "joined" \in Sidebar!Reasons(Sidebar!Both(sChannel, sort))
                \/ \A q \in sRequests' : q.key = k /\ q.page = 0 => q.step = "sent"
<1>1. PICK keys : keys = Sidebar!Both(sChannel, sort)
  OBVIOUS
<1>2. k \in keys /\ keys \subseteq Sidebar!Keys /\ sRequests \subseteq Request
  BY <1>1, KeysAre DEF BarTypeInv
<1>3. Asked(sRequests, sRequests', keys) /\ Afresh(sRequests, sRequests', k)
  BY <1>1, <1>2, QueryAsks
<1>4. CASE Sidebar!Underway(k, 0)
  BY <1>1, <1>2, <1>3, <1>4 DEF Sidebar!Reasons, Asked
<1>5. CASE ~Sidebar!Underway(k, 0)
  <2>1. \A q \in sRequests' : q.key = k /\ q.page = 0 => q.step = "sent"
    BY <1>3, <1>5 DEF Afresh, Sidebar!Underway
  <2> QED BY <1>1, <1>2, <1>3, <2>1 DEF Asked
<1> QED BY <1>4, <1>5

-----------------------------------------------------------------------------
(* The types are kept.                                                     *)

LEMMA BarTypeEntered ==
    ASSUME BarTypeInv, NEW ch \in Channels, Entered(ch),
           sCreating' \in [from : Channels, to : Channels, run : SidebarRun \cup {Sidebar!None},
                           step : {"none", "sent", "done"}],
           sCreating'.step = "done" => sCreating'.run \in SidebarRun
    PROVE  BarTypeInv'
<1>1. /\ sServer' = sServer /\ sCache' = sCache /\ sChannel' \in Channels /\ sRequests' \subseteq Request
      /\ sCurrent' \in SidebarRun \cup {Sidebar!None} /\ sCheckedFor' \in Channels \cup {"none"}
      /\ sCreated' \in SidebarRun \cup {Sidebar!None} /\ sTouched' \in BOOLEAN /\ sWhy \subseteq sWhy'
  BY DEF Entered, BarTypeInv, Asked
<1>2. sOptions' \in [sort : {"create_at", "name"}, filter : Sidebar!State]
  BY DEF Entered, Sidebar!DefaultOptions, Sidebar!State
<1>3. /\ sMoving' \in [run : SidebarRun \cup {Sidebar!None}, to : Channels,
                       phase : {"none", "removed", "sent", "done"}]
      /\ sMoving'.phase # "none" => sMoving'.run \in SidebarRun /\ "moved" \in sWhy'
  BY <1>1 DEF Entered, BarTypeInv
<1> QED BY <1>1, <1>2, <1>3 DEF BarTypeInv

LEMMA BarTypeQueried ==
    ASSUME BarTypeInv, NEW keys, Asked(sRequests, sRequests', keys),
           UNCHANGED <<sServer, sChannel, sCache, sCheckedFor>>,
           sOptions' \in [sort : {"create_at", "name"}, filter : Sidebar!State],
           sCurrent' \in SidebarRun \cup {Sidebar!None}, sCreated' \in SidebarRun \cup {Sidebar!None},
           sTouched' \in BOOLEAN,
           sWhy \subseteq sWhy',
           sCreating' = sCreating \/ sCreating' = [sCreating EXCEPT !.run = Sidebar!None, !.step = "none"],
           sMoving' = sMoving \/ sMoving' = [sMoving EXCEPT !.run = Sidebar!None, !.phase = "none"]
    PROVE  BarTypeInv'
<1>1. /\ sMoving' \in [run : SidebarRun \cup {Sidebar!None}, to : Channels,
                       phase : {"none", "removed", "sent", "done"}]
      /\ sMoving'.phase # "none" => sMoving'.run \in SidebarRun /\ "moved" \in sWhy'
  BY DEF BarTypeInv
<1>2. /\ sCreating' \in [from : Channels, to : Channels, run : SidebarRun \cup {Sidebar!None},
                         step : {"none", "sent", "done"}]
      /\ sCreating'.step = "done" => sCreating'.run \in SidebarRun
  BY DEF BarTypeInv
<1>3. sRequests' \subseteq Request
  BY DEF Asked
<1> QED BY <1>1, <1>2, <1>3 DEF BarTypeInv

LEMMA BarTypeStep ==
    ASSUME BarTypeInv, LooksInv, Sidebar!Next
    PROVE  BarTypeInv'
<1>0. sOptions.sort \in {"create_at", "name"} /\ sChannel \in Channels
  BY DEF BarTypeInv
<1>1. ASSUME NEW ch \in Channels, Sidebar!SwitchChannel(ch) PROVE BarTypeInv'
  <2>1. Sidebar!Enter(ch) /\ sCreating' = sCreating
    BY <1>1 DEF Sidebar!SwitchChannel
  <2>2. Entered(ch)
    BY <2>1, EnterIs
  <2> QED BY <2>1, <2>2, BarTypeEntered DEF BarTypeInv
<1>2. ASSUME NEW ch \in Channels, Sidebar!HandleCreate(ch) PROVE BarTypeInv'
  BY <1>2 DEF Sidebar!HandleCreate, BarTypeInv, Sidebar!Event
<1>3. ASSUME NEW s \in Sidebar!State, Sidebar!SetFilter(s) PROVE BarTypeInv'
  BY <1>3 DEF Sidebar!SetFilter, BarTypeInv, Sidebar!Event
<1>4. ASSUME NEW s \in {"create_at", "name"}, Sidebar!SetSort(s) PROVE BarTypeInv'
  <2>1. Asked(sRequests, sRequests', Sidebar!Both(sChannel, s))
    BY <1>4, BothAsked DEF Sidebar!SetSort
  <2>2. sOptions' \in [sort : {"create_at", "name"}, filter : Sidebar!State]
    BY <1>4 DEF Sidebar!SetSort, BarTypeInv
  <2>3. sWhy \subseteq sWhy'
    BY <1>4 DEF Sidebar!SetSort, Sidebar!Event
  <2> QED BY <1>4, <2>1, <2>2, <2>3, BarTypeQueried DEF Sidebar!SetSort, BarTypeInv
<1>5. CASE Sidebar!GetMore
  BY <1>5, MoreAsks DEF BarTypeInv
<1>6. CASE Sidebar!ClearCurrentRunId
  <2>1. Asked(sRequests, sRequests', Sidebar!Both(sChannel, sOptions.sort))
    BY <1>0, <1>6, BothAsked DEF Sidebar!ClearCurrentRunId, Sidebar!Shown
  <2>2. sWhy \subseteq sWhy'
    BY <1>6 DEF Sidebar!ClearCurrentRunId, Sidebar!Event
  <2> QED BY <1>6, <2>1, <2>2, BarTypeQueried DEF Sidebar!ClearCurrentRunId, BarTypeInv
<1>7. ASSUME NEW r \in 1 .. MaxRuns, Sidebar!OnSelectRun(r) PROVE BarTypeInv'
  <2>1. r \in SidebarRun
    BY SidebarAssumption DEF SidebarRun
  <2> QED BY <1>7, <2>1 DEF Sidebar!OnSelectRun, BarTypeInv, Sidebar!Event
<1>8. ASSUME NEW r \in 1 .. MaxRuns, Sidebar!FinishedByOther(r) PROVE BarTypeInv'
  <2>1. sServer' \in Rows
    BY <1>8 DEF Sidebar!FinishedByOther, BarTypeInv, Rows, Sidebar!State
  <2> QED BY <1>8, <2>1 DEF Sidebar!FinishedByOther, BarTypeInv, Sidebar!Event, Rows
<1>9. CASE Sidebar!ServeCreate
  <2>1. PICK r \in 1 .. MaxRuns :
          /\ sServer' = [sServer EXCEPT ![r] = [channel |-> sCreating.to, state |-> "InProgress"]]
          /\ sCreating' = [sCreating EXCEPT !.run = r, !.step = "done"]
    BY <1>9 DEF Sidebar!ServeCreate
  <2>2. r \in SidebarRun
    BY SidebarAssumption DEF SidebarRun
  <2>3. sServer' \in Rows
    BY <2>1, <2>2 DEF BarTypeInv, Rows, Sidebar!State
  <2> QED BY <1>9, <2>1, <2>2, <2>3 DEF Sidebar!ServeCreate, BarTypeInv, Rows
<1>10. CASE Sidebar!HandleOnCreateRun
  <2>1. Asked(sRequests, sRequests', Sidebar!Both(sChannel, sOptions.sort))
    BY <1>0, <1>10, BothAsked DEF Sidebar!HandleOnCreateRun, Sidebar!Shown
  <2>2. sWhy \subseteq sWhy' /\ sCreating.run \in SidebarRun
    BY <1>10 DEF Sidebar!HandleOnCreateRun, BarTypeInv
  <2>3. /\ sCurrent' \in SidebarRun \cup {Sidebar!None}
        /\ sCreated' \in SidebarRun \cup {Sidebar!None} /\ sTouched' \in BOOLEAN
    BY <1>10, <2>2 DEF Sidebar!HandleOnCreateRun
  <2> QED BY <1>10, <2>1, <2>2, <2>3, BarTypeQueried DEF Sidebar!HandleOnCreateRun, BarTypeInv
<1>11. CASE Sidebar!GoToCreated
  <2>1. sCreating' = [sCreating EXCEPT !.run = Sidebar!None, !.step = "none"] /\ sCreating.to \in Channels
    BY <1>11 DEF Sidebar!GoToCreated, BarTypeInv
  <2>2. /\ sCreating' \in [from : Channels, to : Channels, run : SidebarRun \cup {Sidebar!None},
                           step : {"none", "sent", "done"}]
        /\ sCreating'.step = "none"
    BY <2>1 DEF BarTypeInv
  <2>3. CASE sCreating.to = sChannel
    BY <1>11, <2>2, <2>3 DEF Sidebar!GoToCreated, BarTypeInv
  <2>4. CASE sCreating.to # sChannel
    <3>1. Entered(sCreating.to)
      BY <1>11, <2>1, <2>4, EnterIs DEF Sidebar!GoToCreated
    <3> QED BY <2>1, <2>2, <3>1, BarTypeEntered
  <2> QED BY <2>3, <2>4
<1>12. ASSUME NEW r \in 1 .. MaxRuns, NEW to \in Channels, Sidebar!OnUpdateChannel(r, to) PROVE BarTypeInv'
  <2>1. r \in SidebarRun
    BY SidebarAssumption DEF SidebarRun
  <2> QED BY <1>12, <2>1 DEF Sidebar!OnUpdateChannel, BarTypeInv, Sidebar!Event
<1>13. CASE Sidebar!OnAnimationEnd
  BY <1>13 DEF Sidebar!OnAnimationEnd, BarTypeInv
<1>14. CASE Sidebar!ServeMove
  <2>1. sMoving.run \in SidebarRun /\ sMoving.to \in Channels
    BY <1>14 DEF Sidebar!ServeMove, BarTypeInv
  <2>2. sServer' \in Rows
    BY <1>14, <2>1 DEF Sidebar!ServeMove, BarTypeInv, Rows
  <2> QED BY <1>14, <2>2 DEF Sidebar!ServeMove, BarTypeInv, Rows
<1>15. CASE Sidebar!MoveAnswered
  <2>1. Asked(sRequests, sRequests', Sidebar!Both(sChannel, sOptions.sort))
    BY <1>0, <1>15, BothAsked DEF Sidebar!MoveAnswered, Sidebar!Shown
  <2>2. sWhy \subseteq sWhy'
    BY <1>15 DEF Sidebar!MoveAnswered
  <2> QED BY <1>15, <2>1, <2>2, BarTypeQueried DEF Sidebar!MoveAnswered, BarTypeInv
<1>16. ASSUME NEW q \in sRequests, Sidebar!Serve(q) PROVE BarTypeInv'
  <2>1. sRequests' \subseteq Request
    BY <1>16, ServedIs DEF BarTypeInv
  <2> QED BY <1>16, <2>1 DEF Sidebar!Serve, BarTypeInv
<1>17. ASSUME NEW q \in sRequests, Sidebar!Deliver(q) PROVE BarTypeInv'
  <2>1. sCurrent' \in SidebarRun \cup {Sidebar!None} /\ sCheckedFor' \in Channels \cup {"none"}
    <3>1. sCache'[q.key] \in Data
      BY <1>17, DeliveredIs DEF Request
    <3> QED BY <1>17, <3>1, DeliveredIs, SingleIs DEF BarTypeInv
  <2> QED BY <1>17, <2>1, DeliveredIs DEF BarTypeInv
<1>18. ASSUME NEW q \in sRequests, Sidebar!Canceled(q) PROVE BarTypeInv'
  BY <1>18 DEF Sidebar!Canceled, BarTypeInv
<1> QED BY <1>1, <1>2, <1>3, <1>4, <1>5, <1>6, <1>7, <1>8, <1>9, <1>10, <1>11, <1>12, <1>13,
           <1>14, <1>15, <1>16, <1>17, <1>18 DEF Sidebar!Next

-----------------------------------------------------------------------------
(* Lists the user has seen stay known.                                     *)

(* The list on the screen is that of both columns, if it was sorted anew.  *)
LEMMA ShownIsKnown ==
    ASSUME BarTypeInv, LooksInv, ~Sidebar!Loading
    PROVE  sCache[Active(sChannel)].known
<1>1. CASE sOptions.sort = "create_at"
  <2>1. Active(sChannel) \in Sidebar!Shown
    BY <1>1 DEF Sidebar!Shown, Sidebar!Both, Active, Sidebar!State
  <2> QED BY <2>1 DEF Sidebar!Loading
<1>2. CASE sOptions.sort # "create_at"
  BY <1>2 DEF LooksInv
<1> QED BY <1>1, <1>2

LEMMA ActiveIs ==
    ASSUME NEW ch \in Channels
    PROVE  Active(ch) \in Sidebar!Keys
BY DEF Active, Sidebar!Key, Sidebar!Keys, Sidebar!State

LEMMA LaterPages ==
    ASSUME LooksInv
    PROVE  \A q \in sRequests : q.page > 0 => sCache[q.key].known
BY DEF LooksInv

LEMMA LooksEntered ==
    ASSUME BarTypeInv, LooksInv, NEW ch \in Channels, Entered(ch),
           sCreating' = sCreating \/ sCreating'.step = "none"
    PROVE  LooksInv'
<1>1. sCache' = sCache /\ sChannel' = ch /\ sOptions'.sort = "create_at" /\ sWhy \subseteq sWhy'
  BY DEF Entered, Sidebar!DefaultOptions
<1>2. \A q \in sRequests' : /\ q.page > 0 => sCache[q.key].known
                            /\ q.page = 0 => Len(q.answer.items) <= PageSize
  <2>1. \A q \in sRequests' \ sRequests : q.page = 0 /\ Len(q.answer.items) = 0
    BY DEF Entered, Asked
  <2> QED BY <2>1, SidebarAssumption DEF LooksInv
<1>3. sCreating'.step = "sent" => "leftCreating" \in sWhy'
  BY DEF Entered
<1>4. sCache[Active(ch)].known => sCheckedFor' = ch
  BY DEF Entered
<1>5. "visitedBefore" \in sWhy' \/ (sCheckedFor # "none" => sCache[Active(sCheckedFor)].known)
  BY <1>1 DEF LooksInv
<1>6. "visitedBefore" \in sWhy' \/ sCheckedFor' = sCheckedFor
  BY DEF Entered
<1>7. \A k \in Sidebar!Keys : sCache[k].more => sCache[k].known
  BY DEF LooksInv
<1>8. sCreating'.step # "none" => sCache[Active(sCreating'.from)].known
  BY DEF LooksInv
<1> QED BY <1>1, <1>2, <1>3, <1>4, <1>5, <1>6, <1>7, <1>8 DEF LooksInv

LEMMA LooksQueried ==
    ASSUME BarTypeInv, LooksInv, NEW keys, Asked(sRequests, sRequests', keys),
           UNCHANGED <<sChannel, sCache, sCheckedFor>>, sWhy \subseteq sWhy',
           sOptions'.sort = sOptions.sort \/ sCache[Active(sChannel)].known,
           sCreating' = sCreating \/ sCreating'.step = "none"
    PROVE  LooksInv'
<1>1. \A q \in sRequests' : /\ q.page > 0 => sCache[q.key].known
                            /\ q.page = 0 => Len(q.answer.items) <= PageSize
  <2>1. \A q \in sRequests' \ sRequests : q.page = 0 /\ Len(q.answer.items) = 0
    BY DEF Asked
  <2> QED BY <2>1, SidebarAssumption DEF LooksInv
<1> QED BY <1>1 DEF LooksInv

LEMMA LooksInit == Sidebar!Init => LooksInv
<1> SUFFICES ASSUME Sidebar!Init PROVE LooksInv
  OBVIOUS
<1>1. BarTypeInv
  BY BarTypeInit
<1>2. \A k \in Sidebar!Keys : ~sCache[k].known /\ ~sCache[k].more
  BY DEF Sidebar!Init, Sidebar!NoData
<1>3. Sidebar!Both(sChannel, "create_at") \subseteq Sidebar!Keys /\ Active(sChannel) \in Sidebar!Keys
  BY <1>1, KeysAre, ActiveIs DEF BarTypeInv
<1>4. \A q \in sRequests : q.page = 0 /\ Len(q.answer.items) <= PageSize
  BY <1>3, AskingIs, SidebarAssumption DEF Sidebar!Init
<1> QED BY <1>2, <1>3, <1>4 DEF LooksInv, Sidebar!Init, Sidebar!DefaultOptions

LEMMA LooksStep ==
    ASSUME BarTypeInv, LooksInv, Sidebar!Next
    PROVE  LooksInv'
<1>0. sOptions.sort \in {"create_at", "name"} /\ sChannel \in Channels
  BY DEF BarTypeInv
<1>1. ASSUME NEW ch \in Channels, Sidebar!SwitchChannel(ch) PROVE LooksInv'
  BY <1>1, EnterIs, LooksEntered DEF Sidebar!SwitchChannel
<1>2. ASSUME NEW ch \in Channels, Sidebar!HandleCreate(ch) PROVE LooksInv'
  <2>1. sCache[Active(sChannel)].known
    BY <1>2, ShownIsKnown DEF Sidebar!HandleCreate, Sidebar!ListShown
  <2>2. sCreating'.from = sChannel
    BY <1>2 DEF Sidebar!HandleCreate
  <2> QED BY <1>2, <2>1, <2>2 DEF Sidebar!HandleCreate, LooksInv, Sidebar!Event
<1>3. ASSUME NEW s \in Sidebar!State, Sidebar!SetFilter(s) PROVE LooksInv'
  <2>1. sOptions'.sort = sOptions.sort
    BY <1>3 DEF Sidebar!SetFilter, BarTypeInv
  <2> QED BY <1>3, <2>1 DEF Sidebar!SetFilter, LooksInv, Sidebar!Event
<1>4. ASSUME NEW s \in {"create_at", "name"}, Sidebar!SetSort(s) PROVE LooksInv'
  <2>1. Asked(sRequests, sRequests', Sidebar!Both(sChannel, s)) /\ sCache[Active(sChannel)].known
    BY <1>4, BothAsked, ShownIsKnown DEF Sidebar!SetSort, Sidebar!ListShown
  <2> QED BY <1>4, <2>1, LooksQueried DEF Sidebar!SetSort, Sidebar!Event
<1>5. CASE Sidebar!GetMore
  <2>1. PICK a \in Request : a.step = "sent" /\ Len(a.answer.items) = 0 /\ sCache[a.key].known
                             /\ sRequests' = sRequests \cup {a}
    BY <1>5, MoreAsks
  <2>2. \A q \in sRequests' : /\ q.page > 0 => sCache[q.key].known
                              /\ q.page = 0 => Len(q.answer.items) <= PageSize
    BY <2>1, SidebarAssumption DEF LooksInv
  <2> QED BY <1>5, <2>2, MoreAsks DEF LooksInv
<1>6. CASE Sidebar!ClearCurrentRunId
  BY <1>0, <1>6, BothAsked, LooksQueried DEF Sidebar!ClearCurrentRunId, Sidebar!Shown, Sidebar!Event
<1>7. ASSUME NEW r \in 1 .. MaxRuns, Sidebar!OnSelectRun(r) PROVE LooksInv'
  BY <1>7 DEF Sidebar!OnSelectRun, LooksInv, Sidebar!Event
<1>8. ASSUME NEW r \in 1 .. MaxRuns, Sidebar!FinishedByOther(r) PROVE LooksInv'
  BY <1>8 DEF Sidebar!FinishedByOther, LooksInv, Sidebar!Event
<1>9. CASE Sidebar!ServeCreate
  <2>1. PICK r \in 1 .. MaxRuns : sCreating' = [sCreating EXCEPT !.run = r, !.step = "done"]
    BY <1>9 DEF Sidebar!ServeCreate
  <2>2. sCreating'.from = sCreating.from /\ sCreating'.step = "done" /\ sCreating.step = "sent"
    BY <1>9, <2>1 DEF Sidebar!ServeCreate, BarTypeInv
  <2> QED BY <1>9, <2>2 DEF Sidebar!ServeCreate, LooksInv
<1>10. CASE Sidebar!HandleOnCreateRun
  <2>1. sCreating'.step = "none" /\ sWhy \subseteq sWhy'
    BY <1>10 DEF Sidebar!HandleOnCreateRun, BarTypeInv
  <2> QED BY <1>0, <1>10, <2>1, BothAsked, LooksQueried DEF Sidebar!HandleOnCreateRun, Sidebar!Shown
<1>11. CASE Sidebar!GoToCreated
  <2>1. sCreating'.step = "none" /\ sCreating.to \in Channels
    BY <1>11 DEF Sidebar!GoToCreated, BarTypeInv
  <2>2. CASE sCreating.to = sChannel
    BY <1>11, <2>1, <2>2 DEF Sidebar!GoToCreated, LooksInv
  <2>3. CASE sCreating.to # sChannel
    BY <1>11, <2>1, <2>3, EnterIs, LooksEntered DEF Sidebar!GoToCreated
  <2> QED BY <2>2, <2>3
<1>12. ASSUME NEW r \in 1 .. MaxRuns, NEW to \in Channels, Sidebar!OnUpdateChannel(r, to) PROVE LooksInv'
  BY <1>12 DEF Sidebar!OnUpdateChannel, LooksInv, Sidebar!Event
<1>13. CASE Sidebar!OnAnimationEnd
  BY <1>13 DEF Sidebar!OnAnimationEnd, LooksInv
<1>14. CASE Sidebar!ServeMove
  BY <1>14 DEF Sidebar!ServeMove, LooksInv
<1>15. CASE Sidebar!MoveAnswered
  BY <1>0, <1>15, BothAsked, LooksQueried DEF Sidebar!MoveAnswered, Sidebar!Shown
<1>16. ASSUME NEW q \in sRequests, Sidebar!Serve(q) PROVE LooksInv'
  <2>1. PICK a \in Request : a.key = q.key /\ a.page = q.page /\ a.answer = Sidebar!GetRuns(q.key, q.page)
                             /\ sRequests' = (sRequests \ {q}) \cup {a}
    BY <1>16, ServedIs
  <2>2. a.page > 0 => sCache[a.key].known
    BY <2>1, LaterPages
  <2>3. a.page = 0 => Len(a.answer.items) <= PageSize
    BY <2>1, FirstPageIs DEF Request, BarTypeInv, Rows
  <2>4. \A p \in sRequests' : /\ p.page > 0 => sCache[p.key].known
                              /\ p.page = 0 => Len(p.answer.items) <= PageSize
    BY <2>1, <2>2, <2>3 DEF LooksInv
  <2> QED BY <1>16, <2>4 DEF Sidebar!Serve, LooksInv
<1>17. ASSUME NEW q \in sRequests, Sidebar!Deliver(q) PROVE LooksInv'
  <2>1. /\ q.key \in Sidebar!Keys /\ sRequests' = sRequests \ {q} /\ sCache'[q.key].known
        /\ \A k \in Sidebar!Keys : k # q.key => sCache'[k] = sCache[k]
        /\ IF q.key = Sidebar!Key(sChannel, sOptions.sort, "InProgress") /\ sCheckedFor # sChannel
           THEN sCheckedFor' = sChannel ELSE sCheckedFor' = sCheckedFor
        /\ UNCHANGED <<sChannel, sOptions, sCreating, sWhy>>
    BY <1>17, DeliveredIs DEF Request
  <2>2. \A k \in Sidebar!Keys : sCache[k].known => sCache'[k].known
    BY <2>1
  <2>3. \A k \in Sidebar!Keys : sCache'[k].more => sCache'[k].known
    BY <2>1 DEF LooksInv
  <2>4. \A p \in sRequests' : /\ p.page > 0 => sCache'[p.key].known
                              /\ p.page = 0 => Len(p.answer.items) <= PageSize
    <3>1. \A p \in sRequests : p.key \in Sidebar!Keys
      BY DEF BarTypeInv, Request
    <3> QED BY <2>1, <2>2, <3>1 DEF LooksInv
  <2>5. Active(sChannel) \in Sidebar!Keys /\ Active(sCreating.from) \in Sidebar!Keys
    BY ActiveIs DEF BarTypeInv
  <2>6. sOptions.sort # "create_at" => sCache'[Active(sChannel)].known
    BY <2>2, <2>5 DEF LooksInv
  <2>7. sCreating.step # "none" => sCache'[Active(sCreating.from)].known
    BY <2>2, <2>5 DEF LooksInv
  <2>8. sCache'[Active(sChannel)].known => sCheckedFor' = sChannel
    <3>1. CASE sCache[Active(sChannel)].known
      BY <2>1, <3>1 DEF LooksInv
    <3>2. CASE ~sCache[Active(sChannel)].known /\ q.key = Active(sChannel)
      <4>1. sOptions.sort = "create_at"
        BY <3>2 DEF LooksInv
      <4> QED BY <2>1, <3>2, <4>1 DEF Active
    <3>3. CASE ~sCache[Active(sChannel)].known /\ q.key # Active(sChannel)
      BY <2>1, <2>5, <3>3
    <3> QED BY <3>1, <3>2, <3>3
  <2>9. sWhy \cap {"visitedBefore"} = {} /\ sCheckedFor' # "none" => sCache'[Active(sCheckedFor')].known
    <3>1. CASE sCheckedFor' = sCheckedFor /\ sCheckedFor # "none"
      <4>1. Active(sCheckedFor) \in Sidebar!Keys
        BY <3>1, ActiveIs DEF BarTypeInv
      <4> QED BY <2>2, <3>1, <4>1 DEF LooksInv
    <3>2. CASE q.key = Sidebar!Key(sChannel, sOptions.sort, "InProgress") /\ sCheckedFor' = sChannel
      <4>1. CASE sOptions.sort = "create_at"
        BY <2>1, <3>2, <4>1 DEF Active
      <4>2. CASE sOptions.sort # "create_at"
        BY <2>6, <3>2, <4>2
      <4> QED BY <4>1, <4>2
    <3> QED BY <2>1, <3>1, <3>2
  <2>10. sCreating.step = "sent" => sCreating.from = sChannel \/ "leftCreating" \in sWhy
    BY DEF LooksInv
  <2> QED BY <2>1, <2>3, <2>4, <2>6, <2>7, <2>8, <2>9, <2>10 DEF LooksInv
<1>18. ASSUME NEW q \in sRequests, Sidebar!Canceled(q) PROVE LooksInv'
  BY <1>18 DEF Sidebar!Canceled, LooksInv
<1> QED BY <1>1, <1>2, <1>3, <1>4, <1>5, <1>6, <1>7, <1>8, <1>9, <1>10, <1>11, <1>12, <1>13,
           <1>14, <1>15, <1>16, <1>17, <1>18 DEF Sidebar!Next

-----------------------------------------------------------------------------
(* The single run.  Under a list there is not just one run in progress:    *)
(* its details would be open.                                              *)

LEMMA ListIsNotSingle ==
    ASSUME BarTypeInv, LooksInv, SingleInv, Untouched, Sidebar!ListShown
    PROVE  sCache[Active(sChannel)].known /\ Len(Sidebar!View(Active(sChannel))) # 1
<1>1. sCache[Active(sChannel)].known
  BY ShownIsKnown DEF Sidebar!ListShown
<1>2. ASSUME Len(Sidebar!View(Active(sChannel))) = 1 PROVE FALSE
  <2>1. /\ sCurrent = Sidebar!View(Active(sChannel))[1] /\ sOptions.sort = "create_at"
        /\ sCurrent \in ToSet(sCache[Active(sChannel)].edges)
    BY <1>1, <1>2 DEF SingleInv
  <2>2. Active(sChannel) \in Sidebar!Shown
    BY <2>1 DEF Sidebar!Shown, Sidebar!Both, Active, Sidebar!State
  <2>3. Sidebar!View(Active(sChannel)) \in Seq(SidebarRun)
    BY ViewIs, ActiveIs DEF BarTypeInv, Rows
  <2>4. sCurrent # Sidebar!None
    <3>1. Sidebar!View(Active(sChannel))[1] \in SidebarRun
      BY <1>2, <2>3
    <3> QED BY <2>1, <3>1 DEF SidebarRun, Sidebar!None
  <2> QED BY <2>1, <2>2, <2>4, SidebarWords DEF Sidebar!ListShown, Sidebar!Details
<1> QED BY <1>1, <1>2

(* Queries sent and answers fetched.                                       *)
Onward(old, new) ==
    /\ \A q \in old : \E p \in new : p.key = q.key /\ p.page = q.page
    /\ \A q \in new : \/ q \in old
                      \/ q.step = "sent" /\ q.page = 0
                      \/ q.step = "sent" /\ Sidebar!ListShown
                      \/ /\ q.answer = Sidebar!GetRuns(q.key, q.page)
                         /\ \E p \in old : p.key = q.key /\ p.page = q.page

LEMMA AskedIsOnward ==
    ASSUME NEW old, NEW new, NEW keys, Asked(old, new, keys)
    PROVE  Onward(old, new)
BY DEF Asked, Onward

LEMMA SingleStays ==
    ASSUME BarTypeInv, LooksInv, SingleInv, Untouched' => Untouched,
           UNCHANGED <<sChannel, sCache, sCurrent, sCheckedFor>>,
           sOptions'.sort = sOptions.sort \/ Sidebar!ListShown,
           NEW k, k = Active(sChannel), Sidebar!Here(k)' = Sidebar!Here(k),
           Onward(sRequests, sRequests')
    PROVE  SingleInv'
<1> SUFFICES ASSUME Untouched' PROVE SingleInv'
  BY DEF SingleInv
<1>1. Untouched /\ k = Active(sChannel')
  OBVIOUS
<1>2. PICK v, g : v = Sidebar!View(k) /\ g = Sidebar!GetRuns(k, 0)
  OBVIOUS
<1>3. Sidebar!View(k)' = v /\ Sidebar!GetRuns(k, 0)' = g
  BY <1>2, SameAnswers
<1>4. /\ \A q \in sRequests : q.key = k /\ q.page = 0 /\ q.step = "done" => q.answer = g
      /\ ~sCache[k].known =>
           /\ \E q \in sRequests : q.key = k /\ q.page = 0
           /\ sOptions.sort = "create_at" /\ sCheckedFor # sChannel
      /\ sCache[k].known /\ Len(v) # 1 => sCurrent = Sidebar!None
      /\ sCache[k].known /\ Len(v) = 1 =>
           /\ sCurrent = v[1] /\ sCurrent \in ToSet(sCache[k].edges)
           /\ sOptions.sort = "create_at"
           /\ \A q \in sRequests : q.key = k => q.page = 0
  BY <1>1, <1>2 DEF SingleInv
<1>5. Sidebar!ListShown => sCache[k].known /\ Len(v) # 1
  BY <1>1, <1>2, ListIsNotSingle
<1>6. \A q \in sRequests' : q.key = k /\ q.page = 0 /\ q.step = "done" => q.answer = g
  BY <1>2, <1>4 DEF Onward
<1>7. ~sCache[k].known =>
           /\ \E q \in sRequests' : q.key = k /\ q.page = 0
           /\ sOptions'.sort = "create_at" /\ sCheckedFor' # sChannel'
  BY <1>4, <1>5 DEF Onward
<1>8. sCache[k].known /\ Len(v) # 1 => sCurrent' = Sidebar!None
  BY <1>4
<1>9. sCache[k].known /\ Len(v) = 1 =>
            /\ sCurrent' = v[1] /\ sCurrent' \in ToSet(sCache[k].edges)
            /\ sOptions'.sort = "create_at"
            /\ \A q \in sRequests' : q.key = k => q.page = 0
  BY <1>4, <1>5 DEF Onward
<1> QED BY <1>1, <1>3, <1>6, <1>7, <1>8, <1>9 DEF SingleInv

LEMMA SingleEntered ==
    ASSUME BarTypeInv, LooksInv, NEW ch \in Channels, ch # sChannel, Entered(ch)
    PROVE  SingleInv'
<1> SUFFICES ASSUME Untouched' PROVE SingleInv'
  BY DEF SingleInv
<1>1. PICK k : k = Active(ch)
  OBVIOUS
<1>2. "visitedBefore" \notin sWhy' /\ "joined" \notin sWhy'
  BY DEF Untouched
<1>3. \A q \in sRequests' : q.key = k /\ q.page = 0 => q.step # "done"
  BY <1>1, <1>2 DEF Entered
<1>4. ~sCache'[k].known /\ sCheckedFor' = sCheckedFor
  BY <1>1, <1>2 DEF Entered
<1>5. sCheckedFor' # ch
  <2>1. ch # "none" /\ sWhy \cap {"visitedBefore"} = {}
    BY <1>2, SidebarAssumption DEF Entered
  <2> QED BY <1>1, <1>4, <2>1 DEF LooksInv, Entered
<1>6. k \in Sidebar!Both(ch, "create_at")
  <2>1. "InProgress" \in Sidebar!State /\ "create_at" \in {"create_at", "name"}
    BY DEF Sidebar!State
  <2> QED BY <1>1, <2>1, KeysAre DEF Active
<1>7. \E q \in sRequests' : q.key = k /\ q.page = 0
  BY <1>6 DEF Entered, Asked
<1>8. sChannel' = ch /\ sOptions'.sort = "create_at" /\ k = Active(sChannel')
  BY <1>1 DEF Entered, Sidebar!DefaultOptions
<1> QED BY <1>3, <1>4, <1>5, <1>7, <1>8 DEF SingleInv

LEMMA SingleInit == Sidebar!Init => SingleInv
<1> SUFFICES ASSUME Sidebar!Init PROVE SingleInv
  OBVIOUS
<1>1. PICK k : k = Active(sChannel)
  OBVIOUS
<1>2. /\ k \in Sidebar!Keys /\ k \in Sidebar!Both(sChannel, "create_at")
      /\ Sidebar!Both(sChannel, "create_at") \subseteq Sidebar!Keys
  <2>1. sChannel \in Channels /\ "InProgress" \in Sidebar!State /\ "create_at" \in {"create_at", "name"}
    BY DEF Sidebar!Init, Sidebar!State
  <2> QED BY <1>1, <2>1, KeysAre DEF Active
<1>3. \A q \in sRequests : q.step = "sent"
  BY <1>2, AskingIs DEF Sidebar!Init
<1>4. \E q \in sRequests : q.key = k /\ q.page = 0
  BY <1>2, AskingIs DEF Sidebar!Init
<1>5. ~sCache[k].known
  BY <1>2 DEF Sidebar!Init, Sidebar!NoData
<1>6. sCheckedFor # sChannel /\ sOptions.sort = "create_at"
  BY SidebarAssumption DEF Sidebar!Init, Sidebar!DefaultOptions
<1> QED BY <1>1, <1>3, <1>4, <1>5, <1>6 DEF SingleInv

LEMMA SingleDelivered ==
    ASSUME BarTypeInv, LooksInv, SingleInv, NEW p \in sRequests, Sidebar!Deliver(p)
    PROVE  SingleInv'
<1> SUFFICES ASSUME Untouched' PROVE SingleInv'
  BY DEF SingleInv
<1>1. /\ p \in Request /\ p.step = "done" /\ sRequests' = sRequests \ {p}
      /\ sCache' \in [Sidebar!Keys -> Data] /\ sCache'[p.key].known
      /\ \A i \in Sidebar!Keys : i # p.key => sCache'[i] = sCache[i]
      /\ p.page = 0 => sCache'[p.key].edges = p.answer.items
      /\ IF p.key = Sidebar!Key(sChannel, sOptions.sort, "InProgress") /\ sCheckedFor # sChannel
         THEN sCurrent' = Sidebar!Single(sCache'[p.key]) /\ sCheckedFor' = sChannel
         ELSE UNCHANGED <<sCurrent, sCheckedFor>>
      /\ UNCHANGED <<sServer, sChannel, sOptions, sCreating, sMoving, sEvents, sCreated, sTouched, sWhy>>
  BY DeliveredIs
<1>2. Untouched
  BY <1>1 DEF Untouched
<1>3. PICK k : k = Active(sChannel)
  OBVIOUS
<1>4. k \in Sidebar!Keys /\ p.key \in Sidebar!Keys /\ k = Active(sChannel')
  BY <1>1, <1>3, ActiveIs DEF BarTypeInv, Request
<1>5. PICK v, g : v = Sidebar!View(k) /\ g = Sidebar!GetRuns(k, 0)
  OBVIOUS
<1>6. Sidebar!View(k)' = v /\ Sidebar!GetRuns(k, 0)' = g
  <2>1. Sidebar!Here(k)' = Sidebar!Here(k)
    BY <1>1 DEF Sidebar!Here
  <2> QED BY <1>5, <2>1, SameAnswers
<1>7. /\ \A q \in sRequests : q.key = k /\ q.page = 0 /\ q.step = "done" => q.answer = g
      /\ ~sCache[k].known =>
           /\ \E q \in sRequests : q.key = k /\ q.page = 0
           /\ sOptions.sort = "create_at" /\ sCheckedFor # sChannel
      /\ sCache[k].known /\ Len(v) # 1 => sCurrent = Sidebar!None
      /\ sCache[k].known /\ Len(v) = 1 =>
           /\ sCurrent = v[1] /\ sCurrent \in ToSet(sCache[k].edges)
           /\ sOptions.sort = "create_at"
           /\ \A q \in sRequests : q.key = k => q.page = 0
  BY <1>2, <1>3, <1>5 DEF SingleInv
<1>8. /\ g.items \in Seq(SidebarRun) /\ (Len(g.items) = 1 <=> Len(v) = 1)
      /\ Len(v) = 1 => g.items[1] = v[1] /\ v[1] \in ToSet(g.items)
  <2>1. g.items \in Seq(SidebarRun) /\ (Len(g.items) = 1 <=> Len(v) = 1)
        /\ (Len(v) = 1 => g.items[1] = v[1])
    BY <1>4, <1>5, FirstPageIs DEF BarTypeInv, Rows
  <2>2. Len(v) = 1 => g.items[1] \in ToSet(g.items)
    BY <2>1 DEF ToSet
  <2> QED BY <2>1, <2>2
<1>9. CASE p.key # k /\ ~sCache[k].known
  <2>1. UNCHANGED <<sCurrent, sCheckedFor>> /\ sCache'[k] = sCache[k]
    BY <1>1, <1>3, <1>4, <1>7, <1>9 DEF Active
  <2>2. \E q \in sRequests' : q.key = k /\ q.page = 0
    BY <1>1, <1>7, <1>9
  <2> QED BY <1>1, <1>4, <1>6, <1>7, <1>9, <2>1, <2>2 DEF SingleInv
<1>10. CASE p.key # k /\ sCache[k].known
  <2>1. UNCHANGED <<sCurrent, sCheckedFor>> /\ sCache'[k] = sCache[k]
    BY <1>1, <1>3, <1>4, <1>10 DEF LooksInv
  <2> QED BY <1>1, <1>4, <1>6, <1>7, <1>10, <2>1 DEF SingleInv
<1>11. CASE p.key = k /\ ~sCache[k].known
  <2>1. p.page = 0 /\ p.answer = g
    <3>1. ~(p.page > 0) /\ p.page \in Nat
      BY <1>1, <1>11, LaterPages DEF Request
    <3>2. p.page = 0
      BY <3>1
    <3> QED BY <1>1, <1>7, <1>11, <3>2
  <2>2. sCurrent' = Sidebar!Single(sCache'[k]) /\ sCache'[k].edges = g.items /\ sCache'[k].known
    BY <1>1, <1>3, <1>7, <1>11, <2>1 DEF Active
  <2>3. Len(v) # 1 => sCurrent' = Sidebar!None
    BY <1>8, <2>2 DEF Sidebar!Single
  <2>4. Len(v) = 1 => sCurrent' = v[1] /\ sCurrent' \in ToSet(sCache'[k].edges)
    BY <1>8, <2>2 DEF Sidebar!Single
  <2>5. \A q \in sRequests : q.key = k => q.page = 0
    <3>1. \A q \in sRequests : q.page \in Nat
      BY DEF BarTypeInv, Request
    <3>2. \A q \in sRequests : q.key = k => ~(q.page > 0)
      BY <1>11, LaterPages
    <3> QED BY <3>1, <3>2
  <2> QED BY <1>1, <1>4, <1>6, <1>7, <1>11, <2>2, <2>3, <2>4, <2>5 DEF SingleInv
<1>12. CASE p.key = k /\ sCache[k].known
  <2>1. UNCHANGED <<sCurrent, sCheckedFor>>
    BY <1>1, <1>3, <1>12 DEF LooksInv
  <2>2. Len(v) = 1 => sCurrent' \in ToSet(sCache'[k].edges)
    BY <1>1, <1>7, <1>8, <1>12, <2>1
  <2> QED BY <1>1, <1>4, <1>6, <1>7, <1>12, <2>1, <2>2 DEF SingleInv
<1> QED BY <1>9, <1>10, <1>11, <1>12

LEMMA SingleStep ==
    ASSUME BarTypeInv, LooksInv, SingleInv, Sidebar!Next
    PROVE  SingleInv'
<1>0. sOptions.sort \in {"create_at", "name"} /\ sChannel \in Channels
  BY DEF BarTypeInv
<1>a. PICK k : k = Active(sChannel)
  OBVIOUS
<1>b. Onward(sRequests, sRequests)
  BY DEF Onward
<1>c. sServer' = sServer => Sidebar!Here(k)' = Sidebar!Here(k)
  BY DEF Sidebar!Here
<1>1. ASSUME NEW ch \in Channels, Sidebar!SwitchChannel(ch) PROVE SingleInv'
  BY <1>1, EnterIs, SingleEntered DEF Sidebar!SwitchChannel
<1>2. ASSUME NEW ch \in Channels, Sidebar!HandleCreate(ch) PROVE SingleInv'
  <2>1. Untouched' => Untouched
    BY <1>2 DEF Sidebar!HandleCreate, Sidebar!Event, Untouched
  <2> QED BY <1>2, <1>a, <1>b, <1>c, <2>1, SingleStays DEF Sidebar!HandleCreate
<1>3. ASSUME NEW s \in Sidebar!State, Sidebar!SetFilter(s) PROVE SingleInv'
  <2>1. Untouched' => Untouched
    BY <1>3 DEF Sidebar!SetFilter, Sidebar!Event, Untouched
  <2>2. sOptions'.sort = sOptions.sort
    BY <1>3 DEF Sidebar!SetFilter, BarTypeInv
  <2> QED BY <1>3, <1>a, <1>b, <1>c, <2>1, <2>2, SingleStays DEF Sidebar!SetFilter
<1>4. ASSUME NEW s \in {"create_at", "name"}, Sidebar!SetSort(s) PROVE SingleInv'
  <2>1. Onward(sRequests, sRequests')
    BY <1>4, BothAsked, AskedIsOnward DEF Sidebar!SetSort
  <2>2. Untouched' => Untouched
    BY <1>4 DEF Sidebar!SetSort, Sidebar!Event, Untouched
  <2> QED BY <1>4, <1>a, <1>c, <2>1, <2>2, SingleStays DEF Sidebar!SetSort
<1>5. CASE Sidebar!GetMore
  <2>1. PICK a \in Request : a.step = "sent" /\ sRequests' = sRequests \cup {a}
    BY <1>5, MoreAsks
  <2>2. Sidebar!ListShown /\ Onward(sRequests, sRequests')
    BY <1>5, <2>1, MoreAsks DEF Onward
  <2>3. Untouched' => Untouched
    BY <1>5, MoreAsks DEF Untouched
  <2> QED BY <1>5, <1>a, <1>c, <2>2, <2>3, MoreAsks, SingleStays
<1>6. CASE Sidebar!ClearCurrentRunId
  BY <1>6 DEF Sidebar!ClearCurrentRunId, SingleInv, Untouched
<1>7. ASSUME NEW r \in 1 .. MaxRuns, Sidebar!OnSelectRun(r) PROVE SingleInv'
  BY <1>7 DEF Sidebar!OnSelectRun, SingleInv, Untouched
<1>8. ASSUME NEW r \in 1 .. MaxRuns, Sidebar!FinishedByOther(r) PROVE SingleInv'
  <2>1. "others" \in sWhy'
    BY <1>8 DEF Sidebar!FinishedByOther, Sidebar!Event
  <2> QED BY <2>1 DEF SingleInv, Untouched
<1>9. CASE Sidebar!ServeCreate
  <2>1. PICK r \in 1 .. MaxRuns :
          /\ sServer[r].channel = "none"
          /\ sServer' = [sServer EXCEPT ![r] = [channel |-> sCreating.to, state |-> "InProgress"]]
          /\ sCreating' = [sCreating EXCEPT !.run = r, !.step = "done"]
    BY <1>9 DEF Sidebar!ServeCreate
  <2>2. sCreating'.from = sCreating.from /\ sCreating'.to = sCreating.to /\ sCreating'.step = "done"
        /\ sCreating.step = "sent" /\ sServer \in Rows
    BY <1>9, <2>1 DEF Sidebar!ServeCreate, BarTypeInv, Rows
  <2>3. CASE sCreating.to = sChannel
    <3>1. ~Untouched'
      BY <1>9, <2>2, <2>3 DEF Sidebar!ServeCreate, Untouched, LooksInv
    <3> QED BY <3>1 DEF SingleInv
  <2>4. CASE sCreating.to # sChannel
    <3>1. k.channel = sChannel /\ k.channel # "none"
      BY <1>0, <1>a, SidebarAssumption DEF Active, Sidebar!Key
    <3>2. ASSUME NEW t \in 1 .. MaxRuns PROVE sServer'[t] = [channel |-> k.channel, state |-> k.state]
                                                <=> sServer[t] = [channel |-> k.channel, state |-> k.state]
      <4>1. CASE t = r
        BY <2>1, <2>2, <2>4, <3>1, <4>1, SidebarAssumption DEF Rows, SidebarRun
      <4>2. CASE t # r
        BY <2>1, <2>2, <4>2, SidebarAssumption DEF Rows, SidebarRun
      <4> QED BY <4>1, <4>2
    <3>3. Sidebar!Here(k)' = Sidebar!Here(k)
      BY <3>2 DEF Sidebar!Here
    <3>4. Untouched' => Untouched
      BY <1>9, <2>2 DEF Sidebar!ServeCreate, Untouched
    <3> QED BY <1>9, <1>a, <1>b, <3>3, <3>4, SingleStays DEF Sidebar!ServeCreate
  <2> QED BY <2>3, <2>4
<1>10. CASE Sidebar!HandleOnCreateRun
  BY <1>10 DEF Sidebar!HandleOnCreateRun, SingleInv, Untouched
<1>11. CASE Sidebar!GoToCreated
  <2>1. sCreating'.step = "none" /\ sCreating.to \in Channels /\ sCreating.to # sCreating.from
    BY <1>11 DEF Sidebar!GoToCreated, BarTypeInv
  <2>2. CASE sCreating.to = sChannel
    <3>1. Untouched' => Untouched
      BY <1>11, <2>1, <2>2 DEF Sidebar!GoToCreated, Untouched
    <3> QED BY <1>11, <1>a, <1>b, <1>c, <2>2, <3>1, SingleStays DEF Sidebar!GoToCreated
  <2>3. CASE sCreating.to # sChannel
    BY <1>11, <2>1, <2>3, EnterIs, SingleEntered DEF Sidebar!GoToCreated
  <2> QED BY <2>2, <2>3
<1>12. ASSUME NEW r \in 1 .. MaxRuns, NEW to \in Channels, Sidebar!OnUpdateChannel(r, to) PROVE SingleInv'
  <2>1. "moved" \in sWhy'
    BY <1>12 DEF Sidebar!OnUpdateChannel, Sidebar!Event
  <2> QED BY <2>1 DEF SingleInv, Untouched
<1>13. CASE Sidebar!OnAnimationEnd
  <2>1. "moved" \in sWhy'
    BY <1>13 DEF Sidebar!OnAnimationEnd, BarTypeInv
  <2> QED BY <2>1 DEF SingleInv, Untouched
<1>14. CASE Sidebar!ServeMove
  <2>1. "moved" \in sWhy'
    BY <1>14 DEF Sidebar!ServeMove, BarTypeInv
  <2> QED BY <2>1 DEF SingleInv, Untouched
<1>15. CASE Sidebar!MoveAnswered
  <2>1. "moved" \in sWhy'
    BY <1>15 DEF Sidebar!MoveAnswered, BarTypeInv
  <2> QED BY <2>1 DEF SingleInv, Untouched
<1>16. ASSUME NEW q \in sRequests, Sidebar!Serve(q) PROVE SingleInv'
  <2>1. PICK a \in Request : a.key = q.key /\ a.page = q.page /\ a.answer = Sidebar!GetRuns(q.key, q.page)
                             /\ sRequests' = (sRequests \ {q}) \cup {a}
    BY <1>16, ServedIs
  <2>2. Onward(sRequests, sRequests')
    BY <2>1 DEF Onward
  <2>3. Untouched' => Untouched
    BY <1>16 DEF Sidebar!Serve, Untouched
  <2> QED BY <1>16, <1>a, <1>c, <2>2, <2>3, SingleStays DEF Sidebar!Serve
<1>17. ASSUME NEW q \in sRequests, Sidebar!Deliver(q) PROVE SingleInv'
  BY <1>17, SingleDelivered
<1>18. ASSUME NEW q \in sRequests, Sidebar!Canceled(q) PROVE SingleInv'
  <2> SUFFICES ASSUME Untouched' PROVE SingleInv'
    BY DEF SingleInv
  <2>1. Untouched
    BY <1>18 DEF Sidebar!Canceled, Untouched
  <2>2. PICK v, g : v = Sidebar!View(k) /\ g = Sidebar!GetRuns(k, 0)
    OBVIOUS
  <2>3. Sidebar!View(k)' = v /\ Sidebar!GetRuns(k, 0)' = g
    BY <1>18, <1>c, <2>2, SameAnswers DEF Sidebar!Canceled
  <2>4. sOptions.sort = "create_at" => q.key # k
    BY <1>18, <1>a DEF Sidebar!Canceled, Sidebar!Shown, Sidebar!Both, Active, Sidebar!State
  <2>5. ~sCache[k].known => \E p \in sRequests' : p.key = k /\ p.page = 0
    BY <1>18, <1>a, <2>1, <2>4 DEF Sidebar!Canceled, SingleInv
  <2>6. k = Active(sChannel') /\ sRequests' \subseteq sRequests
    BY <1>18, <1>a DEF Sidebar!Canceled
  <2>7. /\ \A p \in sRequests' : p.key = k /\ p.page = 0 /\ p.step = "done" => p.answer = g
        /\ ~sCache'[k].known => sOptions'.sort = "create_at" /\ sCheckedFor' # sChannel'
        /\ sCache'[k].known /\ Len(v) # 1 => sCurrent' = Sidebar!None
        /\ sCache'[k].known /\ Len(v) = 1 =>
             /\ sCurrent' = v[1] /\ sCurrent' \in ToSet(sCache'[k].edges)
             /\ sOptions'.sort = "create_at"
             /\ \A p \in sRequests' : p.key = k => p.page = 0
    BY <1>18, <1>a, <2>1, <2>2, <2>6 DEF Sidebar!Canceled, SingleInv
  <2>8. sCache' = sCache
    BY <1>18 DEF Sidebar!Canceled
  <2> QED BY <2>3, <2>5, <2>6, <2>7, <2>8 DEF SingleInv
<1> QED BY <1>1, <1>2, <1>3, <1>4, <1>5, <1>6, <1>7, <1>8, <1>9, <1>10, <1>11, <1>12, <1>13,
           <1>14, <1>15, <1>16, <1>17, <1>18 DEF Sidebar!Next

-----------------------------------------------------------------------------
(* What was created stays open until something else is opened.             *)

LEMMA OpenStays ==
    ASSUME OpenInv, UNCHANGED <<sChannel, sCurrent, sCheckedFor, sCreated>>,
           sCreating' = sCreating \/ sCreating'.step = "none" \/ sCreating'.from = sChannel
    PROVE  OpenInv'
BY DEF OpenInv

LEMMA OpenStep ==
    ASSUME BarTypeInv, LooksInv, OpenInv, Sidebar!Next
    PROVE  OpenInv'
<1>1. ASSUME NEW ch \in Channels, Sidebar!SwitchChannel(ch) PROVE OpenInv'
  BY <1>1, EnterIs DEF Sidebar!SwitchChannel, Entered, OpenInv
<1>2. ASSUME NEW ch \in Channels, Sidebar!HandleCreate(ch) PROVE OpenInv'
  BY <1>2, OpenStays DEF Sidebar!HandleCreate
<1>3. ASSUME NEW s \in Sidebar!State, Sidebar!SetFilter(s) PROVE OpenInv'
  BY <1>3, OpenStays DEF Sidebar!SetFilter
<1>4. ASSUME NEW s \in {"create_at", "name"}, Sidebar!SetSort(s) PROVE OpenInv'
  BY <1>4, OpenStays DEF Sidebar!SetSort
<1>5. CASE Sidebar!GetMore
  BY <1>5, OpenStays DEF Sidebar!GetMore
<1>6. CASE Sidebar!ClearCurrentRunId
  BY <1>6 DEF Sidebar!ClearCurrentRunId, OpenInv
<1>7. ASSUME NEW r \in 1 .. MaxRuns, Sidebar!OnSelectRun(r) PROVE OpenInv'
  BY <1>7 DEF Sidebar!OnSelectRun, OpenInv
<1>8. ASSUME NEW r \in 1 .. MaxRuns, Sidebar!FinishedByOther(r) PROVE OpenInv'
  BY <1>8, OpenStays DEF Sidebar!FinishedByOther
<1>9. CASE Sidebar!ServeCreate
  <2>1. PICK r \in 1 .. MaxRuns : sCreating' = [sCreating EXCEPT !.run = r, !.step = "done"]
    BY <1>9 DEF Sidebar!ServeCreate
  <2>2. sCreating'.from = sCreating.from /\ sCreating.step = "sent"
    BY <1>9, <2>1 DEF Sidebar!ServeCreate, BarTypeInv
  <2> QED BY <1>9, <2>2 DEF Sidebar!ServeCreate, OpenInv
<1>10. CASE Sidebar!HandleOnCreateRun
  <2>1. sCreating'.step = "none" /\ sCreating.step = "done"
    BY <1>10 DEF Sidebar!HandleOnCreateRun, BarTypeInv
  <2>2. sCreating.from = sChannel => sCheckedFor = sChannel
    BY <2>1 DEF LooksInv
  <2> QED BY <1>10, <2>1, <2>2 DEF Sidebar!HandleOnCreateRun, OpenInv
<1>11. CASE Sidebar!GoToCreated
  <2>1. sCreating'.step = "none" /\ sCreating.to \in Channels
    BY <1>11 DEF Sidebar!GoToCreated, BarTypeInv
  <2>2. CASE sCreating.to = sChannel
    BY <1>11, <2>1, <2>2, OpenStays DEF Sidebar!GoToCreated
  <2>3. CASE sCreating.to # sChannel
    BY <1>11, <2>1, <2>3, EnterIs DEF Sidebar!GoToCreated, Entered, OpenInv
  <2> QED BY <2>2, <2>3
<1>12. ASSUME NEW r \in 1 .. MaxRuns, NEW to \in Channels, Sidebar!OnUpdateChannel(r, to) PROVE OpenInv'
  BY <1>12, OpenStays DEF Sidebar!OnUpdateChannel
<1>13. CASE Sidebar!OnAnimationEnd
  BY <1>13, OpenStays DEF Sidebar!OnAnimationEnd
<1>14. CASE Sidebar!ServeMove
  BY <1>14, OpenStays DEF Sidebar!ServeMove
<1>15. CASE Sidebar!MoveAnswered
  BY <1>15, OpenStays DEF Sidebar!MoveAnswered
<1>16. ASSUME NEW q \in sRequests, Sidebar!Serve(q) PROVE OpenInv'
  BY <1>16, OpenStays DEF Sidebar!Serve
<1>17. ASSUME NEW q \in sRequests, Sidebar!Deliver(q) PROVE OpenInv'
  BY <1>17, DeliveredIs DEF OpenInv
<1>18. ASSUME NEW q \in sRequests, Sidebar!Canceled(q) PROVE OpenInv'
  BY <1>18, OpenStays DEF Sidebar!Canceled
<1> QED BY <1>1, <1>2, <1>3, <1>4, <1>5, <1>6, <1>7, <1>8, <1>9, <1>10, <1>11, <1>12, <1>13,
           <1>14, <1>15, <1>16, <1>17, <1>18 DEF Sidebar!Next

-----------------------------------------------------------------------------
(* The created run is on the first page, or will be.                       *)

(* As long as the runs of the list and what is asked of it stay as they    *)
(* are.                                                                    *)
Kept(old, new) ==
    /\ \A q \in old : \E p \in new : p.key = q.key /\ p.page = q.page
    /\ \A q \in new : \/ q \in old
                      \/ q.step = "sent"
                      \/ q.answer = Sidebar!GetRuns(q.key, q.page)

LEMMA CreatedStays ==
    ASSUME BarTypeInv, CreatedInv, Settled' => Settled,
           UNCHANGED <<sChannel, sCache, sCreated>>, sOptions'.sort = sOptions.sort,
           NEW k, k = Sidebar!Key(sChannel, sOptions.sort, "InProgress"),
           Sidebar!Here(k)' = Sidebar!Here(k), Kept(sRequests, sRequests')
    PROVE  CreatedInv'
<1>1. PICK g : g = Sidebar!GetRuns(k, 0)
  OBVIOUS
<1>2. Sidebar!GetRuns(k, 0)' = g /\ k = Sidebar!Key(sChannel', sOptions'.sort, "InProgress")
  BY <1>1, SameAnswers
<1> SUFFICES ASSUME Settled', sCreated \in ToSet(g.items) PROVE CreatedInv'
  BY <1>2 DEF CreatedInv
<1>3. /\ \/ \E q \in sRequests : q.key = k /\ q.page = 0
         \/ \E n \in 1 .. Len(sCache[k].edges) : n <= PageSize /\ sCache[k].edges[n] = sCreated
      /\ \A q \in sRequests : q.key = k /\ q.page = 0 /\ q.step = "done" =>
            sCreated \in ToSet(q.answer.items)
  BY <1>1 DEF CreatedInv
<1>4. /\ \/ \E q \in sRequests' : q.key = k /\ q.page = 0
         \/ \E n \in 1 .. Len(sCache[k].edges) : n <= PageSize /\ sCache[k].edges[n] = sCreated
      /\ \A q \in sRequests' : q.key = k /\ q.page = 0 /\ q.step = "done" =>
            sCreated \in ToSet(q.answer.items)
  BY <1>1, <1>3 DEF Kept
<1> QED BY <1>2, <1>4 DEF CreatedInv

(* The lists were just asked for, and nothing was under way.               *)
LEMMA CreatedAsked ==
    ASSUME BarTypeInv, NEW sort \in {"create_at", "name"}, Sidebar!Query(Sidebar!Both(sChannel, sort)),
           Sidebar!Reasons(Sidebar!Both(sChannel, sort)) = {} \/ sWhy' \cap {"joined", "sortJoined"} # {},
           sChannel' = sChannel, sOptions'.sort = sort
    PROVE  CreatedInv'
<1> SUFFICES ASSUME Settled' PROVE CreatedInv'
  BY DEF CreatedInv
<1>1. PICK k : k = Sidebar!Key(sChannel, sort, "InProgress")
  OBVIOUS
<1>2. "joined" \notin Sidebar!Reasons(Sidebar!Both(sChannel, sort))
  BY DEF Settled
<1>3. /\ \E q \in sRequests' : q.key = k /\ q.page = 0
      /\ \A q \in sRequests' : q.key = k /\ q.page = 0 => q.step # "done"
  BY <1>1, <1>2, BothAsked
<1> QED BY <1>1, <1>3 DEF CreatedInv

LEMMA CreatedDelivered ==
    ASSUME BarTypeInv, LooksInv, OpenInv, CreatedInv, NEW p \in sRequests, Sidebar!Deliver(p)
    PROVE  CreatedInv'
<1>1. /\ p \in Request /\ p.step = "done" /\ sRequests' = sRequests \ {p}
      /\ sCache' \in [Sidebar!Keys -> Data] /\ sCache'[p.key].known
      /\ \A i \in Sidebar!Keys : i # p.key => sCache'[i] = sCache[i]
      /\ p.page = 0 => sCache'[p.key].edges = p.answer.items
      /\ p.page > 0 => \A n \in 1 .. Len(sCache[p.key].edges) : n <= PageSize =>
                          /\ n \in 1 .. Len(sCache'[p.key].edges)
                          /\ sCache'[p.key].edges[n] = sCache[p.key].edges[n]
      /\ UNCHANGED <<sServer, sChannel, sOptions, sCreating, sMoving, sEvents, sCreated, sTouched, sWhy>>
  BY DeliveredIs
<1>2. PICK k : k = Sidebar!Key(sChannel, sOptions.sort, "InProgress")
  OBVIOUS
<1>3. /\ k \in Sidebar!Keys /\ p.key \in Sidebar!Keys
      /\ k = Sidebar!Key(sChannel', sOptions'.sort, "InProgress")
  <2>1. "InProgress" \in Sidebar!State
    BY DEF Sidebar!State
  <2> QED BY <1>1, <1>2, <2>1, KeysAre DEF BarTypeInv, Request
<1>4. PICK g : g = Sidebar!GetRuns(k, 0)
  OBVIOUS
<1>5. Sidebar!GetRuns(k, 0)' = g
  <2>1. Sidebar!Here(k)' = Sidebar!Here(k)
    BY <1>1 DEF Sidebar!Here
  <2> QED BY <1>4, <2>1, SameAnswers
<1> SUFFICES ASSUME Settled', sCreated \in ToSet(g.items) PROVE CreatedInv'
  BY <1>1, <1>3, <1>5 DEF CreatedInv
<1>6. Settled
  BY <1>1 DEF Settled
<1>7. /\ \/ \E q \in sRequests : q.key = k /\ q.page = 0
         \/ \E n \in 1 .. Len(sCache[k].edges) : n <= PageSize /\ sCache[k].edges[n] = sCreated
      /\ \A q \in sRequests : q.key = k /\ q.page = 0 /\ q.step = "done" =>
            sCreated \in ToSet(q.answer.items)
  BY <1>2, <1>4, <1>6 DEF CreatedInv
<1>8. \A q \in sRequests' : q.key = k /\ q.page = 0 /\ q.step = "done" => sCreated \in ToSet(q.answer.items)
  BY <1>1, <1>7
<1>9. \/ \E q \in sRequests' : q.key = k /\ q.page = 0
      \/ \E n \in 1 .. Len(sCache'[k].edges) : n <= PageSize /\ sCache'[k].edges[n] = sCreated
  <2>1. CASE p.key = k /\ p.page = 0
    <3>1. sCreated \in ToSet(p.answer.items) /\ sCache'[k].edges = p.answer.items
      BY <1>1, <1>7, <2>1
    <3>2. Len(p.answer.items) <= PageSize /\ Len(p.answer.items) \in Nat /\ PageSize \in Nat
      BY <1>1, <2>1, SidebarAssumption DEF LooksInv, Request, Page
    <3>3. PICK n \in 1 .. Len(p.answer.items) : p.answer.items[n] = sCreated
      BY <3>1 DEF ToSet
    <3>4. n <= PageSize
      BY <3>2
    <3> QED BY <3>1, <3>3, <3>4
  <2>2. CASE p.key = k /\ p.page # 0
    <3>1. p.page > 0
      BY <1>1, <2>2 DEF Request
    <3>2. CASE \E q \in sRequests : q.key = k /\ q.page = 0
      BY <1>1, <2>2, <3>2
    <3>3. CASE \E n \in 1 .. Len(sCache[k].edges) : n <= PageSize /\ sCache[k].edges[n] = sCreated
      BY <1>1, <2>2, <3>1, <3>3
    <3> QED BY <1>7, <3>2, <3>3
  <2>3. CASE p.key # k
    BY <1>1, <1>3, <1>7, <2>3
  <2> QED BY <2>1, <2>2, <2>3
<1> QED BY <1>1, <1>3, <1>5, <1>8, <1>9 DEF CreatedInv

LEMMA CreatedStep ==
    ASSUME BarTypeInv, LooksInv, SingleInv, OpenInv, CreatedInv, Sidebar!Next
    PROVE  CreatedInv'
<1>0. sOptions.sort \in {"create_at", "name"} /\ sChannel \in Channels
  BY DEF BarTypeInv
<1>a. PICK k : k = Sidebar!Key(sChannel, sOptions.sort, "InProgress")
  OBVIOUS
<1>b. Kept(sRequests, sRequests)
  BY DEF Kept
<1>c. sServer' = sServer => Sidebar!Here(k)' = Sidebar!Here(k)
  BY DEF Sidebar!Here
<1>1. ASSUME NEW ch \in Channels, Sidebar!SwitchChannel(ch) PROVE CreatedInv'
  BY <1>1, EnterIs DEF Sidebar!SwitchChannel, Entered, CreatedInv, Settled
<1>2. ASSUME NEW ch \in Channels, Sidebar!HandleCreate(ch) PROVE CreatedInv'
  <2>1. Settled' => Settled
    BY <1>2 DEF Sidebar!HandleCreate, Sidebar!Event, Settled
  <2> QED BY <1>2, <1>a, <1>b, <1>c, <2>1, CreatedStays DEF Sidebar!HandleCreate
<1>3. ASSUME NEW s \in Sidebar!State, Sidebar!SetFilter(s) PROVE CreatedInv'
  <2>1. Settled' => Settled
    BY <1>3 DEF Sidebar!SetFilter, Sidebar!Event, Settled
  <2>2. sOptions'.sort = sOptions.sort
    BY <1>3 DEF Sidebar!SetFilter, BarTypeInv
  <2> QED BY <1>3, <1>a, <1>b, <1>c, <2>1, <2>2, CreatedStays DEF Sidebar!SetFilter
<1>4. ASSUME NEW s \in {"create_at", "name"}, Sidebar!SetSort(s) PROVE CreatedInv'
  <2>1. sOptions'.sort = s
    BY <1>4 DEF Sidebar!SetSort, BarTypeInv
  <2> QED BY <1>4, <2>1, CreatedAsked DEF Sidebar!SetSort, Sidebar!Event
<1>5. CASE Sidebar!GetMore
  <2>1. PICK a \in Request : a.step = "sent" /\ sRequests' = sRequests \cup {a}
    BY <1>5, MoreAsks
  <2>2. Kept(sRequests, sRequests')
    BY <2>1 DEF Kept
  <2>3. Settled' => Settled
    BY <1>5, MoreAsks DEF Settled
  <2> QED BY <1>5, <1>a, <1>c, <2>2, <2>3, MoreAsks, CreatedStays
<1>6. CASE Sidebar!ClearCurrentRunId
  BY <1>6 DEF Sidebar!ClearCurrentRunId, CreatedInv, Settled
<1>7. ASSUME NEW r \in 1 .. MaxRuns, Sidebar!OnSelectRun(r) PROVE CreatedInv'
  BY <1>7 DEF Sidebar!OnSelectRun, CreatedInv, Settled
<1>8. ASSUME NEW r \in 1 .. MaxRuns, Sidebar!FinishedByOther(r) PROVE CreatedInv'
  <2>1. "others" \in sWhy'
    BY <1>8 DEF Sidebar!FinishedByOther, Sidebar!Event
  <2> QED BY <2>1 DEF CreatedInv, Settled
<1>9. CASE Sidebar!ServeCreate
  <2>1. PICK r \in 1 .. MaxRuns :
          /\ sServer[r].channel = "none"
          /\ sServer' = [sServer EXCEPT ![r] = [channel |-> sCreating.to, state |-> "InProgress"]]
          /\ sCreating' = [sCreating EXCEPT !.run = r, !.step = "done"]
    BY <1>9 DEF Sidebar!ServeCreate
  <2>2. sCreating'.from = sCreating.from /\ sCreating'.to = sCreating.to /\ sCreating'.step = "done"
        /\ sCreating.step = "sent" /\ sServer \in Rows
    BY <1>9, <2>1 DEF Sidebar!ServeCreate, BarTypeInv, Rows
  <2>3. CASE sCreating.to = sChannel
    <3>1. ~Settled'
      BY <1>9, <2>2, <2>3 DEF Sidebar!ServeCreate, Settled
    <3> QED BY <3>1 DEF CreatedInv
  <2>4. CASE sCreating.to # sChannel
    <3>1. k.channel = sChannel /\ k.channel # "none"
      BY <1>0, <1>a, SidebarAssumption DEF Sidebar!Key
    <3>2. ASSUME NEW t \in 1 .. MaxRuns PROVE sServer'[t] = [channel |-> k.channel, state |-> k.state]
                                                <=> sServer[t] = [channel |-> k.channel, state |-> k.state]
      <4>1. CASE t = r
        BY <2>1, <2>2, <2>4, <3>1, <4>1, SidebarAssumption DEF Rows, SidebarRun
      <4>2. CASE t # r
        BY <2>1, <2>2, <4>2, SidebarAssumption DEF Rows, SidebarRun
      <4> QED BY <4>1, <4>2
    <3>3. Sidebar!Here(k)' = Sidebar!Here(k)
      BY <3>2 DEF Sidebar!Here
    <3>4. Settled' => Settled
      BY <1>9, <2>2 DEF Sidebar!ServeCreate, Settled
    <3> QED BY <1>9, <1>a, <1>b, <3>3, <3>4, CreatedStays DEF Sidebar!ServeCreate
  <2> QED BY <2>3, <2>4
<1>10. CASE Sidebar!HandleOnCreateRun
  <2>1. Sidebar!Reasons(Sidebar!Shown) = {} \/ Sidebar!Reasons(Sidebar!Shown) = {"joined"}
    BY DEF Sidebar!Reasons
  <2>2. Sidebar!Reasons(Sidebar!Shown) = {} \/ sWhy' \cap {"joined", "sortJoined"} # {}
    BY <1>10, <2>1 DEF Sidebar!HandleOnCreateRun
  <2> QED BY <1>0, <1>10, <2>2, CreatedAsked DEF Sidebar!HandleOnCreateRun, Sidebar!Shown
<1>11. CASE Sidebar!GoToCreated
  <2>1. sCreating'.step = "none" /\ sCreating.to \in Channels /\ sCreating.to # sCreating.from
        /\ sCreating.step # "none"
    BY <1>11 DEF Sidebar!GoToCreated, BarTypeInv
  <2>2. CASE sCreating.to = sChannel
    <3>1. sCreated = Sidebar!None
      BY <2>1, <2>2 DEF OpenInv
    <3>2. sCreated' = Sidebar!None
      BY <1>11, <2>2, <3>1 DEF Sidebar!GoToCreated
    <3> QED BY <3>2 DEF CreatedInv, Settled
  <2>3. CASE sCreating.to # sChannel
    BY <1>11, <2>1, <2>3, EnterIs DEF Sidebar!GoToCreated, Entered, CreatedInv, Settled
  <2> QED BY <2>2, <2>3
<1>12. ASSUME NEW r \in 1 .. MaxRuns, NEW to \in Channels, Sidebar!OnUpdateChannel(r, to) PROVE CreatedInv'
  <2>1. Settled' => Settled
    BY <1>12 DEF Sidebar!OnUpdateChannel, Sidebar!Event, Settled
  <2> QED BY <1>12, <1>a, <1>b, <1>c, <2>1, CreatedStays DEF Sidebar!OnUpdateChannel
<1>13. CASE Sidebar!OnAnimationEnd
  <2>1. Settled' => Settled
    BY <1>13 DEF Sidebar!OnAnimationEnd, Settled
  <2> QED BY <1>13, <1>a, <1>b, <1>c, <2>1, CreatedStays DEF Sidebar!OnAnimationEnd
<1>14. CASE Sidebar!ServeMove
  <2>1. sMoving'.phase = "done"
    BY <1>14 DEF Sidebar!ServeMove, BarTypeInv
  <2> QED BY <2>1 DEF CreatedInv, Settled
<1>15. CASE Sidebar!MoveAnswered
  <2>1. Sidebar!Reasons(Sidebar!Shown) = {} \/ Sidebar!Reasons(Sidebar!Shown) = {"joined"}
    BY DEF Sidebar!Reasons
  <2>2. Sidebar!Reasons(Sidebar!Shown) = {} \/ sWhy' \cap {"joined", "sortJoined"} # {}
    BY <1>15, <2>1 DEF Sidebar!MoveAnswered
  <2> QED BY <1>0, <1>15, <2>2, CreatedAsked DEF Sidebar!MoveAnswered, Sidebar!Shown
<1>16. ASSUME NEW q \in sRequests, Sidebar!Serve(q) PROVE CreatedInv'
  <2>1. PICK a \in Request : a.key = q.key /\ a.page = q.page /\ a.answer = Sidebar!GetRuns(q.key, q.page)
                             /\ sRequests' = (sRequests \ {q}) \cup {a}
    BY <1>16, ServedIs
  <2>2. Kept(sRequests, sRequests')
    BY <2>1 DEF Kept
  <2>3. Settled' => Settled
    BY <1>16 DEF Sidebar!Serve, Settled
  <2> QED BY <1>16, <1>a, <1>c, <2>2, <2>3, CreatedStays DEF Sidebar!Serve
<1>17. ASSUME NEW q \in sRequests, Sidebar!Deliver(q) PROVE CreatedInv'
  BY <1>17, CreatedDelivered
<1>18. ASSUME NEW q \in sRequests, Sidebar!Canceled(q) PROVE CreatedInv'
  <2> SUFFICES ASSUME Settled' PROVE CreatedInv'
    BY DEF CreatedInv
  <2>1. Settled
    BY <1>18 DEF Sidebar!Canceled, Settled
  <2>2. PICK g : g = Sidebar!GetRuns(k, 0)
    OBVIOUS
  <2>3. Sidebar!GetRuns(k, 0)' = g /\ k = Sidebar!Key(sChannel', sOptions'.sort, "InProgress")
    BY <1>18, <1>a, <1>c, <2>2, SameAnswers DEF Sidebar!Canceled
  <2>4. q.key # k
    BY <1>18, <1>a DEF Sidebar!Canceled, Sidebar!Shown, Sidebar!Both, Sidebar!State
  <2>5. sCache' = sCache /\ sCreated' = sCreated /\ sRequests' = sRequests \ {q}
    BY <1>18 DEF Sidebar!Canceled
  <2>6. sCreated \in ToSet(g.items) =>
          /\ \/ \E p \in sRequests' : p.key = k /\ p.page = 0
             \/ \E n \in 1 .. Len(sCache[k].edges) : n <= PageSize /\ sCache[k].edges[n] = sCreated
          /\ \A p \in sRequests' : p.key = k /\ p.page = 0 /\ p.step = "done" =>
                sCreated \in ToSet(p.answer.items)
    BY <1>a, <2>1, <2>2, <2>4, <2>5 DEF CreatedInv
  <2> QED BY <2>3, <2>5, <2>6 DEF CreatedInv
<1> QED BY <1>1, <1>2, <1>3, <1>4, <1>5, <1>6, <1>7, <1>8, <1>9, <1>10, <1>11, <1>12, <1>13,
           <1>14, <1>15, <1>16, <1>17, <1>18 DEF Sidebar!Next

-----------------------------------------------------------------------------
(* In a quiet moment: the list is known, and what is open is on it.        *)

LEMMA BarInvIsInductive == Sidebar!Init /\ [][Sidebar!Next]_Sidebar!vars => []BarInv
<1>1. Sidebar!Init => BarInv
  BY BarTypeInit, LooksInit, SingleInit DEF Sidebar!Init, OpenInv, CreatedInv, Settled, BarInv
<1>2. BarInv /\ [Sidebar!Next]_Sidebar!vars => BarInv'
  <2> SUFFICES ASSUME BarInv, [Sidebar!Next]_Sidebar!vars PROVE BarInv'
    OBVIOUS
  <2>1. CASE Sidebar!Next
    BY <2>1, BarTypeStep, LooksStep, SingleStep, OpenStep, CreatedStep DEF BarInv
  <2>2. CASE UNCHANGED Sidebar!vars
    <3>1. BarTypeInv'
      BY <2>2 DEF BarInv, BarTypeInv, Sidebar!vars
    <3>2. LooksInv'
      BY <2>2 DEF BarInv, LooksInv, Sidebar!vars
    <3>3. SingleInv'
      <4>1. PICK k : k = Active(sChannel)
        OBVIOUS
      <4>2. Sidebar!Here(k)' = Sidebar!Here(k) /\ Onward(sRequests, sRequests') /\ (Untouched' => Untouched)
        BY <2>2 DEF Sidebar!vars, Sidebar!Here, Onward, Untouched
      <4> QED BY <2>2, <4>1, <4>2, SingleStays DEF Sidebar!vars, BarInv
    <3>4. OpenInv'
      BY <2>2 DEF BarInv, OpenInv, Sidebar!vars
    <3>5. CreatedInv'
      <4>1. PICK k : k = Sidebar!Key(sChannel, sOptions.sort, "InProgress")
        OBVIOUS
      <4>2. Sidebar!Here(k)' = Sidebar!Here(k) /\ Kept(sRequests, sRequests') /\ (Settled' => Settled)
        BY <2>2 DEF Sidebar!vars, Sidebar!Here, Kept, Settled
      <4> QED BY <2>2, <4>1, <4>2, CreatedStays DEF Sidebar!vars, BarInv
    <3> QED BY <3>1, <3>2, <3>3, <3>4, <3>5 DEF BarInv
  <2> QED BY <2>1, <2>2
<1> QED BY <1>1, <1>2, PTL

LEMMA SingleFollows == BarInv => Sidebar!SingleRunOpens
<1> SUFFICES ASSUME BarInv, Sidebar!Idle, ~sTouched,
                    sWhy \cap {"visitedBefore", "others", "joined", "leftCreating", "moved"} = {}
             PROVE  LET active == Sidebar!View(Active(sChannel))
                    IN  IF Len(active) = 1 THEN Sidebar!Details /\ sCurrent = active[1]
                                           ELSE ~Sidebar!Details
  BY DEF Sidebar!SingleRunOpens, Active
<1>1. PICK k : k = Active(sChannel)
  OBVIOUS
<1>2. Untouched
  BY DEF Sidebar!Idle, Untouched
<1>3. sCache[k].known
  BY <1>1, <1>2 DEF Sidebar!Idle, BarInv, SingleInv
<1>4. CASE Len(Sidebar!View(k)) = 1
  <2>1. /\ sCurrent = Sidebar!View(k)[1] /\ sCurrent \in ToSet(sCache[k].edges)
        /\ sOptions.sort = "create_at"
    BY <1>1, <1>2, <1>3, <1>4 DEF BarInv, SingleInv
  <2>2. Sidebar!View(k) \in Seq(SidebarRun)
    BY <1>1, ViewIs, ActiveIs DEF BarInv, BarTypeInv, Rows
  <2>3. Sidebar!View(k)[1] \in SidebarRun
    BY <1>4, <2>2
  <2>4. sCurrent # Sidebar!None
    BY <2>1, <2>3 DEF SidebarRun, Sidebar!None
  <2>5. k \in Sidebar!Shown
    BY <1>1, <2>1 DEF Sidebar!Shown, Sidebar!Both, Active, Sidebar!State
  <2> QED BY <1>1, <1>4, <2>1, <2>4, <2>5, SidebarWords DEF Sidebar!Details
<1>5. CASE Len(Sidebar!View(k)) # 1
  <2>1. sCurrent = Sidebar!None
    BY <1>1, <1>2, <1>3, <1>5 DEF BarInv, SingleInv
  <2> QED BY <1>1, <1>5, <2>1 DEF Sidebar!Details
<1> QED BY <1>4, <1>5

LEMMA CreatedFollows == BarInv => Sidebar!CreatedRunOpens
<1> SUFFICES ASSUME BarInv, Sidebar!Idle, sCreated # Sidebar!None, sWhy \cap {"joined", "sortJoined", "others"} = {},
                    sCreated \in ToSet(Sidebar!GetRuns(Sidebar!Key(sChannel, sOptions.sort,
                                                       "InProgress"), 0).items)
             PROVE  Sidebar!Details /\ sCurrent = sCreated
  BY SidebarWords DEF Sidebar!CreatedRunOpens
<1>1. PICK k : k = Sidebar!Key(sChannel, sOptions.sort, "InProgress")
  OBVIOUS
<1>2. Settled
  BY DEF Sidebar!Idle, Settled
<1>3. PICK n \in 1 .. Len(sCache[k].edges) : sCache[k].edges[n] = sCreated
  BY <1>1, <1>2 DEF Sidebar!Idle, BarInv, CreatedInv
<1>4. sCurrent = sCreated
  BY DEF BarInv, OpenInv
<1>5. k \in Sidebar!Shown
  BY <1>1 DEF Sidebar!Shown, Sidebar!Both, Sidebar!State
<1>6. sCurrent \in ToSet(sCache[k].edges)
  BY <1>3, <1>4 DEF ToSet
<1> QED BY <1>4, <1>5, <1>6, SidebarWords DEF Sidebar!Details

(* When the sidebar is idle and nothing was opened or closed, or changed,  *)
(* since the channel was entered, the details of its run in progress are   *)
(* open if it has one only, and the list is shown if not.                  *)
THEOREM SingleRunIsOpened == Sidebar!Spec => []Sidebar!SingleRunOpens
BY BarInvIsInductive, SingleFollows, PTL DEF Sidebar!Spec

(* When it is idle, the run the user created in the channel is open, if it *)
(* is on the first page and its list was fetched after it was created.     *)
THEOREM CreatedRunIsOpened == Sidebar!Spec => []Sidebar!CreatedRunOpens
BY BarInvIsInductive, CreatedFollows, PTL DEF Sidebar!Spec

(* The sidebar does nothing beside the lists that it would not do alone.   *)
LEMMA SidebarRuns == MCSpec => Sidebar!Spec
<1>1. MCInit => Sidebar!Init
  BY DEF MCInit
<1>2. [MCNext]_<<screen, vars, sidebarVars, taskVars>> => [Sidebar!Next]_Sidebar!vars
  BY DEF MCNext, sidebarVars, Sidebar!vars
<1> QED
  BY <1>1, <1>2, PTL DEF MCSpec, Sidebar!Spec

(* So it opens the single run of a channel (SingleRunIsOpened) there.      *)
THEOREM SingleBesideLists == MCSpec => []SingleRunOpens
BY SidebarRuns, SingleRunIsOpened, PTL DEF SingleRunOpens

(* And the run that was created (CreatedRunIsOpened).                      *)
THEOREM CreatedBesideLists == MCSpec => []CreatedRunOpens
BY SidebarRuns, CreatedRunIsOpened, PTL DEF CreatedRunOpens
=============================================================================
