---------------------------- MODULE RunSync_proofs ----------------------------
(***************************************************************************)
(* That an update of a run can come twice, whatever the handlers, edits    *)
(* and messages; and that an update applied to the version it was made     *)
(* from, or to one that shows the same, gives the next; and that a client  *)
(* that missed nothing ends up showing the row.  In five parts: sequences  *)
(* with identifiers and what applyIncrementalUpdate does to them; the      *)
(* message of two versions, which names every checklist and item that      *)
(* changed; what the requests make of the checklists of a run; SyncInv,    *)
(* what row, copies, messages, answers and client hold meanwhile; and the  *)
(* versions of the run a client that follows it may still show.            *)
(***************************************************************************)
EXTENDS RunSync, Integers, FiniteSetTheorems, SequenceTheorems, WellFoundedInduction, TLAPS

(* A set of numbers has a least element: what stands in for induction      *)
(* here.                                                                   *)
LEMMA LeastOf ==
    ASSUME NEW T, T \subseteq Nat, T # {}
    PROVE  \E x \in T : \A y \in T : x <= y
<1> DEFINE R == OpToRel(<, Nat)
<1>1. IsWellFoundedOn(R, Nat)
  BY NatLessThanWellFounded
<1>2. ASSUME NEW x \in Nat, NEW y \in Nat, ~(<<y, x>> \in R) PROVE x <= y
  <2>1. ~(y < x)
    BY <1>2 DEF OpToRel
  <2> QED BY <2>1
<1> HIDE DEF R
<1>3. PICK x \in T : \A y \in T : ~(<<y, x>> \in R)
  BY <1>1, WFMin, Zenon
<1>4. \A y \in T : x <= y
  BY <1>2, <1>3
<1> QED BY <1>4

Below(P, p) == {q \in P : q < p}

LEMMA BelowIs ==
    ASSUME NEW n \in Nat, NEW P, P \subseteq 1 .. n
    PROVE  /\ IsFiniteSet(P) /\ Cardinality(P) \in Nat
           /\ \A p \in P : Cardinality(Below(P, p)) \in 0 .. Cardinality(P) - 1
           /\ \A p, q \in P : p < q => Cardinality(Below(P, p)) < Cardinality(Below(P, q))
<1>1. IsFiniteSet(1 .. n)
  BY FS_Interval
<1>2. IsFiniteSet(P) /\ Cardinality(P) \in Nat
  BY <1>1, FS_Subset, FS_CardinalityType
<1>3. ASSUME NEW Q, Q \subseteq P, NEW p \in P, p \notin Q, NEW T, T = Q \cup {p}
      PROVE  /\ IsFiniteSet(Q) /\ Cardinality(Q) \in Nat /\ IsFiniteSet(T)
             /\ Cardinality(T) = Cardinality(Q) + 1
  BY <1>2, <1>3, FS_Subset, FS_CardinalityType, FS_AddElement
<1>4. ASSUME NEW p \in P PROVE Cardinality(Below(P, p)) \in 0 .. Cardinality(P) - 1
  <2>1. Below(P, p) \subseteq P /\ p \notin Below(P, p) /\ Below(P, p) \cup {p} \subseteq P
    BY DEF Below
  <2>2. PICK T : T = Below(P, p) \cup {p}
    OBVIOUS
  <2>3. /\ Cardinality(Below(P, p)) \in Nat /\ Cardinality(T) = Cardinality(Below(P, p)) + 1
    BY <1>3, <2>1, <2>2
  <2>4. Cardinality(T) <= Cardinality(P)
    BY <1>2, <2>1, <2>2, FS_Subset
  <2> QED BY <1>2, <2>3, <2>4
<1>5. ASSUME NEW p \in P, NEW q \in P, p < q
      PROVE  Cardinality(Below(P, p)) < Cardinality(Below(P, q))
  <2>1. /\ Below(P, p) \subseteq P /\ p \notin Below(P, p) /\ Below(P, q) \subseteq P
        /\ Below(P, p) \cup {p} \subseteq Below(P, q)
    <3>1. P \subseteq Nat
      OBVIOUS
    <3>2. p \in Nat /\ q \in Nat /\ ~(p < p)
      BY <3>1
    <3>3. \A r \in P : r < p => r < q
      BY <1>5, <3>1, <3>2
    <3>4. /\ \A r : r \in Below(P, p) <=> r \in P /\ r < p
          /\ \A r : r \in Below(P, q) <=> r \in P /\ r < q
      BY DEF Below
    <3> QED BY <1>5, <3>2, <3>3, <3>4
  <2>2. PICK T : T = Below(P, p) \cup {p}
    OBVIOUS
  <2>3. /\ Cardinality(Below(P, p)) \in Nat /\ Cardinality(T) = Cardinality(Below(P, p)) + 1
    BY <1>3, <2>1, <2>2
  <2>4. IsFiniteSet(Below(P, q)) /\ Cardinality(Below(P, q)) \in Nat
    BY <1>2, <2>1, FS_Subset, FS_CardinalityType
  <2>5. Cardinality(T) <= Cardinality(Below(P, q))
    BY <2>1, <2>2, <2>4, FS_Subset
  <2> QED BY <2>3, <2>4, <2>5
<1> QED BY <1>2, <1>4, <1>5

LEMMA NthExists ==
    ASSUME NEW n \in Nat, NEW P, P \subseteq 1 .. n, NEW k \in 1 .. Cardinality(P)
    PROVE  \E p \in P : Cardinality(Below(P, p)) = k - 1
<1> DEFINE f == [p \in P |-> Cardinality(Below(P, p))]
           Bad == {j \in 1 .. Cardinality(P) : \A p \in P : f[p] # j - 1}
<1>1. IsFiniteSet(P) /\ Cardinality(P) \in Nat /\ P \subseteq Nat
  <2>1. IsFiniteSet(P) /\ Cardinality(P) \in Nat
    BY BelowIs
  <2>2. P \subseteq Nat
    OBVIOUS
  <2> QED BY <2>1, <2>2
<1>2. f \in [P -> 0 .. Cardinality(P) - 1] /\ \A p, q \in P : p < q => f[p] < f[q]
  <2>1. /\ \A p \in P : Cardinality(Below(P, p)) \in 0 .. Cardinality(P) - 1
        /\ \A p, q \in P : p < q => Cardinality(Below(P, p)) < Cardinality(Below(P, q))
    BY BelowIs
  <2> QED BY <2>1
<1>3. \A p \in P : f[p] = Cardinality(Below(P, p))
  OBVIOUS
<1> HIDE DEF f
<1> SUFFICES ASSUME Bad # {} PROVE FALSE
  BY <1>3
<1>4. PICK j \in Bad : \A i \in Bad : j <= i
  <2>1. Bad \subseteq Nat
    BY <1>1
  <2> HIDE DEF Bad
  <2> QED BY <2>1, LeastOf
<1>5. j \in 1 .. Cardinality(P) /\ \A p \in P : f[p] # j - 1
  BY <1>4
<1>6. j # 1 => \E r \in P : f[r] = j - 2
  <2> SUFFICES ASSUME j # 1 PROVE \E r \in P : f[r] = j - 2
    OBVIOUS
  <2>1. j - 1 \in 1 .. Cardinality(P) /\ ~(j <= j - 1) /\ j - 1 - 1 = j - 2
    BY <1>1, <1>5
  <2>2. j - 1 \notin Bad
    BY <1>4, <2>1
  <2> QED BY <2>1, <2>2
<1> HIDE DEF Bad
<1>7. PICK Q : Q = {q \in P : f[q] < j - 1}
  OBVIOUS
<1>8. IsFiniteSet(Q) /\ Cardinality(Q) \in Nat /\ Cardinality(Q) <= j - 1
  <2>1. IsFiniteSet(Q) /\ Cardinality(Q) \in Nat
    BY <1>1, <1>7, FS_Subset, FS_CardinalityType
  <2>2. CASE j = 1
    <3>1. \A q \in P : ~(f[q] < j - 1)
      BY <1>1, <1>2, <2>2
    <3>2. Q = {}
      BY <1>7, <3>1
    <3> QED BY <2>1, <2>2, <3>2, FS_EmptySet
  <2>3. CASE j # 1
    <3>1. PICK r \in P : f[r] = j - 2
      BY <1>6, <2>3
    <3>2. PICK B : B = Below(P, r)
      OBVIOUS
    <3>3. B \subseteq P /\ r \notin B
      BY <1>1, <3>2 DEF Below
    <3>4. IsFiniteSet(B) /\ Cardinality(B) = j - 2
      BY <1>1, <1>3, <3>1, <3>2, <3>3, FS_Subset
    <3>5. IsFiniteSet(B \cup {r}) /\ Cardinality(B \cup {r}) = j - 1
      BY <1>1, <1>5, <3>3, <3>4, FS_AddElement
    <3>6. ASSUME NEW q \in Q, q # r PROVE q \in B
      <4>1. q \in P /\ f[q] < j - 1 /\ f[q] \in Nat /\ q \in Nat /\ r \in Nat
        BY <1>1, <1>2, <1>7
      <4>2. ~(r < q)
        <5>1. r < q => f[r] < f[q]
          BY <1>2, <4>1
        <5> QED BY <1>5, <3>1, <4>1, <5>1
      <4> QED BY <3>2, <3>6, <4>1, <4>2 DEF Below
    <3>7. Q \subseteq B \cup {r}
      BY <3>6
    <3>8. Cardinality(Q) <= Cardinality(B \cup {r})
      BY <3>5, <3>7, FS_Subset
    <3> QED BY <2>1, <3>5, <3>8
  <2> QED BY <2>2, <2>3
<1>9. P \ Q # {}
  <2>1. Q # P
    BY <1>1, <1>5, <1>8
  <2> QED BY <1>7, <2>1
<1>10. PICK p \in P \ Q : \A q \in P \ Q : p <= q
  <2>1. P \ Q \subseteq Nat
    BY <1>1
  <2> QED BY <1>9, <2>1, LeastOf
<1>11. f[p] \in Nat /\ ~(f[p] < j - 1) /\ f[p] # j - 1
  BY <1>1, <1>2, <1>5, <1>7, <1>10
<1>12. Below(P, p) = Q
  <2>1. ASSUME NEW q \in Q PROVE q < p
    <3>1. q \in P /\ f[q] < j - 1 /\ f[q] \in Nat /\ q \in Nat /\ p \in Nat
      BY <1>1, <1>2, <1>7, <1>10
    <3>2. ~(p < q) /\ p # q
      <4>1. p < q => f[p] < f[q]
        BY <1>2, <1>10, <3>1
      <4> QED BY <1>5, <1>10, <1>11, <3>1, <4>1
    <3> QED BY <3>1, <3>2
  <2>2. ASSUME NEW q \in P, q < p PROVE q \in Q
    BY <1>1, <1>10, <2>2
  <2>3. Q \subseteq P
    BY <1>7
  <2> QED BY <2>1, <2>2, <2>3 DEF Below
<1>13. f[p] = Cardinality(Q)
  BY <1>3, <1>10, <1>12
<1> QED BY <1>5, <1>8, <1>11, <1>13

LEMMA NthIs ==
    ASSUME NEW n \in Nat, NEW P, P \subseteq 1 .. n
    PROVE  /\ Cardinality(P) \in Nat
           /\ \A k \in 1 .. Cardinality(P) : Nth(P, k) \in P
           /\ \A k, l \in 1 .. Cardinality(P) : k < l => Nth(P, k) < Nth(P, l)
           /\ \A p \in P : \E k \in 1 .. Cardinality(P) : Nth(P, k) = p
           /\ \A k \in 1 .. Cardinality(P) : \A p \in P :
                Cardinality(Below(P, p)) = k - 1 => Nth(P, k) = p
<1> DEFINE f == [p \in P |-> Cardinality(Below(P, p))]
<1>1. Cardinality(P) \in Nat /\ P \subseteq Nat
  <2>1. Cardinality(P) \in Nat
    BY BelowIs
  <2>2. P \subseteq Nat
    OBVIOUS
  <2> QED BY <2>1, <2>2
<1>2. f \in [P -> 0 .. Cardinality(P) - 1] /\ \A p, q \in P : p < q => f[p] < f[q]
  <2>1. /\ \A p \in P : Cardinality(Below(P, p)) \in 0 .. Cardinality(P) - 1
        /\ \A p, q \in P : p < q => Cardinality(Below(P, p)) < Cardinality(Below(P, q))
    BY BelowIs
  <2> QED BY <2>1
<1>3. \A p \in P : f[p] = Cardinality(Below(P, p))
  OBVIOUS
<1> HIDE DEF f
<1>4. ASSUME NEW k \in 1 .. Cardinality(P)
      PROVE  Nth(P, k) \in P /\ f[Nth(P, k)] = k - 1
  <2>1. Nth(P, k) = CHOOSE p \in P : Cardinality(Below(P, p)) = k - 1
    BY DEF Nth, Below
  <2>2. \E p \in P : Cardinality(Below(P, p)) = k - 1
    BY NthExists
  <2> QED BY <1>3, <2>1, <2>2
<1>5. ASSUME NEW p \in P, NEW q \in P
      PROVE  /\ f[p] < f[q] => p < q
             /\ f[p] = f[q] => p = q
  <2>1. p \in Nat /\ q \in Nat /\ f[p] \in Nat /\ f[q] \in Nat
    BY <1>1, <1>2
  <2>2. (p < q => f[p] < f[q]) /\ (q < p => f[q] < f[p])
    BY <1>2
  <2> QED BY <2>1, <2>2
<1>6. ASSUME NEW k \in 1 .. Cardinality(P), NEW l \in 1 .. Cardinality(P), k < l
      PROVE  Nth(P, k) < Nth(P, l)
  <2>1. f[Nth(P, k)] < f[Nth(P, l)]
    BY <1>1, <1>4, <1>6
  <2> QED BY <1>4, <1>5, <2>1
<1>7. ASSUME NEW p \in P PROVE \E k \in 1 .. Cardinality(P) : Nth(P, k) = p
  <2>1. f[p] \in 0 .. Cardinality(P) - 1
    BY <1>2
  <2>2. PICK k : k = f[p] + 1
    OBVIOUS
  <2>3. k \in 1 .. Cardinality(P) /\ k - 1 = f[p]
    BY <1>1, <2>1, <2>2
  <2> QED BY <1>4, <1>5, <2>3
<1>8. ASSUME NEW k \in 1 .. Cardinality(P), NEW p \in P, Cardinality(Below(P, p)) = k - 1
      PROVE  Nth(P, k) = p
  BY <1>3, <1>4, <1>5, <1>8
<1> QED BY <1>1, <1>4, <1>6, <1>7, <1>8

(* f pairs the elements of S with those of T.                              *)
Pairs(f, S, T) ==
    /\ \A x \in S : f[x] \in T
    /\ \A x, y \in S : f[x] = f[y] => x = y
    /\ \A t \in T : \E x \in S : f[x] = t

LEMMA SameCount ==
    ASSUME NEW S, IsFiniteSet(S), NEW T, NEW f, Pairs(f, S, T)
    PROVE  Cardinality(S) = Cardinality(T)
<1>1. PICK g : g = [x \in S |-> f[x]]
  OBVIOUS
<1>2. g \in [S -> T] /\ (\A x, y \in S : g[x] = g[y] => x = y) /\ \A t \in T : \E x \in S : g[x] = t
  BY <1>1 DEF Pairs
<1>3. ExistsBijection(S, T)
  <2>1. DOMAIN g = S
    BY <1>2
  <2>2. g \in Injection(S, T)
    BY <1>2, <2>1 DEF Injection, IsInjective
  <2>3. g \in Surjection(S, T)
    BY <1>2 DEF Surjection
  <2> QED BY <2>2, <2>3 DEF ExistsBijection, Bijection
<1> QED BY <1>3, FS_Bijection

(* The nth of the positions in K, found among the positions in N first.    *)
PositionsOf(K, N) == {k \in 1 .. Cardinality(N) : Nth(N, k) \in K}

SameNth(N, K, J) ==
    /\ J \subseteq 1 .. Cardinality(N)
    /\ Cardinality(J) = Cardinality(K)
    /\ \A m \in 1 .. Cardinality(J) : Nth(N, Nth(J, m)) = Nth(K, m)

LEMMA NthOfNth ==
    ASSUME NEW n \in Nat, NEW N, N \subseteq 1 .. n, NEW K, K \subseteq N,
           NEW J, J = PositionsOf(K, N)
    PROVE  SameNth(N, K, J)
<1>0. J = {k \in 1 .. Cardinality(N) : Nth(N, k) \in K}
  BY DEF PositionsOf
<1> DEFINE f == [k \in 1 .. Cardinality(N) |-> Nth(N, k)]
<1>1. /\ Cardinality(N) \in Nat /\ J \subseteq 1 .. Cardinality(N) /\ K \subseteq 1 .. n
      /\ \A k \in 1 .. Cardinality(N) : Nth(N, k) \in N
      /\ \A k, l \in 1 .. Cardinality(N) : k < l => Nth(N, k) < Nth(N, l)
      /\ \A p \in N : \E k \in 1 .. Cardinality(N) : Nth(N, k) = p
  BY <1>0, NthIs
<1>2. /\ \A k \in 1 .. Cardinality(N) : f[k] = Nth(N, k) /\ f[k] \in Nat
      /\ \A k, l \in 1 .. Cardinality(N) : k < l => f[k] < f[l]
  <2>1. N \subseteq Nat
    OBVIOUS
  <2> QED BY <1>1, <2>1
<1> HIDE DEF f
<1>3. /\ \A k \in J : f[k] \in K /\ k \in Nat /\ f[k] \in Nat
      /\ \A p \in K : \E k \in J : f[k] = p
  <2>1. J \subseteq Nat
    BY <1>1
  <2>2. ASSUME NEW p \in K PROVE \E k \in J : f[k] = p
    <3>1. PICK k \in 1 .. Cardinality(N) : Nth(N, k) = p
      BY <1>1
    <3> QED BY <1>0, <1>2, <3>1
  <2> QED BY <1>0, <1>2, <2>1, <2>2
<1>4. \A k, l \in J : (k < l <=> f[k] < f[l]) /\ (f[k] = f[l] => k = l)
  <2> TAKE k, l \in J
  <2>1. k \in Nat /\ l \in Nat /\ f[k] \in Nat /\ f[l] \in Nat
    BY <1>3
  <2>2. (k < l => f[k] < f[l]) /\ (l < k => f[l] < f[k])
    BY <1>1, <1>2
  <2> QED BY <2>1, <2>2
<1>5. IsFiniteSet(J)
  BY <1>1, BelowIs
<1>6. Cardinality(J) = Cardinality(K)
  <2>1. (\A k \in J : f[k] \in K) /\ \A p \in K : \E k \in J : f[k] = p
    BY <1>3
  <2>2. \A k, l \in J : f[k] = f[l] => k = l
    BY <1>4, Zenon
  <2>3. Pairs(f, J, K)
    BY <2>1, <2>2 DEF Pairs
  <2> QED BY <1>5, <2>3, SameCount
<1>7. ASSUME NEW m \in 1 .. Cardinality(J) PROVE Nth(N, Nth(J, m)) = Nth(K, m)
  <2>1. PICK j \in J : Cardinality(Below(J, j)) = m - 1
    BY <1>1, NthExists
  <2>2. Nth(J, m) = j
    BY <1>1, <2>1, NthIs
  <2>3. Cardinality(Below(J, j)) = Cardinality(Below(K, f[j]))
    <3>1. PICK B, C : B = Below(J, j) /\ C = Below(K, f[j])
      OBVIOUS
    <3>2. B = {k \in J : k < j} /\ C = {p \in K : p < f[j]}
      BY <3>1 DEF Below
    <3>3. IsFiniteSet(B)
      BY <1>5, <3>2, FS_Subset
    <3>4. \A k \in B : f[k] \in C
      BY <1>3, <1>4, <3>2
    <3>5. \A p \in C : \E k \in B : f[k] = p
      BY <1>3, <1>4, <3>2
    <3>6. \A k, l \in B : f[k] = f[l] => k = l
      BY <1>4, <3>2
    <3>7. Pairs(f, B, C)
      BY <3>4, <3>5, <3>6 DEF Pairs
    <3> QED BY <3>1, <3>3, <3>7, SameCount
  <2>4. f[j] \in K /\ f[j] = Nth(N, j)
    BY <1>1, <1>2, <1>3
  <2>5. Nth(K, m) = f[j]
    <3>1. m \in 1 .. Cardinality(K) /\ Cardinality(Below(K, f[j])) = m - 1
      BY <1>6, <2>1, <2>3
    <3>2. \A k \in 1 .. Cardinality(K) : \A p \in K : Cardinality(Below(K, p)) = k - 1 => Nth(K, k) = p
      BY <1>1, NthIs
    <3> QED BY <2>4, <3>1, <3>2
  <2> QED BY <2>2, <2>4, <2>5
<1> QED BY <1>1, <1>6, <1>7 DEF SameNth

LEMMA NthOfInterval ==
    ASSUME NEW m \in Nat, NEW n \in Nat, m <= n
    PROVE  /\ Cardinality(m + 1 .. n) = n - m
           /\ \A k \in 1 .. n - m : Nth(m + 1 .. n, k) = m + k
<1>1. PICK P : P = m + 1 .. n
  OBVIOUS
<1>2. Cardinality(P) = n - m
  <2>1. Cardinality(m + 1 .. n) = IF m + 1 > n THEN 0 ELSE n - (m + 1) + 1
    BY FS_Interval
  <2> QED BY <1>1, <2>1
<1>3. ASSUME NEW k \in 1 .. n - m PROVE Nth(P, k) = m + k
  <2>1. P \subseteq 1 .. n /\ m + k \in P /\ k \in 1 .. Cardinality(P)
    BY <1>1, <1>2
  <2>2. Below(P, m + k) = m + 1 .. m + k - 1
    BY <1>1 DEF Below
  <2>3. Cardinality(m + 1 .. m + k - 1) = k - 1
    BY FS_Interval
  <2>4. Cardinality(Below(P, m + k)) = k - 1
    BY <2>2, <2>3
  <2>5. \A l \in 1 .. Cardinality(P) : \A p \in P : Cardinality(Below(P, p)) = l - 1 => Nth(P, l) = p
    BY <2>1, NthIs
  <2> QED BY <2>1, <2>4, <2>5
<1> QED BY <1>1, <1>2, <1>3
-----------------------------------------------------------------------------
(* Sequences of things with identifiers. *)

Distinct(s) == \A i, j \in DOMAIN s : s[i].id = s[j].id => i = j

(* The elements at some of the positions, in one formula. *)
ChosenAt(S, s, P) ==
    /\ At(s, P) \in Seq(S)
    /\ Len(At(s, P)) = Cardinality(P) /\ Cardinality(P) \in Nat
    /\ DOMAIN At(s, P) = 1 .. Cardinality(P)
    /\ \A k \in 1 .. Cardinality(P) : At(s, P)[k] = s[Nth(P, k)] /\ Nth(P, k) \in P
    /\ \A p \in P : \E k \in 1 .. Cardinality(P) : Nth(P, k) = p
    /\ \A k, l \in 1 .. Cardinality(P) : Nth(P, k) = Nth(P, l) => k = l

LEMMA AtChosen ==
    ASSUME NEW S, NEW s \in Seq(S), NEW P, P \subseteq 1 .. Len(s)
    PROVE  ChosenAt(S, s, P)
<1>1. Len(s) \in Nat
  OBVIOUS
<1>2. /\ Cardinality(P) \in Nat
      /\ \A k \in 1 .. Cardinality(P) : Nth(P, k) \in P
      /\ \A k, l \in 1 .. Cardinality(P) : k < l => Nth(P, k) < Nth(P, l)
      /\ \A p \in P : \E k \in 1 .. Cardinality(P) : Nth(P, k) = p
  BY <1>1, NthIs
<1>3. \A k \in 1 .. Cardinality(P) : s[Nth(P, k)] \in S
  <2>1. \A p \in P : s[p] \in S /\ p \in Nat
    OBVIOUS
  <2> QED BY <1>2, <2>1
<1>4. [k \in 1 .. Cardinality(P) |-> s[Nth(P, k)]] \in Seq(S)
  BY <1>2, <1>3, IsASeq
<1>5. At(s, P) = [k \in 1 .. Cardinality(P) |-> s[Nth(P, k)]]
  BY DEF At
<1>6. Len(At(s, P)) = Cardinality(P)
  BY <1>2, <1>4, <1>5, LenProperties
<1>7. ASSUME NEW k \in 1 .. Cardinality(P), NEW l \in 1 .. Cardinality(P), Nth(P, k) = Nth(P, l)
      PROVE  k = l
  <2>1. k \in Nat /\ l \in Nat /\ Nth(P, k) \in Nat
    <3>1. P \subseteq Nat /\ Nth(P, k) \in P
      BY <1>2
    <3>2. k \in Nat /\ l \in Nat
      BY <1>2
    <3> QED BY <3>1, <3>2
  <2>2. ~(k < l) /\ ~(l < k)
    BY <1>2, <1>7, <2>1
  <2> QED BY <2>1, <2>2
<1> QED BY <1>2, <1>4, <1>5, <1>6, <1>7 DEF ChosenAt

LEMMA AtIs ==
    ASSUME NEW S, NEW s \in Seq(S), NEW P, P \subseteq 1 .. Len(s)
    PROVE  /\ At(s, P) \in Seq(S)
           /\ Len(At(s, P)) = Cardinality(P) /\ Cardinality(P) \in Nat
           /\ DOMAIN At(s, P) = 1 .. Cardinality(P)
           /\ \A k \in 1 .. Cardinality(P) : At(s, P)[k] = s[Nth(P, k)] /\ Nth(P, k) \in P
           /\ \A p \in P : \E k \in 1 .. Cardinality(P) : Nth(P, k) = p
           /\ \A k, l \in 1 .. Cardinality(P) : Nth(P, k) = Nth(P, l) => k = l
<1>1. ChosenAt(S, s, P)
  BY AtChosen
<1> QED BY <1>1, Zenon DEF ChosenAt

LEMMA AtEnd ==
    ASSUME NEW S, NEW s \in Seq(S), NEW m \in 0 .. Len(s)
    PROVE  /\ Len(At(s, m + 1 .. Len(s))) = Len(s) - m
           /\ \A k \in 1 .. Len(s) - m : At(s, m + 1 .. Len(s))[k] = s[m + k]
<1>1. PICK P : P = m + 1 .. Len(s)
  OBVIOUS
<1>2. Len(s) \in Nat /\ m \in Nat /\ m <= Len(s) /\ P \subseteq 1 .. Len(s)
  BY <1>1
<1>3. Cardinality(P) = Len(s) - m /\ \A k \in 1 .. Len(s) - m : Nth(P, k) = m + k
  BY <1>1, <1>2, NthOfInterval
<1> QED BY <1>1, <1>2, <1>3, AtIs

LEMMA AtAll ==
    ASSUME NEW S, NEW s \in Seq(S)
    PROVE  At(s, 1 .. Len(s)) = s
<1>1. Len(s) \in Nat /\ 0 \in 0 .. Len(s) /\ 0 + 1 = 1
  OBVIOUS
<1>2. Len(At(s, 1 .. Len(s))) = Len(s) /\ \A k \in 1 .. Len(s) : At(s, 1 .. Len(s))[k] = s[k]
  <2>1. /\ Len(At(s, 0 + 1 .. Len(s))) = Len(s) - 0
        /\ \A k \in 1 .. Len(s) - 0 : At(s, 0 + 1 .. Len(s))[k] = s[0 + k]
    BY <1>1, AtEnd
  <2>2. Len(s) - 0 = Len(s) /\ \A k \in 1 .. Len(s) : 0 + k = k
    BY <1>1
  <2> QED BY <1>1, <2>1, <2>2
<1>3. At(s, 1 .. Len(s)) \in Seq(S)
  BY AtIs
<1> QED BY <1>2, <1>3, SeqEqual

LEMMA AtNone ==
    ASSUME NEW S, NEW s \in Seq(S)
    PROVE  At(s, {}) = <<>>
<1>1. At(s, {}) \in Seq(S) /\ Len(At(s, {})) = 0
  BY AtIs, FS_EmptySet
<1> QED BY <1>1, EmptySeq

LEMMA IDsAre ==
    ASSUME NEW S, NEW s \in Seq(S)
    PROVE  /\ DOMAIN s = 1 .. Len(s) /\ Len(s) \in Nat
           /\ ToSet(s) = {s[k] : k \in 1 .. Len(s)} /\ ToSet(s) \subseteq S
           /\ IDs(s) = {e.id : e \in ToSet(s)}
           /\ \A id : HasID(s, id) <=> id \in IDs(s)
BY DEF ToSet, IDs, HasID

LEMMA ByIDIs ==
    ASSUME NEW S, NEW s \in Seq(S), NEW id, id \in IDs(s)
    PROVE  /\ ByID(s, id) \in ToSet(s) /\ ByID(s, id) \in S /\ ByID(s, id).id = id
           /\ Distinct(s) => \A e \in ToSet(s) : e.id = id => e = ByID(s, id)
<1>1. DOMAIN s = 1 .. Len(s) /\ \A k \in 1 .. Len(s) : s[k] \in S
  OBVIOUS
<1>2. \E k \in DOMAIN s : s[k].id = id
  BY DEF IDs
<1>3. ByID(s, id) = s[CHOOSE i \in DOMAIN s : s[i].id = id]
  BY DEF ByID
<1>4. PICK k \in DOMAIN s : s[k].id = id /\ s[CHOOSE i \in DOMAIN s : s[i].id = id] = s[k]
  BY <1>2, Zenon
<1>5. s[k].id = id /\ ByID(s, id) = s[k]
  BY <1>3, <1>4
<1> QED BY <1>1, <1>5 DEF ToSet, Distinct

LEMMA WithoutIs ==
    ASSUME NEW S, NEW s \in Seq(S), NEW ids
    PROVE  /\ Without(s, ids) \in Seq(S)
           /\ ToSet(Without(s, ids)) = {e \in ToSet(s) : e.id \notin ids}
           /\ IDs(Without(s, ids)) = IDs(s) \ ids
           /\ Distinct(s) => Distinct(Without(s, ids))
           /\ IDs(s) \cap ids = {} => Without(s, ids) = s
           /\ IDs(s) \subseteq ids => Without(s, ids) = <<>>
<1>1. PICK P : P = {k \in DOMAIN s : s[k].id \notin ids}
  OBVIOUS
<1>2. DOMAIN s = 1 .. Len(s) /\ P \subseteq 1 .. Len(s)
  BY <1>1
<1>3. Without(s, ids) = At(s, P)
  BY <1>1 DEF Without
<1>4. PICK r : r = At(s, P)
  OBVIOUS
<1>5. /\ r \in Seq(S)
      /\ DOMAIN r = 1 .. Cardinality(P)
      /\ \A k \in 1 .. Cardinality(P) : r[k] = s[Nth(P, k)] /\ Nth(P, k) \in P
      /\ \A p \in P : \E k \in 1 .. Cardinality(P) : Nth(P, k) = p
      /\ \A k, l \in 1 .. Cardinality(P) : Nth(P, k) = Nth(P, l) => k = l
  <2>1. ChosenAt(S, s, P)
    BY <1>2, AtChosen
  <2> QED BY <1>4, <2>1, Zenon DEF ChosenAt
<1>6. ToSet(r) = {e \in ToSet(s) : e.id \notin ids}
  <2>1. ToSet(r) = {r[k] : k \in DOMAIN r} /\ ToSet(s) = {s[k] : k \in DOMAIN s}
    BY DEF ToSet
  <2>2. ASSUME NEW k \in DOMAIN r PROVE r[k] \in ToSet(s) /\ r[k].id \notin ids
    BY <1>1, <1>5, <2>1
  <2>3. ASSUME NEW p \in DOMAIN s, s[p].id \notin ids PROVE s[p] \in ToSet(r)
    <3>1. p \in P
      BY <1>1, <2>3
    <3>2. PICK k \in 1 .. Cardinality(P) : Nth(P, k) = p
      BY <1>5, <3>1
    <3> QED BY <1>5, <2>1, <3>2
  <2> QED BY <2>1, <2>2, <2>3
<1>7. IDs(r) = IDs(s) \ ids
  BY <1>5, <1>6, IDsAre
<1>8. Distinct(s) => Distinct(r)
  <2> SUFFICES ASSUME Distinct(s), NEW i \in DOMAIN r, NEW j \in DOMAIN r, r[i].id = r[j].id
               PROVE  i = j
    BY DEF Distinct
  <2>1. /\ Nth(P, i) \in DOMAIN s /\ Nth(P, j) \in DOMAIN s
        /\ s[Nth(P, i)].id = s[Nth(P, j)].id
    BY <1>2, <1>5
  <2>2. Nth(P, i) = Nth(P, j)
    BY <2>1 DEF Distinct
  <2> QED BY <1>5, <2>2
<1>9. IDs(s) \cap ids = {} => r = s
  <2> SUFFICES ASSUME IDs(s) \cap ids = {} PROVE r = s
    OBVIOUS
  <2>1. P = 1 .. Len(s)
    BY <1>1, <1>2 DEF IDs
  <2> QED BY <1>4, <2>1, AtAll
<1>10. IDs(s) \subseteq ids => r = <<>>
  <2> SUFFICES ASSUME IDs(s) \subseteq ids PROVE r = <<>>
    OBVIOUS
  <2>1. P = {}
    BY <1>1, <1>2 DEF IDs
  <2> QED BY <1>4, <2>1, AtNone
<1> QED BY <1>3, <1>4, <1>5, <1>6, <1>7, <1>8, <1>9, <1>10

-----------------------------------------------------------------------------
(* Items: what an update does to one of them. *)

Id   == Nat \X Nat \X Nat
Item == [id : Id, state : {StateOpen, StateClosed, StateSkipped}, detail : Nat, updateAt : Nat]
Items == {s \in Seq(Item) : Distinct(s)}

ChangesOf(P, C) == GetChecklistItemUpdates(P, C).updates
RemovedOf(P, C) == IDs(P) \ IDs(C)
InsertsOf(P, C) == Without(C, IDs(P))

Change(e, U) ==
    [f \in DOMAIN e |->
        LET new == {u \in U : u.id = e.id /\ f \in DOMAIN u.fields}
        IN  IF new = {} THEN e[f] ELSE (CHOOSE u \in new : TRUE).fields[f]]

FieldsOf(p, q) == [f \in ChangedItemFields(p, q) |-> q[f]]

LEMMA ItemIs ==
    ASSUME NEW e \in Item
    PROVE  /\ DOMAIN e = {"id"} \cup ItemFields
           /\ e = [f \in {"id"} \cup ItemFields |-> e[f]]
BY DEF Item, ItemFields

LEMMA ItemsSame ==
    ASSUME NEW e \in Item, NEW g, g = [f \in {"id"} \cup ItemFields |-> g[f]], g.id = e.id,
           \A f \in ItemFields : g[f] = e[f]
    PROVE  g = e
BY ItemIs

LEMMA ChangesAre ==
    ASSUME NEW P \in Items, NEW C \in Items
    PROVE  \A u : u \in ChangesOf(P, C) <=>
             \E p \in ToSet(P), q \in ToSet(C) :
                p.id = q.id /\ ChangedItemFields(p, q) # {} /\ u = [id |-> q.id, fields |-> FieldsOf(p, q)]
<1> DEFINE X == {pq \in ToSet(P) \X ToSet(C) :
                   pq[1].id = pq[2].id /\ ChangedItemFields(pq[1], pq[2]) # {}}
           Y == {[id |-> pq[2].id, fields |-> FieldsOf(pq[1], pq[2])] : pq \in X}
<1>1. ChangesOf(P, C) = Y
  BY DEF ChangesOf, GetChecklistItemUpdates, FieldsOf
<1>2. \A u : u \in Y <=> \E pq \in X : u = [id |-> pq[2].id, fields |-> FieldsOf(pq[1], pq[2])]
  OBVIOUS
<1>3. ASSUME NEW p \in ToSet(P), NEW q \in ToSet(C), p.id = q.id, ChangedItemFields(p, q) # {}
      PROVE  <<p, q>> \in X
  BY <1>3
<1>4. \A pq \in X : /\ pq[1] \in ToSet(P) /\ pq[2] \in ToSet(C)
                    /\ pq[1].id = pq[2].id /\ ChangedItemFields(pq[1], pq[2]) # {}
  OBVIOUS
<1> HIDE DEF X
<1>5. ASSUME NEW p, NEW q, <<p, q>> \in X
      PROVE  \E pq \in X : [id |-> q.id, fields |-> FieldsOf(p, q)]
                            = [id |-> pq[2].id, fields |-> FieldsOf(pq[1], pq[2])]
  <2>1. <<p, q>>[1] = p /\ <<p, q>>[2] = q
    OBVIOUS
  <2> QED BY <1>5, <2>1
<1> HIDE DEF Y
<1> QED BY <1>1, <1>2, <1>3, <1>4, <1>5

LEMMA ChangeIs ==
    ASSUME NEW P \in Items, NEW C \in Items, NEW e \in Item
    PROVE  /\ \A p \in ToSet(P), q \in ToSet(C) : p.id = e.id /\ q.id = e.id =>
                Change(e, ChangesOf(P, C)) =
                    [f \in {"id"} \cup ItemFields |->
                        IF f \in ChangedItemFields(p, q) THEN q[f] ELSE e[f]]
           /\ (e.id \notin IDs(P) \/ e.id \notin IDs(C)) => Change(e, ChangesOf(P, C)) = e
<1> DEFINE U == ChangesOf(P, C)
           new(f) == {u \in U : u.id = e.id /\ f \in DOMAIN u.fields}
<1>0. P \in Seq(Item) /\ Distinct(P) /\ C \in Seq(Item) /\ Distinct(C)
  BY DEF Items
<1>1. Change(e, U) = [f \in {"id"} \cup ItemFields |->
                         IF new(f) = {} THEN e[f] ELSE (CHOOSE u \in new(f) : TRUE).fields[f]]
  BY ItemIs DEF Change
<1>2. ASSUME NEW p \in ToSet(P), NEW q \in ToSet(C), p.id = e.id, q.id = e.id, NEW f
      PROVE  /\ f \notin ChangedItemFields(p, q) => new(f) = {}
             /\ f \in ChangedItemFields(p, q) =>
                  new(f) = {[id |-> q.id, fields |-> FieldsOf(p, q)]}
  <2>1. ASSUME NEW u \in U, u.id = e.id
        PROVE  u = [id |-> q.id, fields |-> FieldsOf(p, q)] /\ ChangedItemFields(p, q) # {}
    <3>1. PICK r \in ToSet(P), t \in ToSet(C) :
            r.id = t.id /\ ChangedItemFields(r, t) # {} /\ u = [id |-> t.id, fields |-> FieldsOf(r, t)]
      BY ChangesAre
    <3>2. t.id = e.id /\ r.id = e.id
      BY <2>1, <3>1
    <3>3. r = p /\ t = q
      <4>1. e.id \in IDs(P) /\ e.id \in IDs(C)
        BY <1>0, <1>2, IDsAre
      <4> QED BY <1>0, <1>2, <3>2, <4>1, ByIDIs
    <3> QED BY <3>1, <3>3
  <2>2. ChangedItemFields(p, q) # {} => [id |-> q.id, fields |-> FieldsOf(p, q)] \in U
    BY <1>2, ChangesAre
  <2>3. DOMAIN FieldsOf(p, q) = ChangedItemFields(p, q)
    BY DEF FieldsOf
  <2>4. PICK v : v = [id |-> q.id, fields |-> FieldsOf(p, q)]
    OBVIOUS
  <2>5. v.id = e.id /\ DOMAIN v.fields = ChangedItemFields(p, q)
    BY <1>2, <2>3, <2>4
  <2> HIDE DEF U
  <2>6. \A u \in U : u.id = e.id => u = v
    BY <2>1, <2>4
  <2> QED BY <2>2, <2>4, <2>5, <2>6
<1>3. ASSUME NEW p \in ToSet(P), NEW q \in ToSet(C), p.id = e.id, q.id = e.id,
             NEW f \in {"id"} \cup ItemFields
      PROVE  (IF new(f) = {} THEN e[f] ELSE (CHOOSE u \in new(f) : TRUE).fields[f])
                = IF f \in ChangedItemFields(p, q) THEN q[f] ELSE e[f]
  <2>1. CASE f \notin ChangedItemFields(p, q)
    <3>1. new(f) = {}
      BY <1>2, <1>3, <2>1
    <3> QED BY <2>1, <3>1
  <2>2. CASE f \in ChangedItemFields(p, q)
    <3>1. PICK v : v = [id |-> q.id, fields |-> FieldsOf(p, q)]
      OBVIOUS
    <3>2. new(f) = {v}
      BY <1>2, <1>3, <2>2, <3>1
    <3>3. v.fields[f] = q[f]
      BY <2>2, <3>1 DEF FieldsOf
    <3> HIDE DEF new
    <3>4. (CHOOSE u \in new(f) : TRUE) = v
      BY <3>2
    <3> QED BY <2>2, <3>2, <3>3, <3>4
  <2> QED BY <2>1, <2>2
<1>4. ASSUME e.id \notin IDs(P) \/ e.id \notin IDs(C), NEW f PROVE new(f) = {}
  <2> SUFFICES ASSUME NEW u \in U, u.id = e.id PROVE FALSE
    OBVIOUS
  <2>1. PICK r \in ToSet(P), t \in ToSet(C) :
            r.id = t.id /\ u = [id |-> t.id, fields |-> FieldsOf(r, t)]
    BY ChangesAre
  <2>2. r.id = e.id /\ t.id = e.id
    BY <2>1
  <2> QED BY <1>0, <1>4, <2>2, IDsAre
<1>5. ASSUME e.id \notin IDs(P) \/ e.id \notin IDs(C) PROVE Change(e, U) = e
  <2>1. \A f \in {"id"} \cup ItemFields : new(f) = {}
    BY <1>4, <1>5
  <2> HIDE DEF new
  <2>2. Change(e, U) = [f \in {"id"} \cup ItemFields |-> e[f]]
    BY <1>1, <2>1
  <2> QED BY <2>2, ItemIs
<1>6. ASSUME NEW p \in ToSet(P), NEW q \in ToSet(C), p.id = e.id, q.id = e.id
      PROVE  Change(e, U) = [f \in {"id"} \cup ItemFields |->
                        IF f \in ChangedItemFields(p, q) THEN q[f] ELSE e[f]]
  <2> HIDE DEF new
  <2> QED BY <1>1, <1>3, <1>6
<1> QED BY <1>5, <1>6

LEMMA JoinIs ==
    ASSUME NEW S, NEW a \in Seq(S), NEW b \in Seq(S)
    PROVE  /\ a \o b \in Seq(S)
           /\ ToSet(a \o b) = ToSet(a) \cup ToSet(b)
           /\ IDs(a \o b) = IDs(a) \cup IDs(b)
           /\ Distinct(a) /\ Distinct(b) /\ IDs(a) \cap IDs(b) = {} => Distinct(a \o b)
<1>1. PICK c : c = a \o b
  OBVIOUS
<1>2. /\ c \in Seq(S) /\ Len(c) = Len(a) + Len(b) /\ Len(a) \in Nat /\ Len(b) \in Nat
      /\ \A i \in 1 .. Len(a) + Len(b) : c[i] = IF i <= Len(a) THEN a[i] ELSE b[i - Len(a)]
  BY <1>1, ConcatProperties, LenProperties
<1>3. DOMAIN c = 1 .. Len(a) + Len(b) /\ DOMAIN a = 1 .. Len(a) /\ DOMAIN b = 1 .. Len(b)
  BY <1>2, LenProperties
<1>4. \A i \in DOMAIN a : i \in DOMAIN c /\ c[i] = a[i]
  BY <1>2, <1>3
<1>5. \A i \in DOMAIN b : Len(a) + i \in DOMAIN c /\ c[Len(a) + i] = b[i]
  BY <1>2, <1>3
<1>6. \A i \in DOMAIN c : \/ i \in DOMAIN a /\ c[i] = a[i]
                          \/ i - Len(a) \in DOMAIN b /\ c[i] = b[i - Len(a)]
  BY <1>2, <1>3
<1>7. ToSet(c) = ToSet(a) \cup ToSet(b)
  BY <1>4, <1>5, <1>6 DEF ToSet
<1>8. IDs(c) = IDs(a) \cup IDs(b)
  BY <1>2, <1>7, IDsAre
<1>9. ASSUME Distinct(a), Distinct(b), IDs(a) \cap IDs(b) = {} PROVE Distinct(c)
  <2> SUFFICES ASSUME NEW i \in DOMAIN c, NEW j \in DOMAIN c, c[i].id = c[j].id PROVE i = j
    BY DEF Distinct
  <2>1. /\ \A k \in DOMAIN a : a[k].id \in IDs(a)
        /\ \A k \in DOMAIN b : b[k].id \in IDs(b)
    BY DEF IDs
  <2>2. i \in Nat /\ j \in Nat /\ Len(a) \in Nat
    BY <1>2, <1>3
  <2>3. CASE i \in DOMAIN a /\ c[i] = a[i] /\ j \in DOMAIN a /\ c[j] = a[j]
    BY <1>9, <2>3 DEF Distinct
  <2>4. CASE i - Len(a) \in DOMAIN b /\ c[i] = b[i - Len(a)] /\ j - Len(a) \in DOMAIN b /\ c[j] = b[j - Len(a)]
    <3>1. i - Len(a) = j - Len(a)
      BY <1>9, <2>4 DEF Distinct
    <3> QED BY <2>2, <3>1
  <2>5. CASE i \in DOMAIN a /\ c[i] = a[i] /\ j - Len(a) \in DOMAIN b /\ c[j] = b[j - Len(a)]
    BY <1>9, <2>1, <2>5
  <2>6. CASE j \in DOMAIN a /\ c[j] = a[j] /\ i - Len(a) \in DOMAIN b /\ c[i] = b[i - Len(a)]
    BY <1>9, <2>1, <2>6
  <2> QED BY <1>6, <2>3, <2>4, <2>5, <2>6
<1> QED BY <1>1, <1>2, <1>7, <1>8, <1>9

LEMMA ChangeGives ==
    ASSUME NEW P \in Items, NEW C \in Items, NEW e \in Item
    PROVE  /\ Change(e, ChangesOf(P, C)) \in Item /\ Change(e, ChangesOf(P, C)).id = e.id
           /\ e \in ToSet(C) => Change(e, ChangesOf(P, C)) = e
           /\ \A q \in ToSet(C) : e \in ToSet(P) /\ q.id = e.id => Change(e, ChangesOf(P, C)) = q
           /\ Change(Change(e, ChangesOf(P, C)), ChangesOf(P, C)) = Change(e, ChangesOf(P, C))
<1>0. P \in Seq(Item) /\ Distinct(P) /\ C \in Seq(Item) /\ Distinct(C)
  BY DEF Items
<1> DEFINE U == ChangesOf(P, C)
<1>1. CASE e.id \notin IDs(P) \/ e.id \notin IDs(C)
  <2>1. Change(e, U) = e
    BY <1>1, ChangeIs
  <2>2. \A q \in ToSet(C) : q.id \in IDs(C)
    BY <1>0, IDsAre
  <2>3. e \in ToSet(P) => e.id \in IDs(P)
    BY <1>0, IDsAre
  <2> HIDE DEF U
  <2>4. Change(Change(e, U), U) = Change(e, U)
    BY <2>1
  <2>5. \A q \in ToSet(C) : ~(e \in ToSet(P) /\ q.id = e.id)
    BY <1>1, <2>2, <2>3
  <2> QED BY <2>1, <2>4, <2>5 DEF U
<1>2. CASE e.id \in IDs(P) /\ e.id \in IDs(C)
  <2>1. PICK p \in ToSet(P) : p.id = e.id /\ p \in Item
    BY <1>0, <1>2, ByIDIs
  <2>2. PICK q \in ToSet(C) : q.id = e.id /\ q \in Item
    BY <1>0, <1>2, ByIDIs
  <2>3. ASSUME NEW x \in Item, x.id = e.id
        PROVE  Change(x, U) = [f \in {"id"} \cup ItemFields |->
                             IF f \in ChangedItemFields(p, q) THEN q[f] ELSE x[f]]
    <3>1. \A a \in ToSet(P), b \in ToSet(C) : a.id = x.id /\ b.id = x.id =>
            Change(x, U) = [f \in {"id"} \cup ItemFields |->
                               IF f \in ChangedItemFields(a, b) THEN b[f] ELSE x[f]]
      BY ChangeIs
    <3>2. p.id = x.id /\ q.id = x.id
      BY <2>1, <2>2, <2>3
    <3> HIDE DEF U
    <3> QED BY <3>1, <3>2
  <2> HIDE DEF U
  <2>4. ASSUME NEW x \in Item, x.id = e.id
        PROVE  /\ Change(x, U) \in Item /\ Change(x, U).id = x.id
               /\ \A f \in ItemFields : Change(x, U)[f] = IF f \in ChangedItemFields(p, q) THEN q[f] ELSE x[f]
    <3>1. PICK y : y = Change(x, U)
      OBVIOUS
    <3>2. y = [f \in {"id"} \cup ItemFields |->
                             IF f \in ChangedItemFields(p, q) THEN q[f] ELSE x[f]]
      BY <2>3, <2>4, <3>1
    <3>3. "id" \notin ItemFields
      BY DEF ItemFields
    <3>4. y.id = x.id
      BY <3>2, <3>3 DEF ChangedItemFields
    <3>5. \A f \in ItemFields : y[f] = IF f \in ChangedItemFields(p, q) THEN q[f] ELSE x[f]
      BY <3>2
    <3>6. /\ y.state = IF "state" \in ChangedItemFields(p, q) THEN q.state ELSE x.state
          /\ y.detail = IF "detail" \in ChangedItemFields(p, q) THEN q.detail ELSE x.detail
          /\ y.updateAt = IF "updateAt" \in ChangedItemFields(p, q) THEN q.updateAt ELSE x.updateAt
      BY <3>5 DEF ItemFields
    <3>7. y \in Item
      <4>1. DOMAIN y = {"id", "state", "detail", "updateAt"}
        BY <3>2 DEF ItemFields
      <4>2. y = [id |-> y.id, state |-> y.state, detail |-> y.detail, updateAt |-> y.updateAt]
        BY <3>2 DEF ItemFields
      <4>3. /\ y.id \in Id /\ y.state \in {StateOpen, StateClosed, StateSkipped}
            /\ y.detail \in Nat /\ y.updateAt \in Nat
        BY <2>2, <3>4, <3>6 DEF Item
      <4> QED BY <4>2, <4>3 DEF Item
    <3> QED BY <3>1, <3>4, <3>5, <3>7
  <2>5. PICK z : z = Change(e, U)
    OBVIOUS
  <2>6. /\ z \in Item /\ z.id = e.id
        /\ \A f \in ItemFields : z[f] = IF f \in ChangedItemFields(p, q) THEN q[f] ELSE e[f]
    BY <2>4, <2>5
  <2>7. Change(z, U) = z
    <3>1. \A f \in ItemFields : Change(z, U)[f] = z[f]
      BY <2>4, <2>6
    <3>2. Change(z, U) \in Item /\ Change(z, U).id = z.id
      BY <2>4, <2>6
    <3> QED BY <2>6, <3>1, <3>2, ItemIs
  <2>8. e \in ToSet(C) => z = e
    <3> SUFFICES ASSUME e \in ToSet(C) PROVE z = e
      OBVIOUS
    <3>1. e = q
      BY <1>0, <1>2, <2>2, ByIDIs
    <3> QED BY <2>2, <2>6, <3>1, ItemIs
  <2>9. ASSUME NEW r \in ToSet(C), e \in ToSet(P), r.id = e.id PROVE z = r
    <3>1. e = p /\ r = q
      BY <1>0, <1>2, <2>1, <2>2, <2>9, ByIDIs
    <3>2. \A f \in ItemFields : z[f] = q[f]
      BY <2>6, <3>1 DEF ChangedItemFields
    <3> QED BY <2>2, <2>6, <3>1, <3>2, ItemIs
  <2> QED BY <2>5, <2>6, <2>7, <2>8, <2>9 DEF U
<1> QED BY <1>1, <1>2

(* An update of a checklist, as far as it is about items that went from P  *)
(* to C.                                                                   *)
TellsItems(u, P, C) ==
    /\ u.updates = ChangesOf(P, C)
    /\ u.deletes = RemovedOf(P, C)
    /\ u.inserts = InsertsOf(P, C)

InsertsAre(P, C) ==
    /\ InsertsOf(P, C) \in Items
    /\ ToSet(InsertsOf(P, C)) = {e \in ToSet(C) : e.id \notin IDs(P)}
    /\ IDs(InsertsOf(P, C)) = IDs(C) \ IDs(P)

LEMMA InsertsHold == \A P, C \in Items : InsertsAre(P, C)
BY WithoutIs DEF InsertsAre, InsertsOf, Items

(* What a client's items are once they were told of the update.            *)
Told(Y, P, C) ==
    /\ \A e \in ToSet(Y) : Change(e, ChangesOf(P, C)) = e
    /\ IDs(Y) \cap RemovedOf(P, C) = {}
    /\ IDs(C) \ IDs(P) \subseteq IDs(Y)

LEMMA ChangeAll ==
    ASSUME NEW P \in Items, NEW C \in Items, NEW X \in Items, NEW Y,
           Y = [i \in DOMAIN X |-> Change(X[i], ChangesOf(P, C))]
    PROVE  /\ Y \in Items /\ Len(Y) = Len(X) /\ IDs(Y) = IDs(X)
           /\ \A i \in 1 .. Len(X) : Y[i] = Change(X[i], ChangesOf(P, C))
           /\ ToSet(Y) = {Change(e, ChangesOf(P, C)) : e \in ToSet(X)}
<1>1. X \in Seq(Item) /\ DOMAIN X = 1 .. Len(X) /\ Len(X) \in Nat
  BY DEF Items
<1>2. \A i \in 1 .. Len(X) : X[i] \in Item
  BY <1>1
<1>3. \A i \in 1 .. Len(X) : Change(X[i], ChangesOf(P, C)) \in Item /\ Change(X[i], ChangesOf(P, C)).id = X[i].id
  BY <1>2, ChangeGives
<1>4. [i \in 1 .. Len(X) |-> Change(X[i], ChangesOf(P, C))] \in Seq(Item)
  BY <1>1, <1>3, IsASeq
<1>5. Y \in Seq(Item) /\ DOMAIN Y = 1 .. Len(X) /\ \A i \in 1 .. Len(X) : Y[i] = Change(X[i], ChangesOf(P, C))
  BY <1>1, <1>4
<1>6. Len(Y) = Len(X)
  BY <1>1, <1>5, LenProperties
<1>7. Distinct(Y)
  BY <1>1, <1>3, <1>5 DEF Distinct, Items
<1>8. IDs(Y) = IDs(X)
  BY <1>1, <1>3, <1>5 DEF IDs
<1>9. ToSet(Y) = {Change(e, ChangesOf(P, C)) : e \in ToSet(X)}
  BY <1>1, <1>5 DEF ToSet
<1> QED BY <1>5, <1>6, <1>7, <1>8, <1>9 DEF Items

LEMMA AppliedItems ==
    ASSUME NEW P \in Items, NEW C \in Items, NEW X \in Items, NEW u, TellsItems(u, P, C)
    PROVE  /\ ApplyItemUpdates(X, u) \in Items
           /\ ToSet(ApplyItemUpdates(X, u)) =
                {e \in {Change(x, ChangesOf(P, C)) : x \in ToSet(X)} : e.id \notin RemovedOf(P, C)}
                \cup {e \in ToSet(C) : e.id \notin IDs(P) /\ e.id \notin IDs(X) \ RemovedOf(P, C)}
           /\ IDs(ApplyItemUpdates(X, u)) = (IDs(X) \ RemovedOf(P, C)) \cup (IDs(C) \ IDs(P))
           /\ Told(ApplyItemUpdates(X, u), P, C)
           /\ Told(X, P, C) => ApplyItemUpdates(X, u) = X
           /\ ToSet(X) \subseteq ToSet(P) /\ IDs(X) = IDs(P) /\ IDs(P) = IDs(C) =>
                ApplyItemUpdates(X, u) = [i \in DOMAIN X |-> Change(X[i], ChangesOf(P, C))]
<1> DEFINE chg(e) == Change(e, ChangesOf(P, C))
<1>1. PICK Y : Y = [i \in DOMAIN X |-> chg(X[i])]
  OBVIOUS
<1>2. /\ Y \in Seq(Item) /\ Distinct(Y) /\ IDs(Y) = IDs(X)
      /\ ToSet(Y) = {chg(e) : e \in ToSet(X)}
  <2>1. /\ Y \in Items /\ IDs(Y) = IDs(X)
        /\ ToSet(Y) = {chg(e) : e \in ToSet(X)}
    BY <1>1, ChangeAll
  <2> QED BY <2>1 DEF Items
<1>3. PICK K : K = Without(Y, RemovedOf(P, C))
  OBVIOUS
<1>4. /\ K \in Seq(Item) /\ Distinct(K) /\ IDs(K) = IDs(X) \ RemovedOf(P, C)
      /\ ToSet(K) = {e \in ToSet(Y) : e.id \notin RemovedOf(P, C)}
  BY <1>2, <1>3, WithoutIs
<1>5. PICK I : I = InsertsOf(P, C)
  OBVIOUS
<1>6. /\ I \in Seq(Item) /\ Distinct(I) /\ IDs(I) = IDs(C) \ IDs(P)
      /\ ToSet(I) = {e \in ToSet(C) : e.id \notin IDs(P)}
  BY <1>5, InsertsHold DEF InsertsAre, Items
<1>7. PICK J : J = Without(I, IDs(K))
  OBVIOUS
<1>8. /\ J \in Seq(Item) /\ Distinct(J) /\ IDs(J) = IDs(I) \ IDs(K)
      /\ ToSet(J) = {e \in ToSet(I) : e.id \notin IDs(K)}
      /\ IDs(I) \subseteq IDs(K) => J = <<>>
  BY <1>6, <1>7, WithoutIs
<1>9. PICK R : R = K \o J
  OBVIOUS
<1>10. ApplyItemUpdates(X, u) = R
  <2>1. u.updates = ChangesOf(P, C) /\ u.deletes = RemovedOf(P, C) /\ u.inserts = I
    BY <1>5 DEF TellsItems
  <2>2. ApplyItemUpdates(X, u) = InsertNewItems(Without(Y, u.deletes), u.inserts)
    BY <1>1, <2>1 DEF ApplyItemUpdates, Change
  <2> QED BY <1>3, <1>7, <1>9, <2>1, <2>2 DEF InsertNewItems
<1>11. /\ R \in Seq(Item) /\ Distinct(R) /\ IDs(R) = IDs(K) \cup IDs(J)
       /\ ToSet(R) = ToSet(K) \cup ToSet(J)
  BY <1>4, <1>8, <1>9, JoinIs
<1>12. ToSet(R) = {e \in {chg(x) : x \in ToSet(X)} : e.id \notin RemovedOf(P, C)}
                \cup {e \in ToSet(C) : e.id \notin IDs(P) /\ e.id \notin IDs(X) \ RemovedOf(P, C)}
  BY <1>2, <1>4, <1>6, <1>8, <1>11
<1>13. IDs(R) = (IDs(X) \ RemovedOf(P, C)) \cup (IDs(C) \ IDs(P))
  BY <1>4, <1>6, <1>8, <1>11
<1>14. Told(R, P, C)
  <2>1. ASSUME NEW e \in ToSet(R) PROVE chg(e) = e
    <3>1. CASE e \in ToSet(K)
      <4>1. PICK x \in ToSet(X) : e = chg(x)
        BY <1>2, <1>4, <3>1
      <4>2. x \in Item
        BY <4>1, IDsAre DEF Items
      <4> QED BY <4>1, <4>2, ChangeGives
    <3>2. CASE e \in ToSet(J)
      <4>1. e \in ToSet(C) /\ e \in Item
        BY <1>6, <1>8, <3>2, IDsAre
      <4> QED BY <4>1, ChangeGives
    <3> QED BY <1>11, <3>1, <3>2
  <2>2. IDs(R) \cap RemovedOf(P, C) = {}
    BY <1>13 DEF RemovedOf
  <2> QED BY <1>13, <2>1, <2>2 DEF Told
<1>15. ASSUME IDs(Y) \cap RemovedOf(P, C) = {}, IDs(I) \subseteq IDs(Y) PROVE R = Y
  <2>1. K = Y
    BY <1>2, <1>3, <1>15, WithoutIs
  <2>2. J = <<>>
    BY <1>8, <1>15, <2>1
  <2> QED BY <1>2, <1>9, <2>1, <2>2, ConcatEmptySeq
<1>16. ASSUME Told(X, P, C) PROVE R = X
  <2>1. X \in Seq(Item) /\ \A i \in 1 .. Len(X) : X[i] \in ToSet(X)
    BY DEF Items, ToSet
  <2>2. /\ Len(Y) = Len(X) /\ \A i \in 1 .. Len(X) : Y[i] = chg(X[i])
    BY <1>1, ChangeAll
  <2>3. \A i \in 1 .. Len(X) : Y[i] = X[i]
    BY <1>16, <2>1, <2>2 DEF Told
  <2>4. Y = X
    BY <1>2, <2>1, <2>2, <2>3, SeqEqual
  <2>5. R = Y
    BY <1>2, <1>6, <1>15, <1>16 DEF Told
  <2> QED BY <2>4, <2>5
<1>17. ASSUME IDs(X) = IDs(P), IDs(P) = IDs(C) PROVE R = Y
  BY <1>2, <1>6, <1>15, <1>17 DEF RemovedOf
<1> HIDE DEF chg
<1>18. R \in Items
  BY <1>11 DEF Items
<1> QED BY <1>1, <1>10, <1>12, <1>13, <1>14, <1>16, <1>17, <1>18 DEF chg

LEMMA SameLength ==
    ASSUME NEW m \in Nat, NEW n \in Nat, 1 .. m = 1 .. n
    PROVE  m = n
<1>1. ~(m < n)
  <2>1. m < n => n \in 1 .. n /\ n \notin 1 .. m
    OBVIOUS
  <2> QED BY <2>1
<1>2. ~(n < m)
  <2>1. n < m => m \in 1 .. m /\ m \notin 1 .. n
    OBVIOUS
  <2> QED BY <2>1
<1> QED BY <1>1, <1>2

LEMMA VersionTold ==
    ASSUME NEW P \in Items, NEW C \in Items
    PROVE  Told(C, P, C)
<1>1. C \in Seq(Item)
  BY DEF Items
<1>2. \A e \in ToSet(C) : e \in Item /\ e.id \in IDs(C)
  BY <1>1, IDsAre
<1>3. \A e \in ToSet(C) : Change(e, ChangesOf(P, C)) = e
  BY <1>2, ChangeGives
<1> QED BY <1>3 DEF Told, RemovedOf

(* From one version to the next, but for the order.                        *)
LEMMA VersionReached ==
    ASSUME NEW P \in Items, NEW C \in Items, NEW u, TellsItems(u, P, C)
    PROVE  /\ ToSet(ApplyItemUpdates(P, u)) = ToSet(C)
           /\ ItemsOrder(P) = ItemsOrder(C) => ApplyItemUpdates(P, u) = C
<1>0. P \in Seq(Item) /\ C \in Seq(Item) /\ Distinct(P) /\ Distinct(C)
  BY DEF Items
<1>00. /\ \A e \in ToSet(P) : e \in Item /\ e.id \in IDs(P)
       /\ \A e \in ToSet(C) : e \in Item /\ e.id \in IDs(C)
  BY <1>0, IDsAre
<1> DEFINE chg(e) == Change(e, ChangesOf(P, C))
<1>1. ASSUME NEW e \in ToSet(P), NEW q \in ToSet(C), q.id = e.id PROVE chg(e) = q
  BY <1>00, <1>1, ChangeGives
<1>2. ASSUME NEW e \in ToSet(P) PROVE chg(e).id = e.id
  BY <1>00, ChangeGives
<1>3. ToSet(ApplyItemUpdates(P, u)) =
                {e \in {chg(x) : x \in ToSet(P)} : e.id \notin RemovedOf(P, C)}
                \cup {e \in ToSet(C) : e.id \notin IDs(P) /\ e.id \notin IDs(P) \ RemovedOf(P, C)}
  BY AppliedItems
<1>4. ASSUME NEW e \in ToSet(C) PROVE e \in ToSet(ApplyItemUpdates(P, u))
  <2>1. CASE e.id \notin IDs(P)
    BY <1>3, <2>1
  <2>2. CASE e.id \in IDs(P)
    <3>1. PICK p \in ToSet(P) : p.id = e.id
      BY <1>0, <2>2, ByIDIs
    <3>2. chg(p) = e
      BY <1>1, <3>1
    <3>3. e.id \notin RemovedOf(P, C)
      BY <1>00 DEF RemovedOf
    <3> QED BY <1>3, <3>1, <3>2, <3>3
  <2> QED BY <2>1, <2>2
<1>5. ASSUME NEW e \in ToSet(ApplyItemUpdates(P, u)) PROVE e \in ToSet(C)
  <2>1. CASE e \in ToSet(C)
    BY <2>1
  <2>2. CASE e \notin ToSet(C)
    <3>1. PICK x \in ToSet(P) : e = chg(x) /\ e.id \notin RemovedOf(P, C)
      BY <1>3, <2>2
    <3>2. e.id = x.id /\ x.id \in IDs(P)
      BY <1>00, <1>2, <3>1
    <3>3. x.id \in IDs(C)
      BY <3>1, <3>2 DEF RemovedOf
    <3>4. PICK q \in ToSet(C) : q.id = x.id
      BY <1>0, <3>3, ByIDIs
    <3> QED BY <1>1, <2>2, <3>1, <3>4
  <2> QED BY <2>1, <2>2
<1>6. ASSUME ItemsOrder(P) = ItemsOrder(C) PROVE ApplyItemUpdates(P, u) = C
  <2>1. /\ DOMAIN P = 1 .. Len(P) /\ DOMAIN C = 1 .. Len(C) /\ Len(P) \in Nat /\ Len(C) \in Nat
    BY <1>0
  <2>2. DOMAIN ItemsOrder(P) = DOMAIN P /\ DOMAIN ItemsOrder(C) = DOMAIN C
    BY DEF ItemsOrder
  <2>3. Len(P) = Len(C)
    BY <1>6, <2>1, <2>2, SameLength
  <2>4. \A i \in 1 .. Len(P) : P[i].id = C[i].id
    <3>1. /\ \A i \in DOMAIN P : ItemsOrder(P)[i] = P[i].id
          /\ \A i \in DOMAIN C : ItemsOrder(C)[i] = C[i].id
      BY DEF ItemsOrder
    <3> QED BY <1>6, <2>1, <2>3, <3>1
  <2>5. IDs(P) = IDs(C)
    BY <2>1, <2>3, <2>4 DEF IDs
  <2>6. PICK Y : Y = [i \in DOMAIN P |-> chg(P[i])]
    OBVIOUS
  <2>7. ApplyItemUpdates(P, u) = Y
    BY <2>5, <2>6, AppliedItems
  <2>8. Y \in Seq(Item) /\ Len(Y) = Len(P) /\ \A i \in 1 .. Len(P) : Y[i] = chg(P[i])
    BY <2>6, ChangeAll DEF Items
  <2>9. \A i \in 1 .. Len(P) : P[i] \in ToSet(P) /\ C[i] \in ToSet(C)
    BY <2>1, <2>3 DEF ToSet
  <2>10. \A i \in 1 .. Len(P) : Y[i] = C[i]
    BY <1>1, <2>4, <2>8, <2>9
  <2>11. Y = C
    BY <1>0, <2>3, <2>8, <2>10, SeqEqual
  <2> QED BY <2>7, <2>11
<1> QED BY <1>4, <1>5, <1>6

-----------------------------------------------------------------------------
(* The order of the items. *)

(* What reordering is made of: the elements R has of the order, and others. *)
Named(R, order) == At(order, {k \in DOMAIN order : HasID(R, order[k])})
InOrder(R, order) == [k \in DOMAIN Named(R, order) |-> ByID(R, Named(R, order)[k])]
Rest(R, order) == Without(R, ToSet(order))
Places(R, C) == {k \in 1 .. Len(C) : C[k].id \in IDs(R)}

LEMMA OrderIs ==
    ASSUME NEW C \in Items
    PROVE  /\ ItemsOrder(C) \in Seq(Id) /\ Len(ItemsOrder(C)) = Len(C)
           /\ DOMAIN ItemsOrder(C) = 1 .. Len(C)
           /\ \A k \in 1 .. Len(C) : ItemsOrder(C)[k] = C[k].id
           /\ ToSet(ItemsOrder(C)) = IDs(C)
<1>1. C \in Seq(Item) /\ DOMAIN C = 1 .. Len(C) /\ Len(C) \in Nat /\ \A k \in 1 .. Len(C) : C[k] \in Item
  BY DEF Items
<1>2. \A k \in 1 .. Len(C) : C[k].id \in Id
  BY <1>1 DEF Item
<1>3. ItemsOrder(C) = [k \in 1 .. Len(C) |-> C[k].id]
  BY <1>1 DEF ItemsOrder
<1>4. ItemsOrder(C) \in Seq(Id)
  BY <1>1, <1>2, <1>3, IsASeq
<1>5. Len(ItemsOrder(C)) = Len(C)
  BY <1>1, <1>3, <1>4, LenProperties, SameLength
<1>6. ToSet(ItemsOrder(C)) = IDs(C)
  BY <1>1, <1>3 DEF ToSet, IDs
<1> QED BY <1>3, <1>4, <1>5, <1>6

LEMMA InOrderIs ==
    ASSUME NEW C \in Items, NEW R \in Items
    PROVE  /\ InOrder(R, ItemsOrder(C)) \in Items
           /\ Named(R, ItemsOrder(C)) = At(ItemsOrder(C), Places(R, C))
           /\ Len(InOrder(R, ItemsOrder(C))) = Cardinality(Places(R, C))
           /\ Cardinality(Places(R, C)) \in Nat
           /\ \A k \in 1 .. Cardinality(Places(R, C)) :
                /\ Nth(Places(R, C), k) \in Places(R, C)
                /\ InOrder(R, ItemsOrder(C))[k] = ByID(R, C[Nth(Places(R, C), k)].id)
           /\ IDs(InOrder(R, ItemsOrder(C))) = IDs(R) \cap IDs(C)
           /\ ToSet(InOrder(R, ItemsOrder(C))) = {e \in ToSet(R) : e.id \in IDs(C)}
<1> DEFINE order == ItemsOrder(C)
           named == Named(R, order)
           pre   == InOrder(R, order)
<1>K. PICK K : K = Places(R, C)
  OBVIOUS
<1>0. K = {k \in 1 .. Len(C) : C[k].id \in IDs(R)}
  BY <1>K DEF Places
<1>1. /\ C \in Seq(Item) /\ Distinct(C) /\ DOMAIN C = 1 .. Len(C)
      /\ R \in Seq(Item) /\ Distinct(R)
  BY DEF Items
<1>2. /\ order \in Seq(Id) /\ Len(order) = Len(C) /\ DOMAIN order = 1 .. Len(C)
      /\ \A k \in 1 .. Len(C) : order[k] = C[k].id
  BY OrderIs
<1> HIDE DEF order
<1>3. K = {k \in DOMAIN order : HasID(R, order[k])} /\ K \subseteq 1 .. Len(order)
  BY <1>0, <1>1, <1>2, IDsAre
<1>4. named = At(order, K)
  BY <1>3 DEF Named
<1> HIDE DEF named
<1>5. /\ DOMAIN named = 1 .. Cardinality(K) /\ Cardinality(K) \in Nat
      /\ \A k \in 1 .. Cardinality(K) : named[k] = order[Nth(K, k)] /\ Nth(K, k) \in K
      /\ \A p \in K : \E k \in 1 .. Cardinality(K) : Nth(K, k) = p
      /\ \A k, l \in 1 .. Cardinality(K) : Nth(K, k) = Nth(K, l) => k = l
  <2>1. /\ At(order, K) \in Seq(Id)
        /\ Len(At(order, K)) = Cardinality(K) /\ Cardinality(K) \in Nat
        /\ DOMAIN At(order, K) = 1 .. Cardinality(K)
        /\ \A k \in 1 .. Cardinality(K) : At(order, K)[k] = order[Nth(K, k)] /\ Nth(K, k) \in K
        /\ \A p \in K : \E k \in 1 .. Cardinality(K) : Nth(K, k) = p
        /\ \A k, l \in 1 .. Cardinality(K) : Nth(K, k) = Nth(K, l) => k = l
    <3>1. ChosenAt(Id, order, K)
      BY <1>2, <1>3, AtChosen
    <3> QED BY <3>1 DEF ChosenAt
  <2> QED BY <1>4, <2>1
<1>6. pre = [k \in 1 .. Cardinality(K) |-> ByID(R, named[k])]
  BY <1>5 DEF InOrder, named
<1>7. ASSUME NEW k \in 1 .. Cardinality(K)
      PROVE  /\ Nth(K, k) \in 1 .. Len(C) /\ named[k] = C[Nth(K, k)].id /\ named[k] \in IDs(R)
             /\ named[k] \in IDs(C)
             /\ ByID(R, named[k]) \in Item /\ ByID(R, named[k]).id = named[k]
             /\ ByID(R, named[k]) \in ToSet(R)
  <2>1. Nth(K, k) \in 1 .. Len(C) /\ named[k] = C[Nth(K, k)].id /\ C[Nth(K, k)].id \in IDs(R)
    BY <1>0, <1>2, <1>5
  <2>2. named[k] \in IDs(R) /\ named[k] \in IDs(C)
    BY <1>1, <2>1 DEF IDs
  <2> QED BY <1>1, <2>1, <2>2, ByIDIs
<1>8. pre \in Seq(Item)
  BY <1>5, <1>6, <1>7, IsASeq
<1>9. DOMAIN pre = 1 .. Cardinality(K) /\ Len(pre) = Cardinality(K)
      /\ \A k \in 1 .. Cardinality(K) : pre[k] = ByID(R, named[k])
  BY <1>5, <1>6, <1>8, LenProperties, SameLength
<1> HIDE DEF pre
<1>10. Distinct(pre)
  <2> SUFFICES ASSUME NEW i \in DOMAIN pre, NEW j \in DOMAIN pre, pre[i].id = pre[j].id
               PROVE  i = j
    BY DEF Distinct
  <2>1. named[i] = named[j]
    BY <1>7, <1>9
  <2>2. Nth(K, i) = Nth(K, j)
    BY <1>1, <1>7, <1>9, <2>1 DEF Distinct
  <2> QED BY <1>5, <1>9, <2>2
<1>11. ToSet(pre) = {e \in ToSet(R) : e.id \in IDs(C)}
  <2>1. \A x : x \in ToSet(pre) <=> \E k \in 1 .. Cardinality(K) : x = ByID(R, named[k])
    BY <1>9 DEF ToSet
  <2>2. ASSUME NEW k \in 1 .. Cardinality(K)
        PROVE  ByID(R, named[k]) \in ToSet(R) /\ ByID(R, named[k]).id \in IDs(C)
    BY <1>7
  <2>3. ASSUME NEW e \in ToSet(R), e.id \in IDs(C)
        PROVE  \E k \in 1 .. Cardinality(K) : e = ByID(R, named[k])
    <3>1. PICK p \in 1 .. Len(C) : C[p].id = e.id
      BY <1>1, <2>3 DEF IDs
    <3>2. e.id \in IDs(R)
      BY <1>1, IDsAre
    <3>3. PICK k \in 1 .. Cardinality(K) : Nth(K, k) = p
      BY <1>0, <1>5, <3>1, <3>2
    <3>4. named[k] = e.id
      BY <1>7, <3>1, <3>3
    <3>5. e = ByID(R, e.id)
      BY <1>1, <3>2, ByIDIs
    <3> QED BY <3>4, <3>5
  <2> QED BY <2>1, <2>2, <2>3
<1>12. IDs(pre) = IDs(R) \cap IDs(C)
  <2>1. IDs(pre) = {e.id : e \in ToSet(pre)} /\ IDs(R) = {e.id : e \in ToSet(R)}
    BY <1>1, <1>8, IDsAre
  <2> QED BY <1>11, <2>1
<1> QED BY <1>K, <1>4, <1>5, <1>7, <1>8, <1>9, <1>10, <1>11, <1>12 DEF Items, pre, named, order

LEMMA Reordered ==
    ASSUME NEW C \in Items, NEW R \in Items, NEW Y, Y = ReorderItemsByOrder(R, ItemsOrder(C))
    PROVE  /\ Y \in Items /\ ToSet(Y) = ToSet(R) /\ IDs(Y) = IDs(R)
           /\ Y = InOrder(R, ItemsOrder(C)) \o Rest(R, ItemsOrder(C))
           /\ ToSet(R) = ToSet(C) => Y = C
           /\ IDs(R) \subseteq IDs(C) => Y = InOrder(R, ItemsOrder(C))
<1> DEFINE K == Places(R, C)
<1>1. K = {k \in 1 .. Len(C) : C[k].id \in IDs(R)}
  BY DEF Places
<1>2. PICK pre : pre = InOrder(R, ItemsOrder(C))
  OBVIOUS
<1>3. /\ pre \in Seq(Item) /\ Distinct(pre)
      /\ Len(pre) = Cardinality(K)
      /\ \A k \in 1 .. Cardinality(K) : Nth(K, k) \in K /\ pre[k] = ByID(R, C[Nth(K, k)].id)
      /\ IDs(pre) = IDs(R) \cap IDs(C)
      /\ ToSet(pre) = {e \in ToSet(R) : e.id \in IDs(C)}
  <2>1. pre \in Items
    BY <1>1, <1>2, InOrderIs
  <2>2. pre \in Seq(Item) /\ Distinct(pre)
    BY <2>1 DEF Items
  <2> QED BY <1>1, <1>2, <2>2, InOrderIs
<1> HIDE DEF K
<1>4. PICK rest : rest = Rest(R, ItemsOrder(C))
  OBVIOUS
<1>5. rest = Without(R, IDs(C))
  BY <1>4, OrderIs DEF Rest
<1>6. R \in Seq(Item) /\ Distinct(R) /\ C \in Seq(Item) /\ Distinct(C)
  BY DEF Items
<1>7. /\ rest \in Seq(Item) /\ Distinct(rest)
      /\ ToSet(rest) = {e \in ToSet(R) : e.id \notin IDs(C)}
      /\ IDs(rest) = IDs(R) \ IDs(C)
      /\ IDs(R) \subseteq IDs(C) => rest = <<>>
  BY <1>5, <1>6, WithoutIs
<1>8. Y = pre \o rest
  BY <1>2, <1>4 DEF ReorderItemsByOrder, InOrder, Named, Rest
<1>9. /\ Y \in Seq(Item) /\ Distinct(Y)
      /\ ToSet(Y) = ToSet(pre) \cup ToSet(rest)
      /\ IDs(Y) = IDs(pre) \cup IDs(rest)
  BY <1>3, <1>7, <1>8, JoinIs
<1>10. Y \in Items /\ ToSet(Y) = ToSet(R) /\ IDs(Y) = IDs(R)
  BY <1>3, <1>7, <1>9 DEF Items
<1>11. IDs(R) \subseteq IDs(C) => Y = pre
  BY <1>3, <1>7, <1>8, ConcatEmptySeq
<1>12. ASSUME ToSet(R) = ToSet(C) PROVE Y = C
  <2>1. IDs(R) = IDs(C)
    BY <1>6, <1>12, IDsAre
  <2>2. DOMAIN C = 1 .. Len(C) /\ Len(C) \in Nat
    BY <1>6
  <2>3. K = 1 .. Len(C)
    BY <1>1, <2>1, <2>2 DEF IDs
  <2>4. Cardinality(K) = Len(C) /\ \A k \in 1 .. Len(C) : Nth(K, k) = k
    <3>1. 0 \in Nat /\ 0 <= Len(C) /\ 0 + 1 = 1 /\ Len(C) - 0 = Len(C)
      BY <2>2
    <3>2. /\ Cardinality(0 + 1 .. Len(C)) = Len(C) - 0
          /\ \A k \in 1 .. Len(C) - 0 : Nth(0 + 1 .. Len(C), k) = 0 + k
      BY <2>2, <3>1, NthOfInterval
    <3> QED BY <2>3, <3>1, <3>2
  <2>5. \A k \in 1 .. Len(C) : pre[k] = C[k]
    <3> TAKE k \in 1 .. Len(C)
    <3>1. pre[k] = ByID(R, C[k].id)
      BY <1>3, <2>4
    <3>2. C[k] \in ToSet(R) /\ C[k].id \in IDs(R)
      BY <1>12, <2>1, <2>2 DEF ToSet, IDs
    <3> QED BY <1>6, <3>1, <3>2, ByIDIs
  <2>6. pre = C
    BY <1>3, <1>6, <2>4, <2>5, SeqEqual
  <2> QED BY <1>11, <2>1, <2>6
<1> QED BY <1>2, <1>4, <1>8, <1>10, <1>11, <1>12

LEMMA ReorderedAgain ==
    ASSUME NEW C \in Items, NEW R \in Items, NEW Y, Y = ReorderItemsByOrder(R, ItemsOrder(C))
    PROVE  ReorderItemsByOrder(Y, ItemsOrder(C)) = Y
<1> DEFINE order == ItemsOrder(C)
<1>1. Y \in Items /\ ToSet(Y) = ToSet(R) /\ IDs(Y) = IDs(R) /\ Y = InOrder(R, order) \o Rest(R, order)
  BY Reordered
<1>2. /\ Y \in Seq(Item) /\ Distinct(Y) /\ R \in Seq(Item) /\ Distinct(R)
  BY <1>1 DEF Items
<1>0. PICK K : K = Places(R, C)
  OBVIOUS
<1>3. K = {k \in 1 .. Len(C) : C[k].id \in IDs(R)} /\ Places(Y, C) = K
  BY <1>0, <1>1 DEF Places
<1>4. /\ InOrder(R, order) \in Items /\ InOrder(Y, order) \in Items
      /\ Len(InOrder(R, order)) = Cardinality(K) /\ Len(InOrder(Y, order)) = Cardinality(K)
      /\ IDs(InOrder(R, order)) = IDs(R) \cap IDs(C)
  BY <1>0, <1>1, <1>3, InOrderIs
<1>5. InOrder(Y, order) = InOrder(R, order)
  <2>1. ASSUME NEW k \in 1 .. Cardinality(K)
        PROVE  InOrder(Y, order)[k] = InOrder(R, order)[k]
    <3>1. /\ Nth(K, k) \in K
          /\ InOrder(Y, order)[k] = ByID(Y, C[Nth(K, k)].id)
          /\ InOrder(R, order)[k] = ByID(R, C[Nth(K, k)].id)
      <4>1. ASSUME NEW Z \in Items, Places(Z, C) = K
            PROVE  Nth(K, k) \in K /\ InOrder(Z, order)[k] = ByID(Z, C[Nth(K, k)].id)
        <5>1. k \in 1 .. Cardinality(Places(Z, C))
          BY <4>1
        <5>2. /\ Nth(Places(Z, C), k) \in Places(Z, C)
              /\ InOrder(Z, order)[k] = ByID(Z, C[Nth(Places(Z, C), k)].id)
          BY <5>1, InOrderIs
        <5> QED BY <4>1, <5>2
      <4> QED BY <1>0, <1>1, <1>3, <4>1
    <3>2. PICK id : id = C[Nth(K, k)].id /\ id \in IDs(R) /\ id \in IDs(Y)
      BY <1>1, <1>3, <3>1
    <3>3. ByID(Y, id) = ByID(R, id)
      <4>1. ByID(R, id) \in ToSet(Y) /\ ByID(R, id).id = id
        BY <1>1, <1>2, <3>2, ByIDIs
      <4> QED BY <1>2, <3>2, <4>1, ByIDIs
    <3> QED BY <3>1, <3>2, <3>3
  <2> HIDE DEF order
  <2>2. InOrder(R, order) \in Seq(Item) /\ InOrder(Y, order) \in Seq(Item)
    BY <1>4 DEF Items
  <2> QED BY <1>4, <2>1, <2>2, SeqEqual
<1>6. PICK pre : pre = InOrder(R, order)
  OBVIOUS
<1>7. PICK rest : rest = Rest(R, order)
  OBVIOUS
<1>8. ToSet(order) = IDs(C)
  BY OrderIs
<1> HIDE DEF order
<1>9. /\ rest = Without(R, IDs(C)) /\ rest \in Seq(Item) /\ IDs(rest) = IDs(R) \ IDs(C)
  BY <1>2, <1>7, <1>8, WithoutIs DEF Rest
<1>10. pre \in Seq(Item) /\ IDs(pre) = IDs(R) \cap IDs(C)
  BY <1>4, <1>6 DEF Items
<1>11. /\ Len(Y) = Len(pre) + Len(rest) /\ Len(pre) \in Nat /\ Len(rest) \in Nat
       /\ \A k \in 1 .. Len(pre) + Len(rest) : Y[k] = IF k <= Len(pre) THEN pre[k] ELSE rest[k - Len(pre)]
  BY <1>1, <1>6, <1>7, <1>9, <1>10, ConcatProperties
<1>12. Without(Y, IDs(C)) = rest
  <2>1. /\ DOMAIN Y = 1 .. Len(Y) /\ DOMAIN pre = 1 .. Len(pre) /\ DOMAIN rest = 1 .. Len(rest)
    BY <1>2, <1>9, <1>10
  <2>2. \A k \in 1 .. Len(pre) : pre[k].id \in IDs(C)
    BY <1>10, <2>1 DEF IDs
  <2>3. \A k \in 1 .. Len(rest) : rest[k].id \notin IDs(C)
    BY <1>9, <2>1 DEF IDs
  <2>4. ASSUME NEW k \in 1 .. Len(Y) PROVE Y[k].id \notin IDs(C) <=> k > Len(pre)
    <3>1. CASE k <= Len(pre)
      BY <1>11, <2>2, <3>1
    <3>2. CASE ~(k <= Len(pre))
      <4>1. k - Len(pre) \in 1 .. Len(rest) /\ k > Len(pre) /\ k \in 1 .. Len(pre) + Len(rest)
        BY <1>11, <3>2
      <4> QED BY <1>11, <2>3, <3>2, <4>1
    <3> QED BY <3>1, <3>2
  <2>5. {k \in DOMAIN Y : Y[k].id \notin IDs(C)} = Len(pre) + 1 .. Len(Y)
    BY <1>11, <2>1, <2>4
  <2>6. Without(Y, IDs(C)) = At(Y, Len(pre) + 1 .. Len(Y))
    BY <2>5 DEF Without
  <2>7. Len(pre) \in 0 .. Len(Y)
    BY <1>11
  <2>8. /\ Len(At(Y, Len(pre) + 1 .. Len(Y))) = Len(Y) - Len(pre)
        /\ \A k \in 1 .. Len(Y) - Len(pre) : At(Y, Len(pre) + 1 .. Len(Y))[k] = Y[Len(pre) + k]
    BY <1>2, <2>7, AtEnd
  <2>9. Without(Y, IDs(C)) \in Seq(Item)
    BY <1>2, WithoutIs
  <2>10. PICK w : w = Without(Y, IDs(C))
    OBVIOUS
  <2>11. w \in Seq(Item) /\ Len(w) = Len(rest) /\ \A k \in 1 .. Len(rest) : w[k] = Y[Len(pre) + k]
    BY <1>11, <2>6, <2>8, <2>9, <2>10
  <2>12. \A k \in 1 .. Len(rest) : Y[Len(pre) + k] = rest[k]
    <3> TAKE k \in 1 .. Len(rest)
    <3>1. Len(pre) + k \in 1 .. Len(pre) + Len(rest) /\ ~(Len(pre) + k <= Len(pre))
          /\ Len(pre) + k - Len(pre) = k
      BY <1>11
    <3> QED BY <1>11, <3>1
  <2>13. w = rest
    BY <1>9, <2>11, <2>12, SeqEqual
  <2> QED BY <2>10, <2>13
<1>13. ReorderItemsByOrder(Y, order) = InOrder(Y, order) \o Without(Y, IDs(C))
  BY <1>8 DEF ReorderItemsByOrder, InOrder, Named
<1> QED BY <1>1, <1>5, <1>6, <1>7, <1>12, <1>13 DEF order

LEMMA InsertsOrdered ==
    ASSUME NEW P \in Items, NEW C \in Items
    PROVE  ReorderItemsByOrder(InsertsOf(P, C), ItemsOrder(C)) = InsertsOf(P, C)
<1>1. PICK R : R = InsertsOf(P, C)
  OBVIOUS
<1>2. /\ R \in Items /\ R \in Seq(Item) /\ Distinct(R) /\ IDs(R) = IDs(C) \ IDs(P)
  BY <1>1, InsertsHold DEF InsertsAre, Items
<1>0. PICK K : K = Places(R, C)
  OBVIOUS
<1>3. K = {k \in 1 .. Len(C) : C[k].id \in IDs(R)}
  BY <1>0 DEF Places
<1>4. C \in Seq(Item) /\ DOMAIN C = 1 .. Len(C)
  BY DEF Items
<1>5. K = {k \in DOMAIN C : C[k].id \notin IDs(P)}
  <2>1. \A k \in 1 .. Len(C) : C[k].id \in IDs(C)
    BY <1>4 DEF IDs
  <2> QED BY <1>2, <1>3, <1>4, <2>1
<1>6. R = At(C, K)
  BY <1>1, <1>5 DEF InsertsOf, Without
<1>7. /\ Len(R) = Cardinality(K)
      /\ \A k \in 1 .. Cardinality(K) : R[k] = C[Nth(K, k)]
  <2>1. K \subseteq 1 .. Len(C)
    BY <1>3
  <2>2. /\ At(C, K) \in Seq(Item)
        /\ Len(At(C, K)) = Cardinality(K) /\ Cardinality(K) \in Nat
        /\ DOMAIN At(C, K) = 1 .. Cardinality(K)
        /\ \A k \in 1 .. Cardinality(K) : At(C, K)[k] = C[Nth(K, k)] /\ Nth(K, k) \in K
        /\ \A p \in K : \E k \in 1 .. Cardinality(K) : Nth(K, k) = p
        /\ \A k, l \in 1 .. Cardinality(K) : Nth(K, k) = Nth(K, l) => k = l
    <3>1. ChosenAt(Item, C, K)
      BY <1>4, <2>1, AtChosen
    <3> QED BY <3>1 DEF ChosenAt
  <2> QED BY <1>6, <2>2
<1>8. PICK pre : pre = InOrder(R, ItemsOrder(C))
  OBVIOUS
<1>9. /\ pre \in Items /\ Len(pre) = Cardinality(K) /\ Cardinality(K) \in Nat
      /\ \A k \in 1 .. Cardinality(K) : Nth(K, k) \in K /\ pre[k] = ByID(R, C[Nth(K, k)].id)
  BY <1>0, <1>2, <1>8, InOrderIs
<1>10. \A k \in 1 .. Cardinality(K) : pre[k] = R[k]
  <2> TAKE k \in 1 .. Cardinality(K)
  <2>1. DOMAIN R = 1 .. Cardinality(K)
    BY <1>2, <1>7
  <2>2. R[k] \in ToSet(R) /\ R[k].id \in IDs(R)
    BY <2>1 DEF ToSet, IDs
  <2>3. pre[k] = ByID(R, R[k].id)
    BY <1>7, <1>9
  <2> QED BY <1>2, <2>2, <2>3, ByIDIs
<1>11. pre = R
  <2>1. pre \in Seq(Item)
    BY <1>9 DEF Items
  <2> QED BY <1>2, <1>7, <1>9, <1>10, <2>1, SeqEqual
<1>12. IDs(R) \subseteq IDs(C)
  BY <1>2
<1> QED BY <1>1, <1>2, <1>8, <1>11, <1>12, Reordered

-----------------------------------------------------------------------------
(* Checklists. *)

Checklist == [id : Id, title : Nat, updateAt : Nat, items : Items]
Outlines == {s \in Seq(Checklist) : Distinct(s)}

(* u is an update of a checklist from items P to items C. *)
Says(u, P, C) ==
    /\ TellsItems(u, P, C)
    /\ u.itemsOrder \in {<<>>, ItemsOrder(C)}

IsUpdate(u) ==
    /\ u.id \in Id /\ u.title \in Nat /\ u.updateAt \in Nat
    /\ \E P, C \in Items : Says(u, P, C)

(* The items of a checklist after an update, and its other fields.         *)
ItemsAfter(X, u) ==
    IF u.itemsOrder = <<>> THEN ApplyItemUpdates(X, u)
    ELSE ReorderItemsByOrder(ApplyItemUpdates(X, u), u.itemsOrder)
TitleAfter(x, u) == IF u.title = 0 THEN x.title ELSE u.title
TimeAfter(x, u) == IF x.updateAt = 0 \/ u.updateAt = 0 THEN x.updateAt ELSE u.updateAt

LEMMA ChecklistWith ==
    ASSUME NEW x \in Checklist, NEW t, NEW m, NEW k
    PROVE  [x EXCEPT !.title = t, !.updateAt = m, !.items = k]
             = [id |-> x.id, title |-> t, updateAt |-> m, items |-> k]
<1>0. PICK i, a, b, c : x = [id |-> i, title |-> a, updateAt |-> b, items |-> c]
  BY DEF Checklist
<1>1. PICK y : y = [x EXCEPT !.title = t, !.updateAt = m, !.items = k]
  OBVIOUS
<1>2. y = [f \in DOMAIN x |-> y[f]] /\ DOMAIN x = {"id", "title", "updateAt", "items"}
  BY <1>0, <1>1
<1>3. y = [f \in {"id", "title", "updateAt", "items"} |-> y[f]]
  BY <1>2
<1>4. y.id = x.id /\ y.title = t /\ y.updateAt = m /\ y.items = k
  BY <1>0, <1>1
<1>5. y = [id |-> x.id, title |-> t, updateAt |-> m, items |-> k]
  BY <1>3, <1>4
<1> QED BY <1>1, <1>5

LEMMA AfterIs ==
    ASSUME NEW x \in Checklist, NEW u
    PROVE  ApplyUpdateToChecklist(x, u) =
             [id |-> x.id, title |-> TitleAfter(x, u), updateAt |-> TimeAfter(x, u),
              items |-> ItemsAfter(x.items, u)]
<1>2. \A t, m, k : [x EXCEPT !.title = t, !.updateAt = m, !.items = k] =
        [id |-> x.id, title |-> t, updateAt |-> m, items |-> k]
  BY ChecklistWith
<1>3. ApplyUpdateToChecklist(x, u) =
        [x EXCEPT !.title = TitleAfter(x, u), !.updateAt = TimeAfter(x, u),
                  !.items = ItemsAfter(x.items, u)]
  BY Zenon DEF ApplyUpdateToChecklist, ItemsAfter, TitleAfter, TimeAfter
<1> QED BY <1>2, <1>3

LEMMA ToldStays ==
    ASSUME NEW P \in Items, NEW C \in Items, NEW X \in Items, NEW Y \in Items,
           Told(X, P, C), ToSet(Y) = ToSet(X)
    PROVE  Told(Y, P, C)
<1>1. IDs(Y) = IDs(X)
  BY IDsAre DEF Items
<1> QED BY <1>1 DEF Told

(* An update settles the items: a second one finds nothing to do.          *)
LEMMA ItemsSettle ==
    ASSUME NEW P \in Items, NEW C \in Items, NEW X \in Items, NEW u, Says(u, P, C)
    PROVE  /\ ItemsAfter(X, u) \in Items
           /\ ToSet(ItemsAfter(X, u)) = ToSet(ApplyItemUpdates(X, u))
           /\ Told(ItemsAfter(X, u), P, C)
           /\ ItemsAfter(ItemsAfter(X, u), u) = ItemsAfter(X, u)
<1>1. TellsItems(u, P, C) /\ u.itemsOrder \in {<<>>, ItemsOrder(C)}
  BY DEF Says
<1>2. PICK R : R = ApplyItemUpdates(X, u)
  OBVIOUS
<1>3. R \in Items /\ Told(R, P, C)
  BY <1>1, <1>2, AppliedItems
<1>4. CASE u.itemsOrder = <<>>
  <2>1. ItemsAfter(X, u) = R
    BY <1>2, <1>4 DEF ItemsAfter
  <2>2. ApplyItemUpdates(R, u) = R
    BY <1>1, <1>3, AppliedItems
  <2>3. ItemsAfter(R, u) = R
    BY <1>4, <2>2 DEF ItemsAfter
  <2> QED BY <1>2, <1>3, <2>1, <2>3
<1>5. CASE u.itemsOrder # <<>>
  <2>1. u.itemsOrder = ItemsOrder(C)
    BY <1>1, <1>5
  <2>2. PICK Y : Y = ReorderItemsByOrder(R, ItemsOrder(C))
    OBVIOUS
  <2>3. ItemsAfter(X, u) = Y
    BY <1>2, <1>5, <2>1, <2>2 DEF ItemsAfter
  <2>4. Y \in Items /\ ToSet(Y) = ToSet(R)
    BY <1>3, <2>2, Reordered
  <2>5. Told(Y, P, C)
    BY <1>3, <2>4, ToldStays
  <2>6. ApplyItemUpdates(Y, u) = Y
    BY <1>1, <2>4, <2>5, AppliedItems
  <2>7. ReorderItemsByOrder(Y, ItemsOrder(C)) = Y
    BY <1>3, <2>2, ReorderedAgain
  <2>8. ItemsAfter(Y, u) = Y
    BY <1>5, <2>1, <2>6, <2>7 DEF ItemsAfter
  <2> QED BY <1>2, <2>3, <2>4, <2>5, <2>8
<1> QED BY <1>4, <1>5

LEMMA ListSettles ==
    ASSUME NEW x \in Checklist, NEW u, IsUpdate(u)
    PROVE  /\ ApplyUpdateToChecklist(x, u) \in Checklist
           /\ ApplyUpdateToChecklist(x, u).id = x.id
           /\ ApplyUpdateToChecklist(ApplyUpdateToChecklist(x, u), u) = ApplyUpdateToChecklist(x, u)
<1>1. PICK P \in Items, C \in Items : Says(u, P, C)
  BY DEF IsUpdate
<1>2. x.items \in Items /\ x.id \in Id /\ x.title \in Nat /\ x.updateAt \in Nat
  BY DEF Checklist
<1>3. ItemsAfter(x.items, u) \in Items /\ ItemsAfter(ItemsAfter(x.items, u), u) = ItemsAfter(x.items, u)
  BY <1>1, <1>2, ItemsSettle
<1>4. PICK y : y = ApplyUpdateToChecklist(x, u)
  OBVIOUS
<1>5. y = [id |-> x.id, title |-> TitleAfter(x, u), updateAt |-> TimeAfter(x, u),
           items |-> ItemsAfter(x.items, u)]
  BY <1>4, AfterIs
<1>6. TitleAfter(x, u) \in Nat /\ TimeAfter(x, u) \in Nat
  BY <1>2 DEF TitleAfter, TimeAfter, IsUpdate
<1>7. y \in Checklist /\ y.id = x.id
  BY <1>2, <1>3, <1>5, <1>6 DEF Checklist
<1>8. ApplyUpdateToChecklist(y, u) =
        [id |-> y.id, title |-> TitleAfter(y, u), updateAt |-> TimeAfter(y, u),
         items |-> ItemsAfter(y.items, u)]
  BY <1>7, AfterIs
<1>9. TitleAfter(y, u) = y.title /\ TimeAfter(y, u) = y.updateAt
  BY <1>5 DEF TitleAfter, TimeAfter
<1>10. ItemsAfter(y.items, u) = y.items
  BY <1>3, <1>5
<1> QED BY <1>4, <1>5, <1>7, <1>8, <1>9, <1>10

(* A checklist the client makes from an update is settled too.             *)
LEMMA MadeSettles ==
    ASSUME NEW u, IsUpdate(u)
    PROVE  /\ CreateNewChecklist(u) \in Checklist
           /\ CreateNewChecklist(u).id = u.id
           /\ ApplyUpdateToChecklist(CreateNewChecklist(u), u) = CreateNewChecklist(u)
<1>1. PICK P \in Items, C \in Items : Says(u, P, C)
  BY DEF IsUpdate
<1>2. PICK I : I = InsertsOf(P, C)
  OBVIOUS
<1>3. TellsItems(u, P, C) /\ u.itemsOrder \in {<<>>, ItemsOrder(C)} /\ u.inserts = I
  BY <1>1, <1>2 DEF Says, TellsItems
<1>4. /\ I \in Items /\ ToSet(I) = {e \in ToSet(C) : e.id \notin IDs(P)}
      /\ IDs(I) = IDs(C) \ IDs(P)
  BY <1>2, InsertsHold DEF InsertsAre
<1>5. Told(I, P, C)
  <2>1. ASSUME NEW e \in ToSet(I) PROVE Change(e, ChangesOf(P, C)) = e
    <3>1. e \in Item
      BY <1>4, IDsAre DEF Items
    <3>2. e.id \notin IDs(P)
      BY <1>4
    <3> QED BY <3>1, <3>2, ChangeIs
  <2> QED BY <1>4, <2>1 DEF Told, RemovedOf
<1>6. ApplyItemUpdates(I, u) = I
  BY <1>3, <1>4, <1>5, AppliedItems
<1>7. ReorderItemsByOrder(I, ItemsOrder(C)) = I
  BY <1>2, InsertsOrdered
<1>8. ItemsAfter(I, u) = I
  BY <1>3, <1>6, <1>7 DEF ItemsAfter
<1>9. PICK y : y = CreateNewChecklist(u)
  OBVIOUS
<1>10. y = [id |-> u.id, title |-> u.title, updateAt |-> u.updateAt, items |-> I]
  BY <1>3, <1>9 DEF CreateNewChecklist
<1>11. y \in Checklist /\ y.id = u.id
  BY <1>4, <1>10 DEF Checklist, IsUpdate
<1>12. ApplyUpdateToChecklist(y, u) =
        [id |-> y.id, title |-> TitleAfter(y, u), updateAt |-> TimeAfter(y, u),
         items |-> ItemsAfter(y.items, u)]
  BY <1>11, AfterIs
<1>13. TitleAfter(y, u) = y.title /\ TimeAfter(y, u) = y.updateAt
  BY <1>10 DEF TitleAfter, TimeAfter
<1> QED BY <1>8, <1>9, <1>10, <1>11, <1>12, <1>13

-----------------------------------------------------------------------------
(* The checklists of a run. *)

AreUpdates(U) ==
    /\ U \in Seq(ToSet(U)) /\ Distinct(U)
    /\ \A u \in ToSet(U) : IsUpdate(u)

(* A checklist the client knows, after the updates.                        *)
OneAfter(x, U) ==
    IF HasID(U, x.id) THEN ApplyUpdateToChecklist(x, ByID(U, x.id)) ELSE x

KnownAfter(X, U) == [c \in DOMAIN X |-> OneAfter(X[c], U)]
MadeFrom(N) == [k \in DOMAIN N |-> CreateNewChecklist(N[k])]

LEMMA OneSettles ==
    ASSUME NEW x \in Checklist, NEW U, AreUpdates(U)
    PROVE  /\ OneAfter(x, U) \in Checklist /\ OneAfter(x, U).id = x.id
           /\ OneAfter(OneAfter(x, U), U) = OneAfter(x, U)
<1>1. CASE HasID(U, x.id)
  <2>1. PICK u : u = ByID(U, x.id)
    OBVIOUS
  <2>2. IsUpdate(u)
    <3>1. x.id \in IDs(U) /\ U \in Seq(ToSet(U))
      BY <1>1, IDsAre DEF AreUpdates
    <3> QED BY <2>1, <3>1, ByIDIs DEF AreUpdates
  <2>3. OneAfter(x, U) = ApplyUpdateToChecklist(x, u)
    BY <1>1, <2>1 DEF OneAfter
  <2>4. PICK y : y = ApplyUpdateToChecklist(x, u)
    OBVIOUS
  <2>5. y \in Checklist /\ y.id = x.id /\ ApplyUpdateToChecklist(y, u) = y
    BY <2>2, <2>4, ListSettles
  <2>6. OneAfter(y, U) = y
    BY <1>1, <2>1, <2>5 DEF OneAfter
  <2> QED BY <2>3, <2>4, <2>5, <2>6
<1>2. CASE ~HasID(U, x.id)
  BY <1>2 DEF OneAfter
<1> QED BY <1>1, <1>2

LEMMA KnownIs ==
    ASSUME NEW X \in Outlines, NEW U, AreUpdates(U)
    PROVE  /\ KnownAfter(X, U) \in Outlines
           /\ Len(KnownAfter(X, U)) = Len(X) /\ IDs(KnownAfter(X, U)) = IDs(X)
           /\ \A c \in 1 .. Len(X) : KnownAfter(X, U)[c] = OneAfter(X[c], U)
           /\ ToSet(KnownAfter(X, U)) = {OneAfter(x, U) : x \in ToSet(X)}
<1>1. X \in Seq(Checklist) /\ Distinct(X) /\ DOMAIN X = 1 .. Len(X) /\ Len(X) \in Nat
      /\ \A c \in 1 .. Len(X) : X[c] \in Checklist
  BY DEF Outlines
<1>2. PICK Y : Y = KnownAfter(X, U)
  OBVIOUS
<1>3. Y = [c \in 1 .. Len(X) |-> OneAfter(X[c], U)]
  BY <1>1, <1>2 DEF KnownAfter
<1>4. \A c \in 1 .. Len(X) : OneAfter(X[c], U) \in Checklist /\ OneAfter(X[c], U).id = X[c].id
  BY <1>1, OneSettles
<1>5. Y \in Seq(Checklist)
  BY <1>1, <1>3, <1>4, IsASeq
<1>6. Len(Y) = Len(X)
  BY <1>1, <1>3, <1>5, LenProperties, SameLength
<1>7. DOMAIN Y = 1 .. Len(X) /\ \A c \in 1 .. Len(X) : Y[c] = OneAfter(X[c], U)
  BY <1>3
<1>8. \A c \in 1 .. Len(X) : Y[c].id = X[c].id
  BY <1>4, <1>7
<1>9. Distinct(Y)
  BY <1>1, <1>7, <1>8 DEF Distinct
<1>10. IDs(Y) = IDs(X)
  BY <1>1, <1>7, <1>8 DEF IDs
<1>11. ToSet(Y) = {OneAfter(x, U) : x \in ToSet(X)}
  BY <1>1, <1>7 DEF ToSet
<1> QED BY <1>2, <1>5, <1>6, <1>7, <1>9, <1>10, <1>11 DEF Outlines

LEMMA MadeIs ==
    ASSUME NEW N, AreUpdates(N)
    PROVE  /\ MadeFrom(N) \in Outlines
           /\ Len(MadeFrom(N)) = Len(N) /\ IDs(MadeFrom(N)) = IDs(N)
           /\ \A c \in 1 .. Len(N) : MadeFrom(N)[c] = CreateNewChecklist(N[c])
           /\ ToSet(MadeFrom(N)) = {CreateNewChecklist(u) : u \in ToSet(N)}
<1>1. N \in Seq(ToSet(N)) /\ Distinct(N) /\ DOMAIN N = 1 .. Len(N) /\ Len(N) \in Nat
      /\ \A c \in 1 .. Len(N) : N[c] \in ToSet(N) /\ IsUpdate(N[c])
  BY DEF AreUpdates
<1>2. PICK Y : Y = MadeFrom(N)
  OBVIOUS
<1>3. Y = [c \in 1 .. Len(N) |-> CreateNewChecklist(N[c])]
  BY <1>1, <1>2 DEF MadeFrom
<1>4. \A c \in 1 .. Len(N) : CreateNewChecklist(N[c]) \in Checklist /\ CreateNewChecklist(N[c]).id = N[c].id
  BY <1>1, MadeSettles
<1>5. Y \in Seq(Checklist)
  BY <1>1, <1>3, <1>4, IsASeq
<1>6. Len(Y) = Len(N)
  BY <1>1, <1>3, <1>5, LenProperties, SameLength
<1>7. DOMAIN Y = 1 .. Len(N) /\ \A c \in 1 .. Len(N) : Y[c] = CreateNewChecklist(N[c])
  BY <1>3
<1>8. \A c \in 1 .. Len(N) : Y[c].id = N[c].id
  BY <1>4, <1>7
<1>9. Distinct(Y)
  BY <1>1, <1>7, <1>8 DEF Distinct
<1>10. IDs(Y) = IDs(N)
  BY <1>1, <1>7, <1>8 DEF IDs
<1>11. ToSet(Y) = {CreateNewChecklist(u) : u \in ToSet(N)}
  BY <1>1, <1>7 DEF ToSet
<1> QED BY <1>2, <1>5, <1>6, <1>7, <1>9, <1>10, <1>11 DEF Outlines

LEMMA NewOnesAre ==
    ASSUME NEW U, AreUpdates(U), NEW ids
    PROVE  /\ AreUpdates(Without(U, ids))
           /\ ToSet(Without(U, ids)) = {u \in ToSet(U) : u.id \notin ids}
           /\ IDs(Without(U, ids)) = IDs(U) \ ids
           /\ IDs(U) \subseteq ids => Without(U, ids) = <<>>
<1>1. U \in Seq(ToSet(U)) /\ Distinct(U) /\ \A u \in ToSet(U) : IsUpdate(u)
  BY DEF AreUpdates
<1>2. PICK N : N = Without(U, ids)
  OBVIOUS
<1>3. /\ N \in Seq(ToSet(U)) /\ Distinct(N)
      /\ ToSet(N) = {u \in ToSet(U) : u.id \notin ids}
      /\ IDs(N) = IDs(U) \ ids
      /\ IDs(U) \subseteq ids => N = <<>>
  BY <1>1, <1>2, WithoutIs
<1>4. N \in Seq(ToSet(N))
  <2>1. DOMAIN N = 1 .. Len(N) /\ Len(N) \in Nat
    BY <1>3
  <2>2. \A k \in 1 .. Len(N) : N[k] \in ToSet(N)
    BY <2>1 DEF ToSet
  <2>3. N = [k \in 1 .. Len(N) |-> N[k]]
    BY <1>3, <2>1
  <2> QED BY <2>1, <2>2, <2>3, IsASeq
<1> QED BY <1>1, <1>2, <1>3, <1>4 DEF AreUpdates

(* What the updates make of the checklists, and that a second application  *)
(* finds nothing to do.                                                    *)
LEMMA OutlineAfter ==
    ASSUME NEW X \in Outlines, NEW U, AreUpdates(U)
    PROVE  /\ ApplyChecklistUpdates(X, U) = KnownAfter(X, U) \o MadeFrom(Without(U, IDs(X)))
           /\ ApplyChecklistUpdates(X, U) \in Outlines
           /\ IDs(ApplyChecklistUpdates(X, U)) = IDs(X) \cup IDs(U)
           /\ ToSet(ApplyChecklistUpdates(X, U)) =
                {OneAfter(x, U) : x \in ToSet(X)}
                \cup {CreateNewChecklist(u) : u \in {v \in ToSet(U) : v.id \notin IDs(X)}}
<1>1. PICK N : N = Without(U, IDs(X))
  OBVIOUS
<1>2. /\ AreUpdates(N) /\ ToSet(N) = {u \in ToSet(U) : u.id \notin IDs(X)}
      /\ IDs(N) = IDs(U) \ IDs(X)
  BY <1>1, NewOnesAre
<1>3. PICK a, b : a = KnownAfter(X, U) /\ b = MadeFrom(N)
  OBVIOUS
<1>4. ApplyChecklistUpdates(X, U) = a \o b
  BY <1>1, <1>3 DEF ApplyChecklistUpdates, KnownAfter, OneAfter, MadeFrom
<1>5. /\ a \in Outlines /\ IDs(a) = IDs(X)
      /\ ToSet(a) = {OneAfter(x, U) : x \in ToSet(X)}
  BY <1>3, KnownIs
<1>6. /\ b \in Outlines /\ IDs(b) = IDs(N)
      /\ ToSet(b) = {CreateNewChecklist(u) : u \in ToSet(N)}
  BY <1>2, <1>3, MadeIs
<1>7. /\ a \o b \in Seq(Checklist) /\ Distinct(a \o b)
      /\ ToSet(a \o b) = ToSet(a) \cup ToSet(b)
      /\ IDs(a \o b) = IDs(a) \cup IDs(b)
  BY <1>2, <1>5, <1>6, JoinIs DEF Outlines
<1> QED BY <1>1, <1>2, <1>3, <1>4, <1>5, <1>6, <1>7 DEF Outlines

LEMMA OutlineSettles ==
    ASSUME NEW X \in Outlines, NEW U, AreUpdates(U), NEW Y, Y = ApplyChecklistUpdates(X, U)
    PROVE  ApplyChecklistUpdates(Y, U) = Y
<1>1. PICK N : N = Without(U, IDs(X))
  OBVIOUS
<1>2. AreUpdates(N) /\ ToSet(N) \subseteq ToSet(U)
  BY <1>1, NewOnesAre
<1>3. PICK a, b : a = KnownAfter(X, U) /\ b = MadeFrom(N)
  OBVIOUS
<1>4. Y = a \o b /\ Y \in Outlines /\ IDs(Y) = IDs(X) \cup IDs(U)
  BY <1>1, <1>3, OutlineAfter
<1>5. Without(U, IDs(Y)) = <<>>
  BY <1>4, NewOnesAre
<1>6. MadeFrom(<<>>) = <<>>
  BY DEF MadeFrom
<1>7. KnownAfter(Y, U) \in Outlines /\ Len(KnownAfter(Y, U)) = Len(Y)
      /\ \A c \in 1 .. Len(Y) : KnownAfter(Y, U)[c] = OneAfter(Y[c], U)
  BY <1>4, KnownIs
<1>8. ApplyChecklistUpdates(Y, U) = KnownAfter(Y, U)
  <2>1. ApplyChecklistUpdates(Y, U) = KnownAfter(Y, U) \o MadeFrom(Without(U, IDs(Y)))
    BY <1>4, OutlineAfter
  <2>2. KnownAfter(Y, U) \in Seq(Checklist)
    BY <1>7 DEF Outlines
  <2> QED BY <1>5, <1>6, <2>1, <2>2, ConcatEmptySeq
<1>9. /\ a \in Seq(Checklist) /\ Len(a) = Len(X) /\ Len(X) \in Nat
      /\ \A c \in 1 .. Len(X) : a[c] = OneAfter(X[c], U) /\ X[c] \in Checklist
  BY <1>3, KnownIs DEF Outlines
<1>10. /\ b \in Seq(Checklist) /\ Len(b) = Len(N) /\ Len(N) \in Nat
       /\ \A c \in 1 .. Len(N) : b[c] = CreateNewChecklist(N[c]) /\ N[c] \in ToSet(N)
  <2>1. /\ b \in Outlines /\ Len(b) = Len(N)
        /\ \A c \in 1 .. Len(N) : b[c] = CreateNewChecklist(N[c])
    BY <1>2, <1>3, MadeIs
  <2>2. N \in Seq(ToSet(N)) /\ b \in Seq(Checklist)
    BY <1>2, <2>1 DEF AreUpdates, Outlines
  <2>3. Len(N) \in Nat /\ \A c \in 1 .. Len(N) : N[c] \in ToSet(N)
    BY <2>2
  <2> QED BY <2>1, <2>2, <2>3
<1>11. /\ Len(Y) = Len(a) + Len(b)
       /\ \A k \in 1 .. Len(a) + Len(b) : Y[k] = IF k <= Len(a) THEN a[k] ELSE b[k - Len(a)]
  <2>1. a \in Seq(Checklist) /\ b \in Seq(Checklist) /\ Y = a \o b
    BY <1>4, <1>9, <1>10
  <2> QED BY <2>1, ConcatProperties
<1>12. ASSUME NEW k \in 1 .. Len(Y) PROVE OneAfter(Y[k], U) = Y[k]
  <2>1. CASE k <= Len(a)
    <3>1. k \in 1 .. Len(X) /\ Y[k] = a[k]
      BY <1>9, <1>10, <1>11, <2>1
    <3>2. Y[k] = OneAfter(X[k], U) /\ X[k] \in Checklist
      BY <1>9, <3>1
    <3> QED BY <3>2, OneSettles
  <2>2. CASE ~(k <= Len(a))
    <3>1. k - Len(a) \in 1 .. Len(N) /\ k \in 1 .. Len(a) + Len(b)
      BY <1>9, <1>10, <1>11, <2>2
    <3>2. PICK u : u = N[k - Len(a)]
      OBVIOUS
    <3>3. u \in ToSet(U) /\ Y[k] = CreateNewChecklist(u)
      BY <1>2, <1>10, <1>11, <2>2, <3>1, <3>2
    <3>4. IsUpdate(u)
      BY <3>3 DEF AreUpdates
    <3>5. Y[k].id = u.id /\ ApplyUpdateToChecklist(Y[k], u) = Y[k]
      BY <3>3, <3>4, MadeSettles
    <3>6. U \in Seq(ToSet(U)) /\ Distinct(U)
      BY DEF AreUpdates
    <3>7. u.id \in IDs(U) /\ HasID(U, u.id)
      BY <3>3, <3>6, IDsAre
    <3>8. ByID(U, u.id) = u
      BY <3>3, <3>6, <3>7, ByIDIs
    <3> QED BY <3>5, <3>7, <3>8 DEF OneAfter
  <2> QED BY <2>1, <2>2
<1>13. KnownAfter(Y, U) = Y
  <2>1. PICK Z : Z = KnownAfter(Y, U)
    OBVIOUS
  <2>2. Z \in Seq(Checklist) /\ Y \in Seq(Checklist) /\ Len(Z) = Len(Y)
    BY <1>4, <1>7, <2>1 DEF Outlines
  <2>3. \A k \in 1 .. Len(Y) : Z[k] = Y[k]
    BY <1>7, <1>12, <2>1
  <2>4. Z = Y
    BY <2>2, <2>3, SeqEqual
  <2> QED BY <2>1, <2>4
<1> QED BY <1>8, <1>13

-----------------------------------------------------------------------------
(* The message the server makes of two versions of the run. *)

UpdateOf(P, c) ==
    IF HasID(P, c.id) THEN UpdateOfChecklist(ByID(P, c.id), c)
                      ELSE UpdateOfNewChecklist(c)

(* The items of the checklist the previous version has under this identifier. *)
ItemsBefore(P, id) == IF HasID(P, id) THEN ByID(P, id).items ELSE <<>>

Noticed(P, C) == {c \in 1 .. Len(C) : ~HasID(P, C[c].id) \/ ~IsEmpty(UpdateOf(P, C[c]))}

LEMMA NoItems ==
    /\ <<>> \in Items /\ IDs(<<>>) = {}
    /\ \A C \in Items : TellsItems([updates |-> {}, deletes |-> {}, inserts |-> C], <<>>, C)
<1>1. <<>> \in Items /\ IDs(<<>>) = {}
  BY DEF Items, Distinct, IDs
<1>2. ASSUME NEW C \in Items
      PROVE  TellsItems([updates |-> {}, deletes |-> {}, inserts |-> C], <<>>, C)
  <2>1. ToSet(<<>>) = {}
    BY DEF ToSet
  <2>2. ChangesOf(<<>>, C) = {}
    BY <1>1, <2>1, ChangesAre
  <2>3. RemovedOf(<<>>, C) = {}
    BY <1>1 DEF RemovedOf
  <2>4. InsertsOf(<<>>, C) = C
    BY <1>1, WithoutIs DEF InsertsOf, Items
  <2> QED BY <2>2, <2>3, <2>4 DEF TellsItems
<1> QED BY <1>1, <1>2

LEMMA BeforeIs ==
    ASSUME NEW P \in Outlines, NEW id
    PROVE  /\ ItemsBefore(P, id) \in Items
           /\ HasID(P, id) => ByID(P, id) \in Checklist /\ ByID(P, id) \in ToSet(P) /\ ByID(P, id).id = id
<1>1. P \in Seq(Checklist)
  BY DEF Outlines
<1>2. CASE HasID(P, id)
  <2>1. id \in IDs(P)
    BY <1>1, <1>2, IDsAre
  <2>2. ByID(P, id) \in Checklist /\ ByID(P, id) \in ToSet(P) /\ ByID(P, id).id = id
    BY <1>1, <2>1, ByIDIs
  <2> QED BY <1>2, <2>2 DEF ItemsBefore, Checklist
<1>3. CASE ~HasID(P, id)
  BY <1>3, NoItems DEF ItemsBefore
<1> QED BY <1>2, <1>3

LEMMA UpdateSays ==
    ASSUME NEW P \in Outlines, NEW c \in Checklist
    PROVE  /\ Says(UpdateOf(P, c), ItemsBefore(P, c.id), c.items)
           /\ UpdateOf(P, c).id = c.id
           /\ IsUpdate(UpdateOf(P, c))
<1>1. c.items \in Items /\ c.id \in Id /\ c.title \in Nat /\ c.updateAt \in Nat
  BY DEF Checklist
<1>2. ItemsBefore(P, c.id) \in Items
  BY BeforeIs
<1>3. CASE HasID(P, c.id)
  <2>1. PICK p : p = ByID(P, c.id)
    OBVIOUS
  <2>2. UpdateOf(P, c) = UpdateOfChecklist(p, c) /\ ItemsBefore(P, c.id) = p.items
    BY <1>3, <2>1 DEF UpdateOf, ItemsBefore
  <2>3. PICK u : u = UpdateOfChecklist(p, c)
    OBVIOUS
  <2>4. /\ u.id = c.id /\ u.title = Changed(p.title, c.title)
        /\ u.updateAt = Changed(p.updateAt, c.updateAt)
        /\ u.itemsOrder \in {<<>>, ItemsOrder(c.items)}
        /\ u.updates = GetChecklistItemUpdates(p.items, c.items).updates
        /\ u.deletes = GetChecklistItemUpdates(p.items, c.items).deletes
        /\ u.inserts = GetChecklistItemUpdates(p.items, c.items).inserts
    BY <2>3 DEF UpdateOfChecklist
  <2>5. u.deletes = RemovedOf(p.items, c.items) /\ u.inserts = InsertsOf(p.items, c.items)
    BY <2>4 DEF GetChecklistItemUpdates, RemovedOf, InsertsOf
  <2>6. Says(u, p.items, c.items)
    BY <2>4, <2>5 DEF Says, TellsItems, ChangesOf
  <2>7. u.title \in Nat /\ u.updateAt \in Nat
    BY <1>1, <2>4 DEF Changed
  <2> QED BY <1>1, <1>2, <2>2, <2>3, <2>4, <2>6, <2>7 DEF IsUpdate
<1>4. CASE ~HasID(P, c.id)
  <2>1. UpdateOf(P, c) = UpdateOfNewChecklist(c) /\ ItemsBefore(P, c.id) = <<>>
    BY <1>4 DEF UpdateOf, ItemsBefore
  <2>2. PICK u : u = UpdateOfNewChecklist(c)
    OBVIOUS
  <2>3. /\ u.id = c.id /\ u.title = c.title /\ u.updateAt = 0 /\ u.itemsOrder = <<>>
        /\ u.updates = {} /\ u.deletes = {} /\ u.inserts = c.items
    BY <2>2 DEF UpdateOfNewChecklist
  <2>4. Says(u, <<>>, c.items)
    BY <1>1, <2>3, NoItems DEF Says, TellsItems
  <2> QED BY <1>1, <1>2, <2>1, <2>2, <2>3, <2>4 DEF IsUpdate
<1> QED BY <1>3, <1>4

LEMMA MessageIs ==
    ASSUME NEW P \in Outlines, NEW C \in Outlines
    PROVE  /\ GetChecklistUpdates(P, C) = At([c \in 1 .. Len(C) |-> UpdateOf(P, C[c])], Noticed(P, C))
           /\ AreUpdates(GetChecklistUpdates(P, C))
           /\ IDs(GetChecklistUpdates(P, C)) \subseteq IDs(C)
           /\ \A u \in ToSet(GetChecklistUpdates(P, C)) : \E c \in ToSet(C) : u = UpdateOf(P, c)
           /\ \A c \in ToSet(C) : ~HasID(P, c.id) \/ ~IsEmpty(UpdateOf(P, c)) =>
                /\ HasID(GetChecklistUpdates(P, C), c.id)
                /\ ByID(GetChecklistUpdates(P, C), c.id) = UpdateOf(P, c)
           /\ \A c \in ToSet(C) : HasID(GetChecklistUpdates(P, C), c.id) =>
                /\ ~HasID(P, c.id) \/ ~IsEmpty(UpdateOf(P, c))
                /\ ByID(GetChecklistUpdates(P, C), c.id) = UpdateOf(P, c)
<1>1. /\ C \in Seq(Checklist) /\ Distinct(C) /\ DOMAIN C = 1 .. Len(C) /\ Len(C) \in Nat
      /\ \A c \in 1 .. Len(C) : C[c] \in Checklist
  BY DEF Outlines
<1>2. PICK all : all = [c \in 1 .. Len(C) |-> UpdateOf(P, C[c])]
  OBVIOUS
<1>3. PICK K : K = Noticed(P, C)
  OBVIOUS
<1>4. PICK U : U = GetChecklistUpdates(P, C)
  OBVIOUS
<1>5. U = At(all, K)
  BY <1>1, <1>2, <1>3, <1>4 DEF GetChecklistUpdates, UpdateOf, Noticed
<1>6. PICK S : S = {UpdateOf(P, c) : c \in ToSet(C)}
  OBVIOUS
<1>7. \A c \in 1 .. Len(C) : C[c] \in ToSet(C) /\ UpdateOf(P, C[c]) \in S
  BY <1>1, <1>6 DEF ToSet
<1>8. all \in Seq(S) /\ DOMAIN all = 1 .. Len(C) /\ \A c \in 1 .. Len(C) : all[c] = UpdateOf(P, C[c])
  BY <1>1, <1>2, <1>7, IsASeq
<1>9. Len(all) = Len(C)
  BY <1>1, <1>2, <1>8, LenProperties, SameLength
<1>10. K \subseteq 1 .. Len(all)
  BY <1>3, <1>9 DEF Noticed
<1>11. ChosenAt(S, all, K)
  BY <1>8, <1>10, AtChosen
<1>12. /\ U \in Seq(S) /\ DOMAIN U = 1 .. Cardinality(K) /\ Cardinality(K) \in Nat /\ Len(U) = Cardinality(K)
       /\ \A k \in 1 .. Cardinality(K) : U[k] = all[Nth(K, k)] /\ Nth(K, k) \in K
       /\ \A p \in K : \E k \in 1 .. Cardinality(K) : Nth(K, k) = p
       /\ \A k, l \in 1 .. Cardinality(K) : Nth(K, k) = Nth(K, l) => k = l
  BY <1>5, <1>11 DEF ChosenAt
<1>13. \A k \in 1 .. Cardinality(K) :
         /\ Nth(K, k) \in 1 .. Len(C)
         /\ U[k] = UpdateOf(P, C[Nth(K, k)]) /\ U[k].id = C[Nth(K, k)].id
  <2> TAKE k \in 1 .. Cardinality(K)
  <2>1. Nth(K, k) \in 1 .. Len(C)
    BY <1>9, <1>10, <1>12
  <2>2. U[k] = UpdateOf(P, C[Nth(K, k)])
    BY <1>8, <1>12, <2>1
  <2> QED BY <1>1, <2>1, <2>2, UpdateSays
<1>14. Distinct(U)
  <2> SUFFICES ASSUME NEW k \in 1 .. Cardinality(K), NEW l \in 1 .. Cardinality(K), U[k].id = U[l].id
               PROVE  k = l
    BY <1>12 DEF Distinct
  <2>1. C[Nth(K, k)].id = C[Nth(K, l)].id
    BY <1>13
  <2>2. Nth(K, k) = Nth(K, l)
    BY <1>1, <1>13, <2>1 DEF Distinct
  <2> QED BY <1>12, <2>2
<1>15. \A u \in ToSet(U) : \E c \in ToSet(C) : u = UpdateOf(P, c)
  <2> TAKE u \in ToSet(U)
  <2>1. PICK k \in 1 .. Cardinality(K) : u = U[k]
    BY <1>12 DEF ToSet
  <2> QED BY <1>7, <1>13, <2>1
<1>16. \A u \in ToSet(U) : IsUpdate(u)
  <2> TAKE u \in ToSet(U)
  <2>1. PICK c \in ToSet(C) : u = UpdateOf(P, c)
    BY <1>15
  <2>2. c \in Checklist
    BY <1>1, IDsAre
  <2> QED BY <2>1, <2>2, UpdateSays
<1>17. U \in Seq(ToSet(U))
  <2>1. \A k \in 1 .. Len(U) : U[k] \in ToSet(U)
    BY <1>12 DEF ToSet
  <2>2. U = [k \in 1 .. Len(U) |-> U[k]] /\ Len(U) \in Nat
    BY <1>12
  <2> QED BY <2>1, <2>2, IsASeq
<1>18. AreUpdates(U)
  BY <1>14, <1>16, <1>17 DEF AreUpdates
<1>19. IDs(U) \subseteq IDs(C)
  BY <1>1, <1>12, <1>13 DEF IDs
<1>20. ASSUME NEW c \in ToSet(C), ~HasID(P, c.id) \/ ~IsEmpty(UpdateOf(P, c))
       PROVE  HasID(U, c.id)
  <2>1. PICK p \in 1 .. Len(C) : c = C[p]
    BY <1>1 DEF ToSet
  <2>2. p \in K
    BY <1>3, <1>20, <2>1 DEF Noticed
  <2>3. PICK k \in 1 .. Cardinality(K) : Nth(K, k) = p
    BY <1>12, <2>2
  <2>4. k \in DOMAIN U /\ U[k].id = c.id
    BY <1>12, <1>13, <2>1, <2>3
  <2> QED BY <2>4 DEF HasID
<1>21. ASSUME NEW c \in ToSet(C), HasID(U, c.id)
       PROVE  /\ ~HasID(P, c.id) \/ ~IsEmpty(UpdateOf(P, c))
              /\ ByID(U, c.id) = UpdateOf(P, c)
  <2>1. PICK p \in 1 .. Len(C) : c = C[p]
    BY <1>1 DEF ToSet
  <2>2. PICK k \in 1 .. Cardinality(K) : U[k].id = c.id
    BY <1>12, <1>21 DEF HasID
  <2>3. Nth(K, k) = p
    BY <1>1, <1>13, <2>1, <2>2 DEF Distinct
  <2>4. p \in K /\ U[k] = UpdateOf(P, c)
    BY <1>12, <1>13, <2>1, <2>3
  <2>5. U[k] \in ToSet(U) /\ c.id \in IDs(U)
    BY <1>12, <2>2 DEF ToSet, IDs
  <2>6. ByID(U, c.id) = U[k]
    BY <1>14, <1>17, <2>2, <2>5, ByIDIs
  <2> QED BY <1>3, <2>1, <2>4, <2>6 DEF Noticed
<1> QED BY <1>2, <1>3, <1>4, <1>5, <1>15, <1>18, <1>19, <1>20, <1>21

-----------------------------------------------------------------------------
(* Runs. *)

(* An update may be delivered twice: what it says is there already the     *)
(* second time.                                                            *)
LEMMA UpdateSettles ==
    ASSUME NEW p, p.checklists \in Outlines, NEW c, c.checklists \in Outlines,
           NEW x, x.checklists \in Outlines, NEW u, u = DetectChangedFields(p, c)
    PROVE  ApplyChangedFields(ApplyChangedFields(x, u), u) = ApplyChangedFields(x, u)
<1>1. PICK U, D : U = GetChecklistUpdates(p.checklists, c.checklists)
                  /\ D = IDs(p.checklists) \ IDs(c.checklists)
  OBVIOUS
<1>2. u.checklists = U /\ u.deletes = D
  BY <1>1 DEF DetectChangedFields
<1>3. AreUpdates(U) /\ IDs(U) \subseteq IDs(c.checklists)
  BY <1>1, MessageIs
<1>4. PICK X : X = Without(x.checklists, D)
  OBVIOUS
<1>5. X \in Outlines /\ IDs(X) = IDs(x.checklists) \ D
  BY <1>4, WithoutIs DEF Outlines
<1>6. PICK Y : Y = ApplyChecklistUpdates(X, U)
  OBVIOUS
<1>7. Y \in Outlines /\ IDs(Y) = IDs(X) \cup IDs(U) /\ ApplyChecklistUpdates(Y, U) = Y
  BY <1>3, <1>5, <1>6, OutlineAfter, OutlineSettles
<1>8. IDs(Y) \cap D = {}
  BY <1>1, <1>3, <1>5, <1>7
<1>9. Without(Y, D) = Y
  BY <1>7, <1>8, WithoutIs DEF Outlines
<1>10. PICK y : y = ApplyChangedFields(x, u)
  OBVIOUS
<1>11. y = [ updateAt   |-> u.updateAt,
             itemsOrder |-> IF u.itemsOrder = <<>> THEN x.itemsOrder ELSE u.itemsOrder,
             checklists |-> Y,
             events     |-> x.events \cup u.events ]
  BY <1>2, <1>4, <1>6, <1>10 DEF ApplyChangedFields
<1>12. ApplyChangedFields(y, u) =
           [ updateAt   |-> u.updateAt,
             itemsOrder |-> IF u.itemsOrder = <<>> THEN y.itemsOrder ELSE u.itemsOrder,
             checklists |-> ApplyChecklistUpdates(Without(y.checklists, D), U),
             events     |-> y.events \cup u.events ]
  BY <1>2 DEF ApplyChangedFields
<1>13. /\ y.checklists = Y
       /\ y.itemsOrder = (IF u.itemsOrder = <<>> THEN x.itemsOrder ELSE u.itemsOrder)
       /\ y.events = x.events \cup u.events
  BY <1>11
<1>14. ApplyChecklistUpdates(Without(y.checklists, D), U) = Y
  BY <1>7, <1>9, <1>13
<1>15. y.events \cup u.events = x.events \cup u.events
  BY <1>13
<1>16. (IF u.itemsOrder = <<>> THEN y.itemsOrder ELSE u.itemsOrder)
          = IF u.itemsOrder = <<>> THEN x.itemsOrder ELSE u.itemsOrder
  BY <1>13
<1> QED BY <1>10, <1>11, <1>12, <1>14, <1>15, <1>16

(* applyIncrementalUpdate is idempotent.                                   *)
THEOREM UpdatesAreIdempotent ==
    ASSUME NEW p, p.checklists \in Outlines, p.updateAt \in Nat,
           NEW c, c.checklists \in Outlines, c.updateAt \in Nat,
           NEW x, x.checklists \in Outlines, x.updateAt \in Nat
    PROVE  ApplyIncrementalUpdate(ApplyIncrementalUpdate(x, DetectChangedFields(p, c)),
                                  DetectChangedFields(p, c))
             = ApplyIncrementalUpdate(x, DetectChangedFields(p, c))
<1>1. PICK u : u = DetectChangedFields(p, c)
  OBVIOUS
<1>2. u.updateAt \in Nat
  BY <1>1 DEF DetectChangedFields
<1>3. CASE IsOlder(u, x)
  BY <1>1, <1>3 DEF ApplyIncrementalUpdate
<1>4. CASE ~IsOlder(u, x)
  <2>1. PICK y : y = ApplyChangedFields(x, u)
    OBVIOUS
  <2>2. y.updateAt = u.updateAt
    BY <2>1 DEF ApplyChangedFields
  <2>3. ~IsOlder(u, y)
    BY <1>2, <2>2 DEF IsOlder
  <2>4. ApplyChangedFields(y, u) = y
    BY <1>1, <2>1, UpdateSettles
  <2> QED BY <1>1, <1>4, <2>1, <2>3, <2>4 DEF ApplyIncrementalUpdate
<1> QED BY <1>3, <1>4

-----------------------------------------------------------------------------
(* What a user sees of the checklists, and that an update brings it up to  *)
(* date.                                                                   *)

View(x) == [id |-> x.id, title |-> x.title, items |-> x.items]
Views(X) == {View(x) : x \in ToSet(X)}

(* C can come right after P: its checklists have titles, and one that lost *)
(* items has been stamped.                                                 *)
Follows(P, C) ==
    \A c \in ToSet(C) :
        /\ c.title # 0
        /\ HasID(P, c.id) /\ RemovedOf(ByID(P, c.id).items, c.items) # {}
           => c.updateAt # 0 /\ c.updateAt # ByID(P, c.id).updateAt

LEMMA ViewsAre ==
    ASSUME NEW X \in Outlines, NEW C \in Outlines
    PROVE  /\ Views(X) = Views(C) => IDs(X) = IDs(C)
           /\ \A x \in ToSet(X) : View(x) \in Views(C) =>
                \E c \in ToSet(C) : c.id = x.id /\ c.title = x.title /\ c.items = x.items
           /\ (\A x \in ToSet(X) : View(x) \in Views(C)) /\ IDs(C) \subseteq IDs(X)
                => Views(X) = Views(C)
<1>1. /\ X \in Seq(Checklist) /\ C \in Seq(Checklist) /\ Distinct(C)
      /\ IDs(X) = {x.id : x \in ToSet(X)} /\ IDs(C) = {c.id : c \in ToSet(C)}
  BY IDsAre DEF Outlines
<1>2. ASSUME NEW x, View(x) \in Views(C)
      PROVE  \E c \in ToSet(C) : c.id = x.id /\ c.title = x.title /\ c.items = x.items
  <2>1. PICK c \in ToSet(C) : View(x) = View(c)
    BY <1>2 DEF Views
  <2>2. View(x).id = View(c).id /\ View(x).title = View(c).title /\ View(x).items = View(c).items
    BY <2>1
  <2> QED BY <2>2 DEF View
<1>3. ASSUME NEW c, View(c) \in Views(X)
      PROVE  \E x \in ToSet(X) : c.id = x.id
  <2>1. PICK x \in ToSet(X) : View(x) = View(c)
    BY <1>3 DEF Views
  <2>2. View(x).id = View(c).id
    BY <2>1
  <2> QED BY <2>2 DEF View
<1>4. Views(X) = Views(C) => IDs(X) = IDs(C)
  <2> SUFFICES ASSUME Views(X) = Views(C) PROVE IDs(X) = IDs(C)
    OBVIOUS
  <2>1. \A x \in ToSet(X) : View(x) \in Views(C)
    BY DEF Views
  <2>2. \A c \in ToSet(C) : View(c) \in Views(X)
    BY DEF Views
  <2>3. \A x \in ToSet(X) : \E c \in ToSet(C) : c.id = x.id
    BY <1>2, <2>1
  <2>4. \A c \in ToSet(C) : \E x \in ToSet(X) : c.id = x.id
    BY <1>3, <2>2
  <2> QED BY <1>1, <2>3, <2>4
<1>5. ASSUME \A x \in ToSet(X) : View(x) \in Views(C), IDs(C) \subseteq IDs(X)
      PROVE  Views(X) = Views(C)
  <2>1. Views(X) \subseteq Views(C)
    BY <1>5 DEF Views
  <2>2. ASSUME NEW c \in ToSet(C) PROVE View(c) \in Views(X)
    <3>1. PICK x \in ToSet(X) : x.id = c.id
      BY <1>1, <1>5
    <3>2. PICK d \in ToSet(C) : d.id = x.id /\ d.title = x.title /\ d.items = x.items
      BY <1>2, <1>5
    <3>3. d = c
      <4>1. c.id \in IDs(C) /\ d.id = c.id
        BY <1>1, <3>1, <3>2
      <4>2. \A e \in ToSet(C) : e.id = c.id => e = ByID(C, c.id)
        BY <1>1, <4>1, ByIDIs
      <4> QED BY <4>1, <4>2
    <3>4. View(x) = View(c)
      BY <3>2, <3>3 DEF View
    <3> QED BY <3>4 DEF Views
  <2> QED BY <2>1, <2>2 DEF Views
<1> QED BY <1>2, <1>4, <1>5

LEMMA ItemsReach ==
    ASSUME NEW P \in Items, NEW C \in Items, NEW u, Says(u, P, C)
    PROVE  /\ ItemsAfter(C, u) = C
           /\ u.itemsOrder = (IF ItemsOrder(P) = ItemsOrder(C) THEN <<>> ELSE ItemsOrder(C))
                => ItemsAfter(P, u) = C
           /\ u.updates = {} /\ u.inserts = <<>> /\ RemovedOf(P, C) = {}
              /\ u.itemsOrder = <<>>
              /\ u.itemsOrder = (IF ItemsOrder(P) = ItemsOrder(C) THEN <<>> ELSE ItemsOrder(C))
                => P = C
<1>1. TellsItems(u, P, C) /\ u.itemsOrder \in {<<>>, ItemsOrder(C)}
  BY DEF Says
<1>2. P \in Seq(Item) /\ C \in Seq(Item) /\ Distinct(P) /\ Distinct(C)
  BY DEF Items
<1>3. ItemsAfter(C, u) = C
  <2>1. ApplyItemUpdates(C, u) = C
    BY <1>1, VersionTold, AppliedItems
  <2>2. ReorderItemsByOrder(C, ItemsOrder(C)) = C
    BY Reordered
  <2> QED BY <1>1, <2>1, <2>2 DEF ItemsAfter
<1>4. ASSUME u.itemsOrder = IF ItemsOrder(P) = ItemsOrder(C) THEN <<>> ELSE ItemsOrder(C)
      PROVE  ItemsAfter(P, u) = C
  <2>1. PICK R : R = ApplyItemUpdates(P, u)
    OBVIOUS
  <2>2. R \in Items /\ ToSet(R) = ToSet(C) /\ (ItemsOrder(P) = ItemsOrder(C) => R = C)
    BY <1>1, <2>1, AppliedItems, VersionReached
  <2>3. CASE ItemsOrder(P) = ItemsOrder(C)
    BY <1>4, <2>1, <2>2, <2>3 DEF ItemsAfter
  <2>4. CASE ItemsOrder(P) # ItemsOrder(C) /\ u.itemsOrder # <<>>
    <3>1. ItemsAfter(P, u) = ReorderItemsByOrder(R, ItemsOrder(C))
      BY <1>4, <2>1, <2>4 DEF ItemsAfter
    <3> QED BY <2>2, <3>1, Reordered
  <2>5. CASE ItemsOrder(P) # ItemsOrder(C) /\ u.itemsOrder = <<>>
    <3>1. ItemsAfter(P, u) = R
      BY <2>1, <2>5 DEF ItemsAfter
    <3>2. ItemsOrder(C) = <<>>
      BY <1>4, <2>5
    <3>3. Len(C) = 0
      BY <3>2, OrderIs
    <3>4. ToSet(C) = {} /\ C = <<>>
      BY <1>2, <3>3 DEF ToSet
    <3>5. R \in Seq(Item) /\ DOMAIN R = 1 .. Len(R) /\ Len(R) \in Nat
      BY <2>2 DEF Items
    <3>6. 1 .. Len(R) = {}
      BY <2>2, <3>4, <3>5 DEF ToSet
    <3>7. R = <<>>
      BY <3>5, <3>6
    <3> QED BY <3>1, <3>4, <3>7
  <2> QED BY <2>3, <2>4, <2>5
<1>5. ASSUME u.updates = {}, u.inserts = <<>>, RemovedOf(P, C) = {}, u.itemsOrder = <<>>,
             u.itemsOrder = IF ItemsOrder(P) = ItemsOrder(C) THEN <<>> ELSE ItemsOrder(C)
      PROVE  P = C
  <2>1. ChangesOf(P, C) = {} /\ InsertsOf(P, C) = <<>>
    BY <1>1, <1>5 DEF TellsItems
  <2>2. IDs(C) \ IDs(P) = {}
    BY <2>1, InsertsHold, NoItems DEF InsertsAre
  <2>3. \A e \in ToSet(P) : Change(e, ChangesOf(P, C)) = e
    <3> TAKE e \in ToSet(P)
    <3>1. e \in Item
      BY <1>2, IDsAre
    <3>2. e.id \in IDs(C)
      BY <1>2, <1>5, IDsAre DEF RemovedOf
    <3>3. PICK q \in ToSet(C) : q.id = e.id
      BY <1>2, <3>2, IDsAre
    <3>4. ChangedItemFields(e, q) = {}
      BY <2>1, <3>3, ChangesAre
    <3>5. q \in Item
      BY <1>2, IDsAre
    <3>6. e = q
      BY <3>1, <3>3, <3>4, <3>5, ItemIs DEF ChangedItemFields, ItemFields, Item
    <3> QED BY <3>1, <3>6, ChangeGives
  <2>4. Told(P, P, C)
    BY <1>5, <2>2, <2>3 DEF Told
  <2>5. ApplyItemUpdates(P, u) = P
    BY <1>1, <2>4, AppliedItems
  <2>6. ItemsAfter(P, u) = P
    BY <1>5, <2>5 DEF ItemsAfter
  <2> QED BY <1>4, <1>5, <2>6
<1> QED BY <1>3, <1>4, <1>5

LEMMA ListKept ==
    ASSUME NEW P \in Outlines, NEW c \in Checklist, NEW x \in Checklist, View(x) = View(c)
    PROVE  View(ApplyUpdateToChecklist(x, UpdateOf(P, c))) = View(c)
<1>1. x.id = c.id /\ x.title = c.title /\ x.items = c.items
  <2>1. View(x).id = View(c).id /\ View(x).title = View(c).title /\ View(x).items = View(c).items
    OBVIOUS
  <2> QED BY <2>1 DEF View
<1>2. PICK u : u = UpdateOf(P, c)
  OBVIOUS
<1>3. Says(u, ItemsBefore(P, c.id), c.items) /\ ItemsBefore(P, c.id) \in Items /\ c.items \in Items
  BY <1>2, UpdateSays, BeforeIs DEF Checklist
<1>4. ItemsAfter(c.items, u) = c.items
  BY <1>3, ItemsReach
<1>5. u.title \in {0, c.title}
  BY <1>2 DEF UpdateOf, UpdateOfChecklist, UpdateOfNewChecklist, Changed
<1>6. TitleAfter(x, u) = c.title
  BY <1>1, <1>5 DEF TitleAfter
<1>7. PICK y : y = ApplyUpdateToChecklist(x, u)
  OBVIOUS
<1>8. y = [id |-> x.id, title |-> TitleAfter(x, u), updateAt |-> TimeAfter(x, u),
           items |-> ItemsAfter(x.items, u)]
  BY <1>7, AfterIs
<1>9. y.id = c.id /\ y.title = c.title /\ y.items = c.items
  BY <1>1, <1>4, <1>6, <1>8
<1> QED BY <1>2, <1>7, <1>9 DEF View

LEMMA ListReached ==
    ASSUME NEW P \in Outlines, NEW c \in Checklist, HasID(P, c.id), c.title # 0,
           NEW x \in Checklist, View(x) = View(ByID(P, c.id))
    PROVE  /\ View(ApplyUpdateToChecklist(x, UpdateOf(P, c))) = View(c)
           /\ /\ IsEmpty(UpdateOf(P, c))
              /\ RemovedOf(ByID(P, c.id).items, c.items) # {}
                   => c.updateAt # 0 /\ c.updateAt # ByID(P, c.id).updateAt
              => View(x) = View(c)
<1>1. PICK p : p = ByID(P, c.id)
  OBVIOUS
<1>2. p \in Checklist /\ p.id = c.id /\ p.items \in Items /\ c.items \in Items
  BY <1>1, BeforeIs DEF Checklist
<1>3. x.id = c.id /\ x.title = p.title /\ x.items = p.items
  <2>1. View(x).id = View(p).id /\ View(x).title = View(p).title /\ View(x).items = View(p).items
    BY <1>1
  <2> QED BY <1>2, <2>1 DEF View
<1>4. PICK u : u = UpdateOf(P, c)
  OBVIOUS
<1>5. Says(u, p.items, c.items)
  <2>1. ItemsBefore(P, c.id) = p.items
    BY <1>1 DEF ItemsBefore
  <2> QED BY <1>4, <2>1, UpdateSays
<1>6. u = UpdateOfChecklist(p, c)
  BY <1>1, <1>4 DEF UpdateOf
<1>7. /\ u.title = Changed(p.title, c.title) /\ u.updateAt = Changed(p.updateAt, c.updateAt)
      /\ u.itemsOrder = IF ItemsOrder(p.items) = ItemsOrder(c.items) THEN <<>> ELSE ItemsOrder(c.items)
  BY <1>6 DEF UpdateOfChecklist
<1>8. ItemsAfter(p.items, u) = c.items
  BY <1>2, <1>5, <1>7, ItemsReach
<1>9. TitleAfter(x, u) = c.title
  BY <1>3, <1>7 DEF TitleAfter, Changed
<1>10. PICK y : y = ApplyUpdateToChecklist(x, u)
  OBVIOUS
<1>11. y = [id |-> x.id, title |-> TitleAfter(x, u), updateAt |-> TimeAfter(x, u),
           items |-> ItemsAfter(x.items, u)]
  BY <1>10, AfterIs
<1>12. y.id = c.id /\ y.title = c.title /\ y.items = c.items
  BY <1>3, <1>8, <1>9, <1>11
<1>13. View(y) = View(c)
  BY <1>12 DEF View
<1>14. ASSUME IsEmpty(u),
              RemovedOf(p.items, c.items) # {} => c.updateAt # 0 /\ c.updateAt # p.updateAt
       PROVE  View(x) = View(c)
  <2>1. /\ u.title = 0 /\ u.updateAt = 0 /\ u.itemsOrder = <<>> /\ u.updates = {} /\ u.inserts = <<>>
    BY <1>14 DEF IsEmpty
  <2>2. p.title = c.title
    BY <1>7, <2>1 DEF Changed
  <2>3. RemovedOf(p.items, c.items) = {}
    BY <1>7, <1>14, <2>1 DEF Changed
  <2>4. p.items = c.items
    BY <1>2, <1>5, <1>7, <2>1, <2>3, ItemsReach
  <2> QED BY <1>3, <2>2, <2>4 DEF View
<1> QED BY <1>1, <1>4, <1>10, <1>13, <1>14

(* A client that shows the previous version shows the current one after    *)
(* the update of the one to the other.                                     *)
LEMMA OutlineReached ==
    ASSUME NEW P \in Outlines, NEW C \in Outlines, Follows(P, C),
           NEW X \in Outlines, Views(X) = Views(P),
           NEW Y, Y = ApplyChecklistUpdates(Without(X, IDs(P) \ IDs(C)), GetChecklistUpdates(P, C))
    PROVE  Y \in Outlines /\ Views(Y) = Views(C)
<1>1. PICK U : U = GetChecklistUpdates(P, C)
  OBVIOUS
<1>2. PICK Z : Z = Without(X, IDs(P) \ IDs(C))
  OBVIOUS
<1>3. Z \in Outlines /\ IDs(Z) = IDs(X) \ (IDs(P) \ IDs(C)) /\ ToSet(Z) \subseteq ToSet(X)
  BY <1>2, WithoutIs DEF Outlines
<1>4. IDs(X) = IDs(P) /\ IDs(Z) = IDs(P) \cap IDs(C)
  BY <1>3, ViewsAre
<1>5. AreUpdates(U)
  BY <1>1, MessageIs
<1>6. /\ Y \in Outlines /\ IDs(Y) = IDs(Z) \cup IDs(U)
      /\ ToSet(Y) = {OneAfter(x, U) : x \in ToSet(Z)}
                      \cup {CreateNewChecklist(u) : u \in {v \in ToSet(U) : v.id \notin IDs(Z)}}
  <2>1. Y = ApplyChecklistUpdates(Z, U)
    BY <1>1, <1>2
  <2>2. Z \in Outlines
    BY <1>3
  <2>3. /\ ApplyChecklistUpdates(Z, U) \in Outlines
        /\ IDs(ApplyChecklistUpdates(Z, U)) = IDs(Z) \cup IDs(U)
        /\ ToSet(ApplyChecklistUpdates(Z, U)) =
             {OneAfter(x, U) : x \in ToSet(Z)}
             \cup {CreateNewChecklist(u) : u \in {v \in ToSet(U) : v.id \notin IDs(Z)}}
    BY <1>5, <2>2, OutlineAfter
  <2> QED BY <2>1, <2>3
<1>7. /\ P \in Seq(Checklist) /\ C \in Seq(Checklist) /\ X \in Seq(Checklist) /\ Distinct(P)
      /\ \A id : HasID(P, id) <=> id \in IDs(P)
      /\ \A id : HasID(U, id) <=> id \in IDs(U)
      /\ IDs(C) = {c.id : c \in ToSet(C)} /\ ToSet(C) \subseteq Checklist
      /\ ToSet(X) \subseteq Checklist /\ IDs(Z) = {z.id : z \in ToSet(Z)}
  <2>1. P \in Seq(Checklist) /\ C \in Seq(Checklist) /\ X \in Seq(Checklist) /\ Distinct(P) /\ Z \in Seq(Checklist)
    BY <1>3 DEF Outlines
  <2>2. U \in Seq(ToSet(U))
    BY <1>5 DEF AreUpdates
  <2> QED BY <2>1, <2>2, IDsAre
<1>8. ASSUME NEW x \in ToSet(Z) PROVE View(OneAfter(x, U)) \in Views(C)
  <2>1. x \in ToSet(X) /\ x \in Checklist /\ x.id \in IDs(P) /\ x.id \in IDs(C)
    BY <1>3, <1>4, <1>7
  <2>2. View(x) \in Views(P)
    BY <2>1 DEF Views
  <2>3. PICK c \in ToSet(C) : c.id = x.id
    BY <1>7, <2>1
  <2>4. c \in Checklist /\ HasID(P, c.id)
    BY <1>7, <2>1, <2>3
  <2>5. View(x) = View(ByID(P, c.id))
    <3>1. PICK p \in ToSet(P) : p.id = x.id /\ p.title = x.title /\ p.items = x.items
      BY <2>1, <2>2, ViewsAre
    <3>2. \A e \in ToSet(P) : e.id = c.id => e = ByID(P, c.id)
      BY <1>7, <2>4, ByIDIs
    <3>3. p = ByID(P, c.id)
      BY <2>3, <3>1, <3>2
    <3> QED BY <3>1, <3>3 DEF View
  <2>6. c.title # 0 /\ (RemovedOf(ByID(P, c.id).items, c.items) # {}
                          => c.updateAt # 0 /\ c.updateAt # ByID(P, c.id).updateAt)
    BY <2>4 DEF Follows
  <2>7. View(OneAfter(x, U)) = View(c)
    <3>1. CASE HasID(U, x.id)
      <4>1. ByID(U, x.id) = UpdateOf(P, c)
        <5>1. HasID(U, c.id) /\ c \in ToSet(C)
          BY <2>3, <3>1
        <5>2. ByID(U, c.id) = UpdateOf(P, c)
          BY <1>1, <5>1, MessageIs
        <5> QED BY <2>3, <5>2
      <4>2. OneAfter(x, U) = ApplyUpdateToChecklist(x, UpdateOf(P, c))
        BY <3>1, <4>1 DEF OneAfter
      <4> QED BY <2>1, <2>4, <2>5, <2>6, <4>2, ListReached
    <3>2. CASE ~HasID(U, x.id)
      <4>1. IsEmpty(UpdateOf(P, c))
        BY <1>1, <2>3, <2>4, <3>2, MessageIs
      <4>2. OneAfter(x, U) = x
        BY <3>2 DEF OneAfter
      <4> QED BY <2>1, <2>4, <2>5, <2>6, <4>1, <4>2, ListReached
    <3> QED BY <3>1, <3>2
  <2> QED BY <2>7 DEF Views
<1>9. ASSUME NEW u \in ToSet(U), u.id \notin IDs(Z) PROVE View(CreateNewChecklist(u)) \in Views(C)
  <2>1. PICK c \in ToSet(C) : u = UpdateOf(P, c)
    BY <1>1, MessageIs
  <2>2. u.id = c.id /\ c.id \in IDs(C)
    BY <1>7, <2>1, UpdateSays
  <2>3. ~HasID(P, c.id)
    BY <1>4, <1>7, <1>9, <2>2
  <2>4. u = UpdateOfNewChecklist(c)
    BY <2>1, <2>3 DEF UpdateOf
  <2>5. CreateNewChecklist(u) = [id |-> c.id, title |-> c.title, updateAt |-> 0, items |-> c.items]
    BY <2>4 DEF CreateNewChecklist, UpdateOfNewChecklist
  <2>6. View(CreateNewChecklist(u)) = View(c)
    BY <2>5 DEF View
  <2> QED BY <2>6 DEF Views
<1>10. \A y \in ToSet(Y) : View(y) \in Views(C)
  <2> TAKE y \in ToSet(Y)
  <2>1. CASE \E x \in ToSet(Z) : y = OneAfter(x, U)
    BY <1>8, <2>1
  <2>2. CASE \E u \in ToSet(U) : u.id \notin IDs(Z) /\ y = CreateNewChecklist(u)
    BY <1>9, <2>2
  <2> QED BY <1>6, <2>1, <2>2
<1>11. IDs(C) \subseteq IDs(Y)
  <2> SUFFICES ASSUME NEW c \in ToSet(C), c.id \notin IDs(Z) PROVE c.id \in IDs(U)
    BY <1>6, <1>7
  <2>1. ~HasID(P, c.id)
    BY <1>4, <1>7
  <2> QED BY <1>1, <1>7, <2>1, MessageIs
<1> QED BY <1>6, <1>10, <1>11, ViewsAre

(* A client that shows the current version already keeps showing it.       *)
LEMMA OutlineKept ==
    ASSUME NEW P \in Outlines, NEW C \in Outlines, NEW X \in Outlines, Views(X) = Views(C),
           NEW Y, Y = ApplyChecklistUpdates(Without(X, IDs(P) \ IDs(C)), GetChecklistUpdates(P, C))
    PROVE  Y \in Outlines /\ Views(Y) = Views(C)
<1>1. PICK U : U = GetChecklistUpdates(P, C)
  OBVIOUS
<1>2. IDs(X) = IDs(C)
  BY ViewsAre
<1>3. Without(X, IDs(P) \ IDs(C)) = X
  BY <1>2, WithoutIs DEF Outlines
<1>4. AreUpdates(U) /\ IDs(U) \subseteq IDs(X)
  BY <1>1, <1>2, MessageIs
<1>5. /\ Y \in Outlines /\ IDs(Y) = IDs(X) \cup IDs(U)
      /\ ToSet(Y) = {OneAfter(x, U) : x \in ToSet(X)}
                      \cup {CreateNewChecklist(u) : u \in {v \in ToSet(U) : v.id \notin IDs(X)}}
  <2>1. Y = ApplyChecklistUpdates(X, U)
    BY <1>1, <1>3
  <2> QED BY <1>4, <2>1, OutlineAfter
<1>6. /\ C \in Seq(Checklist) /\ ToSet(C) \subseteq Checklist /\ ToSet(X) \subseteq Checklist
      /\ \A u \in ToSet(U) : u.id \in IDs(U)
  <2>1. C \in Seq(Checklist) /\ X \in Seq(Checklist) /\ U \in Seq(ToSet(U))
    BY <1>4 DEF Outlines, AreUpdates
  <2> QED BY <2>1, IDsAre
<1>7. ASSUME NEW x \in ToSet(X) PROVE View(OneAfter(x, U)) \in Views(C)
  <2>1. View(x) \in Views(C)
    BY DEF Views
  <2>2. PICK c \in ToSet(C) : c.id = x.id /\ c.title = x.title /\ c.items = x.items
    BY <2>1, ViewsAre
  <2>3. View(x) = View(c) /\ x \in Checklist /\ c \in Checklist
    BY <1>6, <2>2 DEF View
  <2>4. CASE HasID(U, x.id)
    <3>1. ByID(U, x.id) = UpdateOf(P, c)
      <4>1. HasID(U, c.id) /\ c \in ToSet(C)
        BY <2>2, <2>4
      <4>2. ByID(U, c.id) = UpdateOf(P, c)
        BY <1>1, <4>1, MessageIs
      <4> QED BY <2>2, <4>2
    <3>2. OneAfter(x, U) = ApplyUpdateToChecklist(x, UpdateOf(P, c))
      BY <2>4, <3>1 DEF OneAfter
    <3>3. View(OneAfter(x, U)) = View(c)
      BY <2>3, <3>2, ListKept
    <3> QED BY <3>3 DEF Views
  <2>5. CASE ~HasID(U, x.id)
    BY <2>1, <2>5 DEF OneAfter
  <2> QED BY <2>4, <2>5
<1>8. \A y \in ToSet(Y) : View(y) \in Views(C)
  <2> TAKE y \in ToSet(Y)
  <2>1. \E x \in ToSet(X) : y = OneAfter(x, U)
    BY <1>4, <1>5, <1>6
  <2> QED BY <1>7, <2>1
<1> QED BY <1>2, <1>5, <1>8, ViewsAre

-----------------------------------------------------------------------------
(* The checklists in their order.  An update leaves a client's in the order *)
(* they have and puts the new ones after them.                             *)

Shown(X) == [c \in DOMAIN X |-> View(X[c])]

LEMMA ShownIs ==
    ASSUME NEW X \in Outlines, NEW C \in Outlines
    PROVE  Shown(X) = Shown(C) <=> Views(X) = Views(C) /\ ChecklistsOrder(X) = ChecklistsOrder(C)
<1>1. /\ X \in Seq(Checklist) /\ C \in Seq(Checklist) /\ Distinct(X) /\ Distinct(C)
      /\ DOMAIN Shown(X) = DOMAIN X /\ DOMAIN Shown(C) = DOMAIN C
      /\ DOMAIN ChecklistsOrder(X) = DOMAIN X /\ DOMAIN ChecklistsOrder(C) = DOMAIN C
      /\ \A c \in DOMAIN X : Shown(X)[c] = View(X[c]) /\ ChecklistsOrder(X)[c] = X[c].id
      /\ \A c \in DOMAIN C : Shown(C)[c] = View(C[c]) /\ ChecklistsOrder(C)[c] = C[c].id
  BY DEF Outlines, Shown, ChecklistsOrder
<1>2. ASSUME Shown(X) = Shown(C) PROVE Views(X) = Views(C) /\ ChecklistsOrder(X) = ChecklistsOrder(C)
  <2>1. DOMAIN X = DOMAIN C /\ \A c \in DOMAIN X : View(X[c]) = View(C[c])
    BY <1>1, <1>2
  <2>2. \A c \in DOMAIN X : X[c].id = C[c].id
    <3> TAKE c \in DOMAIN X
    <3>1. View(X[c]).id = View(C[c]).id
      BY <2>1
    <3> QED BY <3>1 DEF View
  <2>3. ChecklistsOrder(X) = ChecklistsOrder(C)
    BY <2>1, <2>2 DEF ChecklistsOrder
  <2>4. Views(X) = Views(C)
    BY <2>1 DEF Views, ToSet
  <2> QED BY <2>3, <2>4
<1>3. ASSUME Views(X) = Views(C), ChecklistsOrder(X) = ChecklistsOrder(C) PROVE Shown(X) = Shown(C)
  <2>1. DOMAIN X = DOMAIN C /\ \A c \in DOMAIN X : X[c].id = C[c].id
    BY <1>1, <1>3
  <2>2. ASSUME NEW c \in DOMAIN X PROVE View(X[c]) = View(C[c])
    <3>1. X[c] \in ToSet(X) /\ View(X[c]) \in Views(C)
      BY <1>3 DEF Views, ToSet
    <3>2. PICK d \in ToSet(C) : d.id = X[c].id /\ d.title = X[c].title /\ d.items = X[c].items
      BY <3>1, ViewsAre
    <3>3. PICK k \in DOMAIN C : d = C[k]
      BY DEF ToSet
    <3>4. k = c
      BY <1>1, <2>1, <3>2, <3>3 DEF Distinct
    <3> QED BY <3>2, <3>3, <3>4 DEF View
  <2> QED BY <2>1, <2>2 DEF Shown
<1> QED BY <1>2, <1>3

(* The identifiers of a sequence put together, and of a part of it.        *)
LEMMA JoinOrder ==
    ASSUME NEW S, NEW a \in Seq(S), NEW b \in Seq(S), NEW T, NEW c \in Seq(T), NEW d \in Seq(T),
           ChecklistsOrder(a) = ChecklistsOrder(c), ChecklistsOrder(b) = ChecklistsOrder(d)
    PROVE  ChecklistsOrder(a \o b) = ChecklistsOrder(c \o d)
<1>1. /\ DOMAIN a = 1 .. Len(a) /\ DOMAIN b = 1 .. Len(b) /\ Len(a) \in Nat /\ Len(b) \in Nat
      /\ DOMAIN c = 1 .. Len(c) /\ DOMAIN d = 1 .. Len(d) /\ Len(c) \in Nat /\ Len(d) \in Nat
  OBVIOUS
<1>2. /\ DOMAIN a = DOMAIN c /\ \A k \in DOMAIN a : a[k].id = c[k].id
      /\ DOMAIN b = DOMAIN d /\ \A k \in DOMAIN b : b[k].id = d[k].id
  <2>1. \A s : /\ DOMAIN ChecklistsOrder(s) = DOMAIN s
              /\ \A k \in DOMAIN s : ChecklistsOrder(s)[k] = s[k].id
    BY DEF ChecklistsOrder
  <2>2. DOMAIN a = DOMAIN c /\ \A k \in DOMAIN a : a[k].id = c[k].id
    BY <2>1
  <2>3. DOMAIN b = DOMAIN d /\ \A k \in DOMAIN b : b[k].id = d[k].id
    BY <2>1
  <2> QED BY <2>2, <2>3
<1>3. Len(a) = Len(c) /\ Len(b) = Len(d)
  BY <1>1, <1>2, SameLength
<1>4. PICK x, y : x = a \o b /\ y = c \o d
  OBVIOUS
<1>5. /\ DOMAIN x = 1 .. Len(a) + Len(b)
      /\ \A i \in 1 .. Len(a) + Len(b) : x[i] = IF i <= Len(a) THEN a[i] ELSE b[i - Len(a)]
  <2>1. x \in Seq(S) /\ Len(x) = Len(a) + Len(b)
    BY <1>4, ConcatProperties
  <2> QED BY <1>4, <2>1, ConcatProperties
<1>6. /\ DOMAIN y = 1 .. Len(a) + Len(b)
      /\ \A i \in 1 .. Len(a) + Len(b) : y[i] = IF i <= Len(a) THEN c[i] ELSE d[i - Len(a)]
  <2>1. y \in Seq(T) /\ Len(y) = Len(c) + Len(d)
    BY <1>4, ConcatProperties
  <2> QED BY <1>3, <1>4, <2>1, ConcatProperties
<1>7. ASSUME NEW i \in 1 .. Len(a) + Len(b) PROVE x[i].id = y[i].id
  <2>1. CASE i <= Len(a)
    <3>1. i \in DOMAIN a
      BY <1>1, <2>1
    <3> QED BY <1>2, <1>5, <1>6, <2>1, <3>1
  <2>2. CASE ~(i <= Len(a))
    <3>1. i - Len(a) \in DOMAIN b
      BY <1>1, <2>2
    <3> QED BY <1>2, <1>5, <1>6, <2>2, <3>1
  <2> QED BY <2>1, <2>2
<1> QED BY <1>4, <1>5, <1>6, <1>7 DEF ChecklistsOrder

LEMMA PartOrder ==
    ASSUME NEW S, NEW s \in Seq(S), NEW T, NEW t \in Seq(T), NEW ids,
           ChecklistsOrder(s) = ChecklistsOrder(t)
    PROVE  ChecklistsOrder(Without(s, ids)) = ChecklistsOrder(Without(t, ids))
<1>1. DOMAIN s = DOMAIN t /\ \A k \in DOMAIN s : s[k].id = t[k].id
  <2>1. ChecklistsOrder(s) = [k \in DOMAIN s |-> s[k].id] /\ ChecklistsOrder(t) = [k \in DOMAIN t |-> t[k].id]
    BY DEF ChecklistsOrder
  <2> QED BY <2>1
<1>2. PICK K : K = {k \in DOMAIN s : s[k].id \notin ids}
  OBVIOUS
<1>3. K = {k \in DOMAIN t : t[k].id \notin ids} /\ K \subseteq DOMAIN s
  BY <1>1, <1>2
<1>4. Without(s, ids) = At(s, K) /\ Without(t, ids) = At(t, K)
  BY <1>2, <1>3 DEF Without
<1>5. \A k \in 1 .. Cardinality(K) : Nth(K, k) \in DOMAIN s
  BY <1>3, NthIs
<1> QED BY <1>1, <1>4, <1>5 DEF At, ChecklistsOrder

(* The new checklists come in the update in the order they have.           *)
LEMMA NewOrder ==
    ASSUME NEW P \in Outlines, NEW C \in Outlines, NEW ids, ids \cap IDs(C) = IDs(P) \cap IDs(C)
    PROVE  ChecklistsOrder(Without(GetChecklistUpdates(P, C), ids)) = ChecklistsOrder(Without(C, IDs(P)))
<1>1. /\ C \in Seq(Checklist) /\ DOMAIN C = 1 .. Len(C) /\ Len(C) \in Nat
      /\ \A c \in 1 .. Len(C) : C[c] \in Checklist
      /\ P \in Seq(Checklist) /\ \A id : HasID(P, id) <=> id \in IDs(P)
  <2>1. P \in Seq(Checklist)
    BY DEF Outlines
  <2> QED BY <2>1, IDsAre DEF Outlines
<1>2. PICK U, all, N : /\ U = GetChecklistUpdates(P, C) /\ N = Noticed(P, C)
                       /\ all = [c \in 1 .. Len(C) |-> UpdateOf(P, C[c])]
  OBVIOUS
<1>3. U = At(all, N) /\ N \subseteq 1 .. Len(C)
  BY <1>2, MessageIs DEF Noticed
<1>4. \A c \in 1 .. Len(C) : all[c].id = C[c].id
  BY <1>1, <1>2, UpdateSays
<1>5. /\ Cardinality(N) \in Nat /\ DOMAIN U = 1 .. Cardinality(N)
      /\ \A k \in 1 .. Cardinality(N) : Nth(N, k) \in 1 .. Len(C) /\ U[k] = all[Nth(N, k)]
  BY <1>1, <1>3, NthIs DEF At
<1>6. \A k \in 1 .. Cardinality(N) : U[k].id = C[Nth(N, k)].id
  BY <1>4, <1>5
<1>7. PICK K : K = {c \in DOMAIN C : C[c].id \notin IDs(P)}
  OBVIOUS
<1>8. K \subseteq N
  BY <1>1, <1>2, <1>7 DEF Noticed
<1>9. PICK J : J = {k \in DOMAIN U : U[k].id \notin ids}
  OBVIOUS
<1>10. J = {k \in 1 .. Cardinality(N) : Nth(N, k) \in K}
  <2>1. \A c \in 1 .. Len(C) : C[c].id \in IDs(C)
    BY <1>1 DEF IDs
  <2>2. \A c \in 1 .. Len(C) : C[c].id \in ids <=> C[c].id \in IDs(P)
    BY <2>1
  <2> QED BY <1>1, <1>5, <1>6, <1>7, <1>9, <2>2
<1>11. /\ J \subseteq 1 .. Cardinality(N) /\ Cardinality(J) = Cardinality(K)
       /\ \A m \in 1 .. Cardinality(J) : Nth(N, Nth(J, m)) = Nth(K, m)
  <2>1. PICK n \in Nat : N \subseteq 1 .. n
    BY <1>1, <1>3
  <2>2. J = PositionsOf(K, N)
    BY <1>10 DEF PositionsOf
  <2>3. SameNth(N, K, J)
    BY <1>8, <2>1, <2>2, NthOfNth
  <2> QED BY <2>3 DEF SameNth
<1>12. \A m \in 1 .. Cardinality(J) : Nth(J, m) \in 1 .. Cardinality(N)
  BY <1>5, <1>11, NthIs
<1>13. Without(U, ids) = At(U, J) /\ Without(C, IDs(P)) = At(C, K)
  BY <1>7, <1>9 DEF Without
<1>14. \A m \in 1 .. Cardinality(J) : U[Nth(J, m)].id = C[Nth(K, m)].id
  BY <1>6, <1>11, <1>12
<1> QED BY <1>2, <1>11, <1>13, <1>14 DEF At, ChecklistsOrder

(* The order of the checklists after an update.                            *)
LEMMA OrderAfter ==
    ASSUME NEW P \in Outlines, NEW C \in Outlines, NEW X \in Outlines,
           NEW Y, Y = ApplyChecklistUpdates(Without(X, IDs(P) \ IDs(C)), GetChecklistUpdates(P, C))
    PROVE  /\ ChecklistsOrder(X) = ChecklistsOrder(P) /\ ~Reorders(P, C)
                => ChecklistsOrder(Y) = ChecklistsOrder(C)
           /\ IDs(X) = IDs(C) => ChecklistsOrder(Y) = ChecklistsOrder(X)
<1>1. PICK U, D, Z : U = GetChecklistUpdates(P, C) /\ D = IDs(P) \ IDs(C) /\ Z = Without(X, D)
  OBVIOUS
<1>2. /\ AreUpdates(U) /\ IDs(U) \subseteq IDs(C)
      /\ Z \in Outlines /\ IDs(Z) = IDs(X) \ D /\ (IDs(X) \cap D = {} => Z = X)
  <2>1. AreUpdates(U) /\ IDs(U) \subseteq IDs(C)
    BY <1>1, MessageIs
  <2>2. X \in Seq(Checklist) /\ Distinct(X)
    BY DEF Outlines
  <2>3. Z \in Seq(Checklist) /\ Distinct(Z) /\ IDs(Z) = IDs(X) \ D /\ (IDs(X) \cap D = {} => Z = X)
    BY <1>1, <2>2, WithoutIs
  <2> QED BY <2>1, <2>3 DEF Outlines
<1>3. PICK N : N = Without(U, IDs(Z))
  OBVIOUS
<1>4. Y = KnownAfter(Z, U) \o MadeFrom(N) /\ AreUpdates(N) /\ (IDs(U) \subseteq IDs(Z) => N = <<>>)
  BY <1>1, <1>2, <1>3, OutlineAfter, NewOnesAre
<1>5. KnownAfter(Z, U) \in Seq(Checklist) /\ ChecklistsOrder(KnownAfter(Z, U)) = ChecklistsOrder(Z)
  <2>1. Z \in Seq(Checklist) /\ DOMAIN Z = 1 .. Len(Z)
    BY <1>2 DEF Outlines
  <2>2. \A c \in DOMAIN Z : Z[c] \in Checklist
    BY <2>1
  <2>3. \A c \in DOMAIN Z : OneAfter(Z[c], U).id = Z[c].id
    BY <1>2, <2>2, OneSettles
  <2>4. ChecklistsOrder(KnownAfter(Z, U)) = ChecklistsOrder(Z)
    BY <2>3 DEF KnownAfter, ChecklistsOrder
  <2> QED BY <1>2, <2>4, KnownIs DEF Outlines
<1>6. MadeFrom(N) \in Seq(Checklist) /\ ChecklistsOrder(MadeFrom(N)) = ChecklistsOrder(N)
  <2>1. ChecklistsOrder(MadeFrom(N)) = ChecklistsOrder(N)
    BY DEF MadeFrom, ChecklistsOrder, CreateNewChecklist
  <2> QED BY <1>4, <2>1, MadeIs DEF Outlines
<1>7. ASSUME ChecklistsOrder(X) = ChecklistsOrder(P), ~Reorders(P, C)
      PROVE  ChecklistsOrder(Y) = ChecklistsOrder(C)
  <2>1. P \in Seq(Checklist) /\ X \in Seq(Checklist) /\ C \in Seq(Checklist)
    BY DEF Outlines
  <2>2. ChecklistsOrder(Z) = ChecklistsOrder(Without(P, D))
    BY <1>1, <1>7, <2>1, PartOrder
  <2>3. IDs(X) = IDs(P)
    <3>1. \A S : \A s \in Seq(S) : IDs(s) = {ChecklistsOrder(s)[k] : k \in DOMAIN ChecklistsOrder(s)}
      BY DEF IDs, ChecklistsOrder
    <3> QED BY <1>7, <2>1, <3>1
  <2>4. ChecklistsOrder(N) = ChecklistsOrder(Without(C, IDs(P)))
    <3>1. IDs(Z) \cap IDs(C) = IDs(P) \cap IDs(C)
      BY <1>1, <1>2, <2>3
    <3> QED BY <1>1, <1>3, <3>1, NewOrder
  <2>5. Without(P, D) \in Seq(Checklist) /\ Without(C, IDs(P)) \in Seq(Checklist)
    BY <2>1, WithoutIs
  <2>6. ChecklistsOrder(Y) = ChecklistsOrder(Without(P, D) \o Without(C, IDs(P)))
    <3>1. PICK a, b, c, d : /\ a = KnownAfter(Z, U) /\ b = MadeFrom(N)
                            /\ c = Without(P, D) /\ d = Without(C, IDs(P))
      OBVIOUS
    <3>2. a \in Seq(Checklist) /\ b \in Seq(Checklist) /\ c \in Seq(Checklist) /\ d \in Seq(Checklist)
      BY <1>5, <1>6, <2>5, <3>1
    <3>3. ChecklistsOrder(a) = ChecklistsOrder(c) /\ ChecklistsOrder(b) = ChecklistsOrder(d)
      BY <1>5, <1>6, <2>2, <2>4, <3>1
    <3>4. ChecklistsOrder(a \o b) = ChecklistsOrder(c \o d)
      BY <3>2, <3>3, JoinOrder
    <3> QED BY <1>4, <3>1, <3>4
  <2> QED BY <1>1, <1>7, <2>6 DEF Reorders
<1>8. ASSUME IDs(X) = IDs(C) PROVE ChecklistsOrder(Y) = ChecklistsOrder(X)
  <2>1. Z = X /\ N = <<>>
    BY <1>1, <1>2, <1>4, <1>8
  <2>2. MadeFrom(N) = <<>>
    BY <2>1 DEF MadeFrom
  <2>3. Y = KnownAfter(Z, U)
    BY <1>4, <1>5, <2>2, ConcatEmptySeq
  <2> QED BY <1>5, <2>1, <2>3
<1> QED BY <1>7, <1>8

(* A client that shows the previous version or the current one shows the   *)
(* current one after the update, unless it has still to see a checklist    *)
(* moved.                                                                  *)
LEMMA ShownAfter ==
    ASSUME NEW P \in Outlines, NEW C \in Outlines, Follows(P, C), NEW X \in Outlines,
           (Shown(X) = Shown(P) /\ ~Reorders(P, C)) \/ Shown(X) = Shown(C),
           NEW Y, Y = ApplyChecklistUpdates(Without(X, IDs(P) \ IDs(C)), GetChecklistUpdates(P, C))
    PROVE  Y \in Outlines /\ Shown(Y) = Shown(C)
<1>1. CASE Shown(X) = Shown(P) /\ ~Reorders(P, C)
  <2>1. Views(X) = Views(P) /\ ChecklistsOrder(X) = ChecklistsOrder(P)
    BY <1>1, ShownIs
  <2>2. Y \in Outlines /\ Views(Y) = Views(C)
    BY <2>1, OutlineReached
  <2>3. ChecklistsOrder(Y) = ChecklistsOrder(C)
    BY <1>1, <2>1, OrderAfter
  <2> QED BY <2>2, <2>3, ShownIs
<1>2. CASE Shown(X) = Shown(C)
  <2>1. Views(X) = Views(C) /\ ChecklistsOrder(X) = ChecklistsOrder(C) /\ IDs(X) = IDs(C)
    BY <1>2, ShownIs, ViewsAre
  <2>2. Y \in Outlines /\ Views(Y) = Views(C)
    BY <2>1, OutlineKept
  <2>3. ChecklistsOrder(Y) = ChecklistsOrder(C)
    BY <2>1, OrderAfter
  <2> QED BY <2>2, <2>3, ShownIs
<1> QED BY <1>1, <1>2

-----------------------------------------------------------------------------
(* Whole runs. *)

LEMMA SeenIs ==
    \A r : Seen(r) = [checklists |-> Shown(r.checklists), events |-> r.events]
BY DEF Seen, Shown, View

(* A client that shows one version of a run shows the next once it has     *)
(* applied the update DetectChangedFields makes of the two, the checklists *)
(* in their order, unless one was moved; and one that shows the next       *)
(* already keeps showing it.                                               *)
THEOREM UpdateGivesNextVersion ==
    ASSUME NEW p, p.checklists \in Outlines,
           NEW c, c.checklists \in Outlines,
           NEW x, x.checklists \in Outlines,
           Follows(p.checklists, c.checklists), p.events \subseteq c.events,
           \/ Seen(x) = Seen(p) /\ ~Reorders(p.checklists, c.checklists)
           \/ Seen(x) = Seen(c)
    PROVE  LET y == ApplyChangedFields(x, DetectChangedFields(p, c))
           IN  y.checklists \in Outlines /\ Seen(y) = Seen(c)
<1>1. PICK u : u = DetectChangedFields(p, c)
  OBVIOUS
<1>2. PICK y : y = ApplyChangedFields(x, u)
  OBVIOUS
<1>3. /\ u.deletes = IDs(p.checklists) \ IDs(c.checklists)
      /\ u.checklists = GetChecklistUpdates(p.checklists, c.checklists)
      /\ u.events = c.events \ p.events
  BY <1>1 DEF DetectChangedFields
<1>4. /\ y.checklists = ApplyChecklistUpdates(Without(x.checklists, u.deletes), u.checklists)
      /\ y.events = x.events \cup u.events
  BY <1>2 DEF ApplyChangedFields
<1>5. \/ /\ Shown(x.checklists) = Shown(p.checklists) /\ x.events = p.events
         /\ ~Reorders(p.checklists, c.checklists)
      \/ Shown(x.checklists) = Shown(c.checklists) /\ x.events = c.events
  <2>1. \A r : Seen(r).checklists = Shown(r.checklists) /\ Seen(r).events = r.events
    BY SeenIs
  <2> QED BY <2>1
<1>6. y.events = c.events
  BY <1>3, <1>4, <1>5
<1>7. y.checklists \in Outlines /\ Shown(y.checklists) = Shown(c.checklists)
  <2>1. PICK P, C, X, Y : P = p.checklists /\ C = c.checklists /\ X = x.checklists /\ Y = y.checklists
    OBVIOUS
  <2>2. P \in Outlines /\ C \in Outlines /\ X \in Outlines /\ Follows(P, C)
        /\ Y = ApplyChecklistUpdates(Without(X, IDs(P) \ IDs(C)), GetChecklistUpdates(P, C))
        /\ ((Shown(X) = Shown(P) /\ ~Reorders(P, C)) \/ Shown(X) = Shown(C))
    BY <1>3, <1>4, <1>5, <2>1
  <2>3. Y \in Outlines /\ Shown(Y) = Shown(C)
    BY <2>2, ShownAfter
  <2> QED BY <2>1, <2>3
<1>8. Seen(y) = Seen(c)
  <2>1. Seen(y) = [checklists |-> Shown(y.checklists), events |-> y.events]
        /\ Seen(c) = [checklists |-> Shown(c.checklists), events |-> c.events]
    BY SeenIs
  <2> QED BY <1>6, <1>7, <2>1
<1> QED BY <1>1, <1>2, <1>7, <1>8

-----------------------------------------------------------------------------
(* Sequences: one element taken out, put in or changed. *)

LEMMA RemoveAtIs ==
    ASSUME NEW S, NEW s \in Seq(S), NEW i \in 1..Len(s)
    PROVE  /\ RemoveAt(s, i) \in Seq(S)
           /\ Len(RemoveAt(s, i)) = Len(s) - 1
           /\ \A k \in 1..Len(s) - 1 : RemoveAt(s, i)[k] = IF k < i THEN s[k] ELSE s[k + 1]
<1> DEFINE a == SubSeq(s, 1, i - 1)
           b == SubSeq(s, i + 1, Len(s))
<1>1. Len(s) \in Nat /\ i - 1 \in Int /\ i + 1 \in Int /\ \A k \in 1..Len(s) : s[k] \in S
  BY ElementOfSeq, LenProperties
<1>2. a \in Seq(S) /\ Len(a) = i - 1 /\ \A k \in 1..i - 1 : a[k] = s[k]
  BY <1>1, SubSeqProperties
<1>3. b \in Seq(S) /\ Len(b) = Len(s) - i /\ \A k \in 1..Len(s) - i : b[k] = s[i + k]
  BY <1>1, SubSeqProperties
<1> HIDE DEF a, b
<1>4. RemoveAt(s, i) = a \o b
  BY DEF RemoveAt, a, b
<1>5. /\ a \o b \in Seq(S)
      /\ Len(a \o b) = Len(a) + Len(b)
      /\ \A k \in 1..Len(a) + Len(b) : (a \o b)[k] = IF k <= Len(a) THEN a[k] ELSE b[k - Len(a)]
  BY <1>2, <1>3, ConcatProperties
<1>6. ASSUME NEW k \in 1..Len(s) - 1 PROVE (a \o b)[k] = IF k < i THEN s[k] ELSE s[k + 1]
  <2>1. (a \o b)[k] = IF k <= i - 1 THEN a[k] ELSE b[k - (i - 1)]
    <3>1. Len(a) = i - 1 /\ Len(a) + Len(b) = Len(s) - 1
      BY <1>1, <1>2, <1>3
    <3>2. k \in 1..Len(a) + Len(b)
      BY <3>1
    <3> QED BY <1>5, <3>1, <3>2
  <2>2. CASE k < i
    BY <1>1, <1>2, <2>1, <2>2
  <2>3. CASE ~(k < i)
    <3>1. k - (i - 1) \in 1..Len(s) - i /\ i + (k - (i - 1)) = k + 1 /\ ~(k <= i - 1)
      BY <1>1, <2>3
    <3>2. b[k - (i - 1)] = s[k + 1]
      BY <1>3, <3>1
    <3> QED BY <2>1, <2>3, <3>1, <3>2
  <2> QED BY <2>2, <2>3
<1>7. a \o b \in Seq(S) /\ Len(a \o b) = Len(s) - 1
  BY <1>1, <1>2, <1>3, <1>5
<1> QED BY <1>4, <1>6, <1>7

LEMMA InsertAtIs ==
    ASSUME NEW S, NEW s \in Seq(S), NEW i \in 1..Len(s) + 1, NEW e \in S
    PROVE  /\ InsertAt(s, i, e) \in Seq(S)
           /\ Len(InsertAt(s, i, e)) = Len(s) + 1
           /\ \A k \in 1..Len(s) + 1 : InsertAt(s, i, e)[k] =
                  IF k < i THEN s[k] ELSE IF k = i THEN e ELSE s[k - 1]
<1> DEFINE a == SubSeq(s, 1, i - 1)
           b == SubSeq(s, i, Len(s))
<1>1. Len(s) \in Nat /\ i - 1 \in Int /\ i \in Int /\ \A k \in 1..Len(s) : s[k] \in S
  BY ElementOfSeq, LenProperties
<1>2. a \in Seq(S) /\ Len(a) = i - 1 /\ \A k \in 1..i - 1 : a[k] = s[k]
  BY <1>1, SubSeqProperties
<1>3. b \in Seq(S) /\ Len(b) = Len(s) - i + 1 /\ \A k \in 1..Len(s) - i + 1 : b[k] = s[i + k - 1]
  BY <1>1, SubSeqProperties
<1>4. <<e>> \in Seq(S) /\ Len(<<e>>) = 1 /\ <<e>>[1] = e
  OBVIOUS
<1> HIDE DEF a, b
<1>5. PICK m : m = a \o <<e>>
  OBVIOUS
<1>6. /\ m \in Seq(S) /\ Len(m) = i
      /\ \A k \in 1..i : m[k] = IF k < i THEN s[k] ELSE e
  <2>1. /\ m \in Seq(S) /\ Len(m) = Len(a) + 1
        /\ \A k \in 1..Len(a) + 1 : m[k] = IF k <= Len(a) THEN a[k] ELSE <<e>>[k - Len(a)]
    BY <1>2, <1>4, <1>5, ConcatProperties
  <2> QED BY <2>1, <1>1, <1>2, <1>4
<1>7. InsertAt(s, i, e) = m \o b
  BY <1>5 DEF InsertAt, a, b
<1>8. /\ m \o b \in Seq(S) /\ Len(m \o b) = Len(m) + Len(b)
      /\ \A k \in 1..Len(m) + Len(b) : (m \o b)[k] = IF k <= Len(m) THEN m[k] ELSE b[k - Len(m)]
  BY <1>3, <1>6, ConcatProperties
<1>9. ASSUME NEW k \in 1..Len(s) + 1
      PROVE (m \o b)[k] = IF k < i THEN s[k] ELSE IF k = i THEN e ELSE s[k - 1]
  BY <1>1, <1>3, <1>6, <1>8
<1> QED BY <1>1, <1>3, <1>6, <1>7, <1>8, <1>9

(* Nothing but NoID comes twice. *)
Unique(s) == \A i, j \in DOMAIN s : s[i].id = s[j].id /\ s[i].id # NoID => i = j

LEMMA TakenOut ==
    ASSUME NEW S, NEW s \in Seq(S), NEW i \in 1 .. Len(s)
    PROVE  /\ RemoveAt(s, i) \in Seq(S)
           /\ ToSet(RemoveAt(s, i)) \subseteq ToSet(s)
           /\ Unique(s) => Unique(RemoveAt(s, i))
           /\ IDs(s) \subseteq IDs(RemoveAt(s, i)) \cup {s[i].id}
           /\ Unique(s) /\ s[i].id # NoID => s[i].id \notin IDs(RemoveAt(s, i))
<1>1. PICK r : r = RemoveAt(s, i)
  OBVIOUS
<1>2. /\ r \in Seq(S) /\ Len(r) = Len(s) - 1 /\ Len(s) \in Nat /\ i \in Nat /\ i >= 1 /\ i <= Len(s)
      /\ \A k \in 1 .. Len(s) - 1 : r[k] = IF k < i THEN s[k] ELSE s[k + 1]
  BY <1>1, RemoveAtIs
<1>3. DOMAIN r = 1 .. Len(s) - 1 /\ DOMAIN s = 1 .. Len(s)
  BY <1>2
<1>4. \A k \in 1 .. Len(s) - 1 : \E p \in 1 .. Len(s) :
        r[k] = s[p] /\ p = (IF k < i THEN k ELSE k + 1) /\ p # i
  BY <1>2
<1>5. ToSet(r) \subseteq ToSet(s)
  BY <1>3, <1>4 DEF ToSet
<1>6. ASSUME Unique(s) PROVE Unique(r)
  <2> SUFFICES ASSUME NEW k \in 1 .. Len(s) - 1, NEW l \in 1 .. Len(s) - 1,
                      r[k].id = r[l].id, r[k].id # NoID
               PROVE  k = l
    BY <1>3 DEF Unique
  <2>1. PICK p \in 1 .. Len(s) : r[k] = s[p] /\ p = IF k < i THEN k ELSE k + 1
    BY <1>4
  <2>2. PICK q \in 1 .. Len(s) : r[l] = s[q] /\ q = IF l < i THEN l ELSE l + 1
    BY <1>4
  <2>3. p = q
    BY <1>3, <1>6, <2>1, <2>2 DEF Unique
  <2> QED BY <1>2, <2>1, <2>2, <2>3
<1>7. IDs(s) \subseteq IDs(r) \cup {s[i].id}
  <2> SUFFICES ASSUME NEW p \in 1 .. Len(s), p # i PROVE s[p].id \in IDs(r)
    BY <1>3 DEF IDs
  <2>1. CASE p < i
    <3>1. p \in 1 .. Len(s) - 1 /\ r[p] = s[p]
      BY <1>2, <2>1
    <3> QED BY <1>3, <3>1 DEF IDs
  <2>2. CASE ~(p < i)
    <3>1. p - 1 \in 1 .. Len(s) - 1 /\ ~(p - 1 < i) /\ p - 1 + 1 = p
      BY <1>2, <2>2
    <3>2. r[p - 1] = s[p]
      BY <1>2, <3>1
    <3> QED BY <1>3, <3>1, <3>2 DEF IDs
  <2> QED BY <2>1, <2>2
<1>8. ASSUME Unique(s), s[i].id # NoID, s[i].id \in IDs(r) PROVE FALSE
  <2>1. PICK k \in 1 .. Len(s) - 1 : r[k].id = s[i].id
    BY <1>3, <1>8 DEF IDs
  <2>2. PICK p \in 1 .. Len(s) : r[k] = s[p] /\ p # i
    BY <1>4
  <2> QED BY <1>3, <1>8, <2>1, <2>2 DEF Unique
<1> QED BY <1>1, <1>2, <1>5, <1>6, <1>7, <1>8

LEMMA PutIn ==
    ASSUME NEW S, NEW s \in Seq(S), NEW i \in 1 .. Len(s) + 1, NEW e \in S
    PROVE  /\ InsertAt(s, i, e) \in Seq(S)
           /\ ToSet(InsertAt(s, i, e)) = ToSet(s) \cup {e}
           /\ IDs(InsertAt(s, i, e)) = IDs(s) \cup {e.id}
           /\ Unique(s) /\ (e.id = NoID \/ e.id \notin IDs(s)) => Unique(InsertAt(s, i, e))
<1>1. PICK r : r = InsertAt(s, i, e)
  OBVIOUS
<1>2. /\ r \in Seq(S) /\ Len(r) = Len(s) + 1 /\ Len(s) \in Nat /\ i \in Nat /\ i >= 1 /\ i <= Len(s) + 1
      /\ \A k \in 1 .. Len(s) + 1 :
            r[k] = IF k < i THEN s[k] ELSE IF k = i THEN e ELSE s[k - 1]
  BY <1>1, InsertAtIs
<1>3. DOMAIN r = 1 .. Len(s) + 1 /\ DOMAIN s = 1 .. Len(s)
  BY <1>2
<1>4. \A k \in 1 .. Len(s) + 1 : (k = i /\ r[k] = e) \/
        \E p \in 1 .. Len(s) : k # i /\ r[k] = s[p] /\ p = (IF k < i THEN k ELSE k - 1)
  BY <1>2
<1>5. i \in 1 .. Len(s) + 1 /\ r[i] = e
  BY <1>2
<1>6. ASSUME NEW p \in 1 .. Len(s) PROVE \E k \in 1 .. Len(s) + 1 : r[k] = s[p]
  <2>1. CASE p < i
    BY <1>2, <2>1
  <2>2. CASE ~(p < i)
    <3>1. p + 1 \in 1 .. Len(s) + 1 /\ ~(p + 1 < i) /\ p + 1 # i /\ p + 1 - 1 = p
      BY <1>2, <2>2
    <3>2. r[p + 1] = s[p]
      BY <1>2, <3>1
    <3> QED BY <3>1, <3>2
  <2> QED BY <2>1, <2>2
<1>7. ToSet(r) = ToSet(s) \cup {e}
  <2>1. ToSet(r) \subseteq ToSet(s) \cup {e}
    BY <1>3, <1>4 DEF ToSet
  <2>2. ToSet(s) \cup {e} \subseteq ToSet(r)
    BY <1>3, <1>5, <1>6 DEF ToSet
  <2> QED BY <2>1, <2>2
<1>8. IDs(r) = IDs(s) \cup {e.id}
  <2>1. IDs(r) = {x.id : x \in ToSet(r)} /\ IDs(s) = {x.id : x \in ToSet(s)}
    BY <1>2, IDsAre
  <2> QED BY <1>7, <2>1
<1>9. ASSUME Unique(s), e.id = NoID \/ e.id \notin IDs(s) PROVE Unique(r)
  <2> SUFFICES ASSUME NEW k \in 1 .. Len(s) + 1, NEW l \in 1 .. Len(s) + 1,
                      r[k].id = r[l].id, r[k].id # NoID
               PROVE  k = l
    BY <1>3 DEF Unique
  <2>1. ASSUME NEW m \in 1 .. Len(s) + 1, m # i
        PROVE  \E p \in 1 .. Len(s) : r[m] = s[p] /\ p = (IF m < i THEN m ELSE m - 1)
    BY <1>4, <2>1
  <2>2. \A p \in 1 .. Len(s) : s[p].id \in IDs(s)
    BY <1>3 DEF IDs
  <2>3. CASE k = i /\ l # i
    BY <1>5, <1>9, <2>1, <2>2, <2>3
  <2>4. CASE k # i /\ l = i
    BY <1>5, <1>9, <2>1, <2>2, <2>4
  <2>5. CASE k # i /\ l # i
    <3>1. PICK p \in 1 .. Len(s) : r[k] = s[p] /\ p = IF k < i THEN k ELSE k - 1
      BY <2>1, <2>5
    <3>2. PICK q \in 1 .. Len(s) : r[l] = s[q] /\ q = IF l < i THEN l ELSE l - 1
      BY <2>1, <2>5
    <3>3. p = q
      BY <1>3, <1>9, <3>1, <3>2 DEF Unique
    <3> QED BY <1>2, <2>5, <3>1, <3>2, <3>3
  <2> QED BY <2>3, <2>4, <2>5
<1> QED BY <1>1, <1>2, <1>7, <1>8, <1>9

LEMMA PutLast ==
    ASSUME NEW S, NEW s \in Seq(S), NEW e \in S
    PROVE  /\ Append(s, e) \in Seq(S)
           /\ ToSet(Append(s, e)) = ToSet(s) \cup {e}
           /\ IDs(Append(s, e)) = IDs(s) \cup {e.id}
           /\ Unique(s) /\ (e.id = NoID \/ e.id \notin IDs(s)) => Unique(Append(s, e))
<1>1. PICK r : r = Append(s, e)
  OBVIOUS
<1>2. /\ r \in Seq(S) /\ Len(r) = Len(s) + 1 /\ Len(s) \in Nat
      /\ \A k \in 1 .. Len(s) + 1 : r[k] = IF k = Len(s) + 1 THEN e ELSE s[k]
  BY <1>1
<1>3. DOMAIN r = 1 .. Len(s) + 1 /\ DOMAIN s = 1 .. Len(s)
  BY <1>2
<1>4. /\ Len(s) + 1 \in 1 .. Len(s) + 1 /\ r[Len(s) + 1] = e
      /\ \A k \in 1 .. Len(s) : k \in 1 .. Len(s) + 1 /\ r[k] = s[k]
      /\ \A k \in 1 .. Len(s) + 1 : k = Len(s) + 1 \/ k \in 1 .. Len(s)
  BY <1>2
<1>5. ToSet(r) = ToSet(s) \cup {e}
  BY <1>3, <1>4 DEF ToSet
<1>6. IDs(r) = IDs(s) \cup {e.id}
  <2>1. IDs(r) = {x.id : x \in ToSet(r)} /\ IDs(s) = {x.id : x \in ToSet(s)}
    BY <1>2, IDsAre
  <2> QED BY <1>5, <2>1
<1>7. ASSUME Unique(s), e.id = NoID \/ e.id \notin IDs(s) PROVE Unique(r)
  <2> SUFFICES ASSUME NEW k \in 1 .. Len(s) + 1, NEW l \in 1 .. Len(s) + 1,
                      r[k].id = r[l].id, r[k].id # NoID
               PROVE  k = l
    BY <1>3 DEF Unique
  <2>1. \A p \in 1 .. Len(s) : s[p].id \in IDs(s)
    BY <1>3 DEF IDs
  <2>2. CASE k \in 1 .. Len(s) /\ l \in 1 .. Len(s)
    BY <1>3, <1>4, <1>7, <2>2 DEF Unique
  <2>3. CASE k = Len(s) + 1 /\ l \in 1 .. Len(s)
    BY <1>4, <1>7, <2>1, <2>3
  <2>4. CASE l = Len(s) + 1 /\ k \in 1 .. Len(s)
    BY <1>4, <1>7, <2>1, <2>4
  <2> QED BY <1>4, <2>2, <2>3, <2>4
<1> QED BY <1>1, <1>2, <1>5, <1>6, <1>7

(* The same identifiers at the same places. *)
LEMMA Replaced ==
    ASSUME NEW S, NEW s \in Seq(S), NEW r, DOMAIN r = DOMAIN s,
           r = [k \in DOMAIN r |-> r[k]],
           \A k \in DOMAIN s : r[k] \in S /\ r[k].id = s[k].id
    PROVE  /\ r \in Seq(S)
           /\ IDs(r) = IDs(s)
           /\ Unique(s) => Unique(r)
<1>1. DOMAIN s = 1 .. Len(s) /\ Len(s) \in Nat
  OBVIOUS
<1>2. r \in Seq(S)
  BY <1>1, IsASeq
<1>3. IDs(r) = IDs(s)
  BY DEF IDs
<1> QED BY <1>2, <1>3 DEF Unique

-----------------------------------------------------------------------------
(* The checklists of the row, and of a handler's copy before it is written. *)

(* A checklist that may lack identifiers.                                  *)
Draft == [id : Id, title : Nat \ {0}, updateAt : Nat, items : Seq(Item)]

(* No identifier and no time is later than t.                              *)
Sound(x, t) ==
    /\ Unique(x.items)
    /\ x.id[1] <= t /\ x.updateAt <= t
    /\ \A id \in IDs(x.items) : id[1] <= t
    /\ x.id = NoID => IDs(x.items) \subseteq {NoID}

Drafted(L, t) ==
    /\ L \in Seq(Draft) /\ Unique(L)
    /\ \A x \in ToSet(L) : Sound(x, t)
    /\ \A x, y \in ToSet(L) : x.id # y.id => IDs(x.items) \cap IDs(y.items) \subseteq {NoID}

Written(L, t) ==
    /\ Drafted(L, t)
    /\ NoID \notin IDs(L)
    /\ \A x \in ToSet(L) : NoID \notin IDs(x.items)

LEMMA IdIs ==
    /\ NoID \in Id /\ NoID[1] = 0
    /\ \A id \in Id : id[1] \in Nat
    /\ \A s, c, i \in Nat : NewId(s, c, i) \in Id /\ NewId(s, c, i)[1] = s
    /\ \A s, c, i, d, j \in Nat : NewId(s, c, i) = NewId(s, d, j) => c = d /\ i = j
BY DEF NoID, NewId, Id

LEMMA ItemIdsAre ==
    ASSUME NEW items \in Seq(Item)
    PROVE  IDs(items) \subseteq Id /\ \A id \in IDs(items) : id[1] \in Nat
<1>1. \A k \in DOMAIN items : items[k] \in Item
  OBVIOUS
<1>2. \A k \in DOMAIN items : items[k].id \in Id
  BY <1>1 DEF Item
<1>3. IDs(items) \subseteq Id
  BY <1>2 DEF IDs
<1> QED BY <1>3, IdIs

LEMMA LaterToo ==
    ASSUME NEW L, NEW t \in Nat, NEW s \in Nat, t <= s
    PROVE  /\ Drafted(L, t) => Drafted(L, s)
           /\ Written(L, t) => Written(L, s)
<1>1. ASSUME Drafted(L, t) PROVE Drafted(L, s)
  <2>1. ASSUME NEW x \in ToSet(L) PROVE Sound(x, s)
    <3>1. Sound(x, t) /\ x \in Draft
      BY <1>1, IDsAre DEF Drafted
    <3>2. x.id[1] \in Nat /\ x.updateAt \in Nat
      BY <3>1, IdIs DEF Draft
    <3>3. \A id \in IDs(x.items) : id[1] \in Nat
      <4>1. x.items \in Seq(Item)
        BY <3>1 DEF Draft
      <4> QED BY <4>1, ItemIdsAre
    <3> QED BY <3>1, <3>2, <3>3 DEF Sound
  <2> QED BY <1>1, <2>1 DEF Drafted
<1> QED BY <1>1 DEF Written

LEMMA WrittenIs ==
    ASSUME NEW L, NEW t, Written(L, t)
    PROVE  /\ L \in Outlines /\ L \in Seq(Draft)
           /\ \A x \in ToSet(L) : x.items \in Items /\ x \in Draft /\ x \in Checklist
<1>1. L \in Seq(Draft) /\ Unique(L) /\ NoID \notin IDs(L)
  BY DEF Written, Drafted
<1>2. DOMAIN L = 1 .. Len(L) /\ Len(L) \in Nat /\ \A c \in 1 .. Len(L) : L[c] \in Draft /\ L[c] \in ToSet(L)
  BY <1>1 DEF ToSet
<1>3. ASSUME NEW x \in ToSet(L) PROVE x.items \in Items /\ x \in Draft /\ x \in Checklist
  <2>1. x \in Draft /\ Sound(x, t) /\ NoID \notin IDs(x.items)
    BY <1>1, IDsAre DEF Written, Drafted
  <2>2. Distinct(x.items)
    BY <2>1 DEF Sound, Unique, Distinct, IDs
  <2>3. x.items \in Items
    BY <2>1, <2>2 DEF Items, Draft
  <2> QED BY <2>1, <2>3 DEF Draft, Checklist
<1>4. \A c \in 1 .. Len(L) : L[c] \in Checklist
  BY <1>2, <1>3
<1>5. L = [c \in 1 .. Len(L) |-> L[c]]
  BY <1>1, <1>2
<1>6. L \in Seq(Checklist)
  BY <1>2, <1>4, <1>5, IsASeq
<1>7. Distinct(L)
  BY <1>1 DEF Unique, Distinct, IDs
<1> QED BY <1>1, <1>3, <1>6, <1>7 DEF Outlines

(* The identifiers the store assigns.                                      *)
ItemsNamed(items, s, c) ==
    [i \in DOMAIN items |->
        IF items[i].id = NoID THEN [items[i] EXCEPT !.id = NewId(s, c, i)] ELSE items[i]]

LEMMA ItemsGetIds ==
    ASSUME NEW items \in Seq(Item), NEW t \in Nat, NEW s \in Nat, t < s, NEW c \in Nat,
           Unique(items), \A id \in IDs(items) : id[1] <= t
    PROVE  /\ ItemsNamed(items, s, c) \in Items
           /\ NoID \notin IDs(ItemsNamed(items, s, c))
           /\ IDs(items) \ {NoID} \subseteq IDs(ItemsNamed(items, s, c))
           /\ \A id \in IDs(ItemsNamed(items, s, c)) :
                \/ id \in IDs(items) /\ id # NoID
                \/ \E i \in Nat : id = NewId(s, c, i)
<1>1. DOMAIN items = 1 .. Len(items) /\ Len(items) \in Nat
      /\ \A i \in 1 .. Len(items) : items[i] \in Item /\ items[i].id \in IDs(items)
  BY DEF IDs
<1>2. PICK new : new = ItemsNamed(items, s, c)
  OBVIOUS
<1>3. DOMAIN new = 1 .. Len(items) /\ new = [i \in 1 .. Len(items) |-> new[i]]
  BY <1>1, <1>2 DEF ItemsNamed
<1>4. ASSUME NEW i \in 1 .. Len(items)
      PROVE  /\ new[i] \in Item /\ new[i].id # NoID
             /\ new[i].id = (IF items[i].id = NoID THEN NewId(s, c, i) ELSE items[i].id)
  <2>1. new[i] = IF items[i].id = NoID THEN [items[i] EXCEPT !.id = NewId(s, c, i)] ELSE items[i]
    BY <1>1, <1>2 DEF ItemsNamed
  <2>2. NewId(s, c, i) \in Id /\ NewId(s, c, i)[1] = s /\ NewId(s, c, i) # NoID
    BY <1>1, IdIs
  <2> QED BY <1>1, <2>1, <2>2 DEF Item
<1>5. new \in Seq(Item)
  BY <1>1, <1>3, <1>4, IsASeq
<1>6. \A i \in 1 .. Len(items) : items[i].id[1] <= t
  BY <1>1
<1>7. Distinct(new)
  <2> SUFFICES ASSUME NEW i \in 1 .. Len(items), NEW j \in 1 .. Len(items), new[i].id = new[j].id
               PROVE  i = j
    BY <1>3 DEF Distinct
  <2>1. NewId(s, c, i)[1] = s /\ NewId(s, c, j)[1] = s /\ (NewId(s, c, i) = NewId(s, c, j) => i = j)
    BY <1>1, IdIs
  <2>2. CASE items[i].id = NoID /\ items[j].id = NoID
    BY <1>4, <2>1, <2>2
  <2>3. CASE items[i].id = NoID /\ items[j].id # NoID
    BY <1>4, <1>6, <2>1, <2>3
  <2>4. CASE items[i].id # NoID /\ items[j].id = NoID
    BY <1>4, <1>6, <2>1, <2>4
  <2>5. CASE items[i].id # NoID /\ items[j].id # NoID
    BY <1>1, <1>4, <2>5 DEF Unique
  <2> QED BY <2>2, <2>3, <2>4, <2>5
<1>8. NoID \notin IDs(new)
  BY <1>3, <1>4 DEF IDs
<1>9. IDs(items) \ {NoID} \subseteq IDs(new)
  <2> SUFFICES ASSUME NEW i \in 1 .. Len(items), items[i].id # NoID PROVE items[i].id \in IDs(new)
    BY <1>1 DEF IDs
  <2>1. new[i].id = items[i].id
    BY <1>4
  <2> QED BY <1>3, <2>1 DEF IDs
<1>10. ASSUME NEW id \in IDs(new)
       PROVE  \/ id \in IDs(items) /\ id # NoID
              \/ \E i \in Nat : id = NewId(s, c, i)
  <2>1. PICK i \in 1 .. Len(items) : id = new[i].id
    BY <1>3 DEF IDs
  <2>2. i \in Nat
    BY <1>1
  <2> QED BY <1>1, <1>4, <2>1, <2>2
<1> QED BY <1>2, <1>5, <1>7, <1>8, <1>9, <1>10 DEF Items

ListNamed(x, s, c) ==
    [ id       |-> IF x.id = NoID THEN NewId(s, c, 0) ELSE x.id,
      title    |-> x.title,
      updateAt |-> x.updateAt,
      items    |-> ItemsNamed(x.items, s, c) ]

LEMMA ListGetsId ==
    ASSUME NEW x \in Draft, NEW s, NEW c
    PROVE  [x EXCEPT
               !.id    = IF @ = NoID THEN NewId(s, c, 0) ELSE @,
               !.items = [i \in DOMAIN @ |->
                             IF @[i].id = NoID
                             THEN [@[i] EXCEPT !.id = NewId(s, c, i)]
                             ELSE @[i]]]
             = ListNamed(x, s, c)
<1>1. PICK y : y = [x EXCEPT !.id    = IF x.id = NoID THEN NewId(s, c, 0) ELSE x.id,
                             !.items = ItemsNamed(x.items, s, c)]
  OBVIOUS
<1>2. PICK i, a, b, d : x = [id |-> i, title |-> a, updateAt |-> b, items |-> d]
  BY DEF Draft
<1>3. y = [f \in DOMAIN x |-> y[f]] /\ DOMAIN x = {"id", "title", "updateAt", "items"}
  BY <1>1, <1>2
<1>4. y = [f \in {"id", "title", "updateAt", "items"} |-> y[f]]
  BY <1>3
<1>5. /\ y.id = (IF x.id = NoID THEN NewId(s, c, 0) ELSE x.id)
      /\ y.title = x.title /\ y.updateAt = x.updateAt /\ y.items = ItemsNamed(x.items, s, c)
  BY <1>1, <1>2
<1>6. y = ListNamed(x, s, c)
  BY <1>4, <1>5 DEF ListNamed
<1> QED BY <1>1, <1>6, Zenon DEF ItemsNamed

(* What the checklist x is after the write, as y.                          *)
GotIds(x, y, s, c) ==
    /\ y \in Draft /\ Sound(y, s) /\ y.items \in Items
    /\ y.id # NoID /\ NoID \notin IDs(y.items)
    /\ y.title = x.title /\ y.updateAt = x.updateAt
    /\ y.id = (IF x.id = NoID THEN NewId(s, c, 0) ELSE x.id)
    /\ IDs(x.items) \ {NoID} \subseteq IDs(y.items)
    /\ \A id \in IDs(y.items) :
         \/ id \in IDs(x.items) /\ id # NoID
         \/ \E i \in Nat : id = NewId(s, c, i)

LEMMA ListIsNamed ==
    ASSUME NEW x \in Draft, NEW t \in Nat, NEW s \in Nat, t < s, NEW c \in Nat, Sound(x, t),
           NEW y, y = ListNamed(x, s, c)
    PROVE  GotIds(x, y, s, c)
<1>1. /\ x.items \in Seq(Item) /\ Unique(x.items) /\ x.id \in Id /\ x.title \in Nat \ {0}
      /\ x.updateAt \in Nat /\ x.id[1] <= t /\ x.updateAt <= t /\ x.id[1] \in Nat
      /\ \A id \in IDs(x.items) : id[1] <= t
  BY IdIs DEF Draft, Sound
<1>2. PICK items : items = ItemsNamed(x.items, s, c)
  OBVIOUS
<1>3. /\ items \in Items /\ NoID \notin IDs(items) /\ IDs(x.items) \ {NoID} \subseteq IDs(items)
      /\ \A id \in IDs(items) :
           \/ id \in IDs(x.items) /\ id # NoID
           \/ \E i \in Nat : id = NewId(s, c, i)
  BY <1>1, <1>2, ItemsGetIds
<1>4. y = [id |-> IF x.id = NoID THEN NewId(s, c, 0) ELSE x.id, title |-> x.title,
           updateAt |-> x.updateAt, items |-> items]
  BY <1>2 DEF ListNamed
<1>5. NewId(s, c, 0) \in Id /\ NewId(s, c, 0)[1] = s /\ NewId(s, c, 0) # NoID
  BY IdIs
<1>6. y.id \in Id /\ y.id # NoID /\ y.id[1] <= s
  <2>1. y.id = IF x.id = NoID THEN NewId(s, c, 0) ELSE x.id
    BY <1>4
  <2>2. CASE x.id = NoID
    BY <1>5, <2>1, <2>2
  <2>3. CASE x.id # NoID
    <3>1. y.id = x.id /\ x.id[1] <= s
      BY <1>1, <2>1, <2>3
    <3> QED BY <1>1, <2>3, <3>1
  <2> QED BY <2>2, <2>3
<1>7. items \in Seq(Item) /\ Distinct(items)
  BY <1>3 DEF Items
<1>8. y \in Draft
  BY <1>1, <1>4, <1>6, <1>7 DEF Draft
<1>9. \A id \in IDs(items) : id[1] <= s
  <2> TAKE id \in IDs(items)
  <2>1. CASE id \in IDs(x.items)
    <3>1. id[1] <= t /\ id[1] \in Nat
      BY <1>1, <2>1, ItemIdsAre
    <3> QED BY <3>1
  <2>2. CASE \E i \in Nat : id = NewId(s, c, i)
    BY <2>2, IdIs
  <2> QED BY <1>3, <2>1, <2>2
<1>10. Unique(items)
  BY <1>7 DEF Unique, Distinct
<1>11. Sound(y, s)
  BY <1>1, <1>4, <1>6, <1>9, <1>10 DEF Sound
<1> QED BY <1>3, <1>4, <1>6, <1>8, <1>11 DEF GotIds

(* A written row has an identifier for everything, and none twice.         *)
LEMMA Populated ==
    ASSUME NEW t \in Nat, NEW s \in Nat, t < s, NEW L, Drafted(L, t),
           NEW N, N = PopulateChecklistIDs(L, s)
    PROVE  /\ Written(N, s)
           /\ DOMAIN N = DOMAIN L
           /\ \A c \in DOMAIN L :
                /\ N[c].title = L[c].title /\ N[c].updateAt = L[c].updateAt
                /\ L[c].id # NoID => N[c].id = L[c].id
                /\ L[c].id = NoID => N[c].id[1] = s
                /\ IDs(L[c].items) \ {NoID} \subseteq IDs(N[c].items)
<1>1. /\ L \in Seq(Draft) /\ Unique(L) /\ DOMAIN L = 1 .. Len(L) /\ Len(L) \in Nat
      /\ \A c \in 1 .. Len(L) : L[c] \in Draft /\ L[c] \in ToSet(L) /\ Sound(L[c], t)
      /\ \A x, y \in ToSet(L) : x.id # y.id => IDs(x.items) \cap IDs(y.items) \subseteq {NoID}
  <2>1. /\ L \in Seq(Draft) /\ Unique(L) /\ \A x \in ToSet(L) : Sound(x, t)
        /\ \A x, y \in ToSet(L) : x.id # y.id => IDs(x.items) \cap IDs(y.items) \subseteq {NoID}
    BY DEF Drafted
  <2>2. DOMAIN L = 1 .. Len(L) /\ Len(L) \in Nat /\ \A c \in 1 .. Len(L) : L[c] \in Draft
    BY <2>1
  <2>3. \A c \in 1 .. Len(L) : L[c] \in ToSet(L)
    BY <2>2 DEF ToSet
  <2> QED BY <2>1, <2>2, <2>3
<1>2. N = [c \in 1 .. Len(L) |-> ListNamed(L[c], s, c)]
  <2>1. \A c \in 1 .. Len(L) :
          [L[c] EXCEPT
               !.id    = IF @ = NoID THEN NewId(s, c, 0) ELSE @,
               !.items = [i \in DOMAIN @ |->
                             IF @[i].id = NoID
                             THEN [@[i] EXCEPT !.id = NewId(s, c, i)]
                             ELSE @[i]]] = ListNamed(L[c], s, c)
    BY <1>1, ListGetsId
  <2> QED BY <1>1, <2>1 DEF PopulateChecklistIDs
<1>3. DOMAIN N = 1 .. Len(L) /\ \A c \in 1 .. Len(L) : c \in Nat /\ N[c] = ListNamed(L[c], s, c)
  BY <1>2
<1>4. ASSUME NEW c \in 1 .. Len(L)
      PROVE  /\ N[c] \in Draft /\ Sound(N[c], s)
             /\ N[c].id # NoID /\ NoID \notin IDs(N[c].items)
             /\ N[c].title = L[c].title /\ N[c].updateAt = L[c].updateAt
             /\ N[c].id = (IF L[c].id = NoID THEN NewId(s, c, 0) ELSE L[c].id)
             /\ IDs(L[c].items) \ {NoID} \subseteq IDs(N[c].items)
             /\ \A id \in IDs(N[c].items) :
                  \/ id \in IDs(L[c].items) /\ id # NoID
                  \/ \E i \in Nat : id = NewId(s, c, i)
  <2>1. PICK x : x = L[c]
    OBVIOUS
  <2>2. PICK y : y = ListNamed(x, s, c)
    OBVIOUS
  <2>3. x \in Draft /\ Sound(x, t) /\ c \in Nat /\ N[c] = y
    BY <1>1, <1>3, <2>1, <2>2
  <2>4. GotIds(x, y, s, c)
    BY <2>2, <2>3, ListIsNamed
  <2> QED BY <2>1, <2>3, <2>4 DEF GotIds
<1>5. N \in Seq(Draft)
  <2>1. N = [c \in 1 .. Len(L) |-> N[c]]
    BY <1>2
  <2> QED BY <1>1, <1>4, <2>1, IsASeq
<1>6. ASSUME NEW c \in 1 .. Len(L), NEW d \in 1 .. Len(L), N[c].id = N[d].id
      PROVE  c = d
  <2>1. /\ NewId(s, c, 0)[1] = s /\ NewId(s, d, 0)[1] = s
        /\ NewId(s, c, 0) = NewId(s, d, 0) => c = d
    BY <1>3, IdIs
  <2>2. L[c].id[1] <= t /\ L[d].id[1] <= t /\ L[c].id[1] # s /\ L[d].id[1] # s
    <3>1. \A x \in Draft : Sound(x, t) => x.id[1] \in Nat /\ x.id[1] <= t
      BY IdIs DEF Sound, Draft
    <3> QED BY <1>1, <3>1
  <2>3. /\ N[c].id = (IF L[c].id = NoID THEN NewId(s, c, 0) ELSE L[c].id)
        /\ N[d].id = (IF L[d].id = NoID THEN NewId(s, d, 0) ELSE L[d].id)
    BY <1>4
  <2>4. CASE L[c].id = NoID /\ L[d].id = NoID
    BY <1>6, <2>1, <2>3, <2>4
  <2>5. CASE L[c].id = NoID /\ L[d].id # NoID
    BY <1>6, <2>1, <2>2, <2>3, <2>5
  <2>6. CASE L[c].id # NoID /\ L[d].id = NoID
    BY <1>6, <2>1, <2>2, <2>3, <2>6
  <2>7. CASE L[c].id # NoID /\ L[d].id # NoID
    BY <1>1, <1>6, <2>3, <2>7 DEF Unique
  <2> QED BY <2>4, <2>5, <2>6, <2>7
<1>7. Unique(N)
  BY <1>3, <1>6 DEF Unique
<1>8. \A x \in ToSet(N) : Sound(x, s) /\ NoID \notin IDs(x.items) /\ x.id # NoID
  BY <1>3, <1>4 DEF ToSet
<1>9. ASSUME NEW c \in 1 .. Len(L), NEW d \in 1 .. Len(L), c # d, NEW id,
             id \in IDs(N[c].items), id \in IDs(N[d].items)
      PROVE  FALSE
  <2>1. /\ (id \in IDs(L[c].items) /\ id # NoID) \/ \E i \in Nat : id = NewId(s, c, i)
        /\ (id \in IDs(L[d].items) /\ id # NoID) \/ \E i \in Nat : id = NewId(s, d, i)
    BY <1>4, <1>9
  <2>2. /\ id \in IDs(L[c].items) => id[1] <= t
        /\ id \in IDs(L[d].items) => id[1] <= t
    BY <1>1 DEF Sound
  <2>3. \A i \in Nat : NewId(s, c, i)[1] = s /\ NewId(s, d, i)[1] = s
    BY <1>3, IdIs
  <2>4. CASE id[1] = s
    <3>1. PICK i \in Nat, j \in Nat : NewId(s, c, i) = NewId(s, d, j)
      BY <2>1, <2>2, <2>4
    <3> QED BY <1>3, <1>9, <3>1, IdIs
  <2>5. CASE id[1] # s
    <3>1. id \in IDs(L[c].items) /\ id \in IDs(L[d].items) /\ id # NoID
      BY <2>1, <2>3, <2>5
    <3>2. L[c].id = L[d].id
      <4>1. L[c] \in ToSet(L) /\ L[d] \in ToSet(L)
        BY <1>1
      <4>2. L[c].id # L[d].id => IDs(L[c].items) \cap IDs(L[d].items) \subseteq {NoID}
        BY <1>1, <4>1
      <4> QED BY <3>1, <4>2
    <3>3. L[c].id = NoID
      BY <1>1, <1>9, <3>2 DEF Unique
    <3> QED BY <1>1, <3>1, <3>3 DEF Sound
  <2> QED BY <2>4, <2>5
<1>10. \A x, y \in ToSet(N) : x.id # y.id => IDs(x.items) \cap IDs(y.items) \subseteq {NoID}
  <2> SUFFICES ASSUME NEW x \in ToSet(N), NEW y \in ToSet(N), x.id # y.id,
                      NEW id, id \in IDs(x.items), id \in IDs(y.items)
               PROVE  FALSE
    OBVIOUS
  <2>1. PICK c \in 1 .. Len(L) : x = N[c]
    BY <1>3 DEF ToSet
  <2>2. PICK d \in 1 .. Len(L) : y = N[d]
    BY <1>3 DEF ToSet
  <2> QED BY <1>9, <2>1, <2>2
<1>11. NoID \notin IDs(N)
  BY <1>3, <1>4 DEF IDs
<1>12. Written(N, s)
  BY <1>5, <1>7, <1>8, <1>10, <1>11 DEF Written, Drafted
<1>13. \A c \in 1 .. Len(L) : L[c].id = NoID => N[c].id[1] = s
  BY <1>3, <1>4, IdIs
<1> QED BY <1>1, <1>3, <1>4, <1>12, <1>13

-----------------------------------------------------------------------------
(* What a request does to the copy it reads.  Of the checklists of a row L *)
(* it makes others, N, at time s: no identifier comes twice, and one that  *)
(* lost an item has been stamped.                                          *)

Edited(L, N, s) ==
    /\ Drafted(N, s)
    /\ \A x \in ToSet(N), y \in ToSet(L) :
         x.id = y.id => IDs(y.items) \subseteq IDs(x.items) \/ x.updateAt = s

(* x is what the request makes of the checklist y, or a new one.           *)
EditOf(y, x, s) ==
    /\ x.id = y.id
    /\ IDs(x.items) \subseteq IDs(y.items) \cup {NoID}
    /\ IDs(y.items) \subseteq IDs(x.items) \/ x.updateAt = s

Comes(x, L, s) ==
    /\ x \in Draft /\ Unique(x.items) /\ x.updateAt <= s
    /\ \/ x.id = NoID /\ IDs(x.items) \subseteq {NoID}
       \/ \E y \in ToSet(L) : EditOf(y, x, s)

LEMMA RowIs ==
    ASSUME NEW t \in Nat, NEW L, Written(L, t)
    PROVE  /\ L \in Seq(Draft) /\ Unique(L) /\ Distinct(L) /\ DOMAIN L = 1 .. Len(L) /\ Len(L) \in Nat
           /\ \A c \in DOMAIN L : L[c] \in Draft /\ L[c] \in ToSet(L)
           /\ \A y \in ToSet(L) :
                /\ y \in Draft /\ y.items \in Seq(Item) /\ y.items \in Items /\ Sound(y, t)
                /\ y.id # NoID /\ NoID \notin IDs(y.items)
                /\ y.id[1] <= t /\ y.id[1] \in Nat /\ y.updateAt <= t /\ y.updateAt \in Nat
                /\ \A id \in IDs(y.items) : id[1] <= t /\ id[1] \in Nat
           /\ \A x, y \in ToSet(L) : x.id # y.id => IDs(x.items) \cap IDs(y.items) = {}
<1>1. /\ L \in Seq(Draft) /\ Unique(L) /\ NoID \notin IDs(L)
      /\ \A x \in ToSet(L) : Sound(x, t) /\ NoID \notin IDs(x.items)
      /\ \A x, y \in ToSet(L) : x.id # y.id => IDs(x.items) \cap IDs(y.items) \subseteq {NoID}
  BY DEF Written, Drafted
<1>2. DOMAIN L = 1 .. Len(L) /\ Len(L) \in Nat /\ \A c \in DOMAIN L : L[c] \in Draft
  BY <1>1
<1>3. \A c \in DOMAIN L : L[c] \in ToSet(L)
  BY DEF ToSet
<1>4. ASSUME NEW y \in ToSet(L)
      PROVE  /\ y \in Draft /\ y.items \in Seq(Item) /\ y.items \in Items /\ Sound(y, t)
             /\ y.id # NoID /\ NoID \notin IDs(y.items)
             /\ y.id[1] <= t /\ y.id[1] \in Nat /\ y.updateAt <= t /\ y.updateAt \in Nat
             /\ \A id \in IDs(y.items) : id[1] <= t /\ id[1] \in Nat
  <2>1. y \in Draft /\ y.items \in Items /\ Sound(y, t) /\ NoID \notin IDs(y.items)
    BY <1>1, WrittenIs
  <2>2. y.id \in Id /\ y.updateAt \in Nat /\ y.items \in Seq(Item)
    BY <2>1 DEF Draft
  <2>3. y.id # NoID
    <3>1. y.id \in IDs(L)
      BY <1>1, IDsAre
    <3> QED BY <1>1, <3>1
  <2>4. y.id[1] <= t /\ y.updateAt <= t /\ \A id \in IDs(y.items) : id[1] <= t
    BY <2>1 DEF Sound
  <2> QED BY <2>1, <2>2, <2>3, <2>4, IdIs, ItemIdsAre
<1>5. \A x, y \in ToSet(L) : x.id # y.id => IDs(x.items) \cap IDs(y.items) = {}
  BY <1>1
<1>6. Distinct(L)
  BY <1>1 DEF Unique, Distinct, IDs
<1> QED BY <1>1, <1>2, <1>3, <1>4, <1>5, <1>6

LEMMA EditedFrom ==
    ASSUME NEW t \in Nat, NEW s \in Nat, t < s, NEW L, Written(L, t),
           NEW N \in Seq(Draft), Unique(N), \A x \in ToSet(N) : Comes(x, L, s)
    PROVE  Edited(L, N, s)
<1>1. ASSUME NEW x \in ToSet(N) PROVE Sound(x, s)
  <2>1. Comes(x, L, s)
    OBVIOUS
  <2>2. x \in Draft /\ Unique(x.items) /\ x.updateAt <= s
    BY <2>1 DEF Comes
  <2>3. CASE x.id = NoID /\ IDs(x.items) \subseteq {NoID}
    <3>1. x.id[1] <= s /\ \A id \in IDs(x.items) : id[1] <= s
      BY <2>3, IdIs
    <3> QED BY <2>2, <2>3, <3>1 DEF Sound
  <2>4. CASE \E y \in ToSet(L) : EditOf(y, x, s)
    <3>1. PICK y \in ToSet(L) : x.id = y.id /\ IDs(x.items) \subseteq IDs(y.items) \cup {NoID}
      BY <2>4 DEF EditOf
    <3>2. /\ y.id # NoID /\ y.id[1] <= t /\ y.id[1] \in Nat
          /\ \A id \in IDs(y.items) : id[1] <= t /\ id[1] \in Nat
      BY RowIs
    <3>3. x.id # NoID /\ x.id[1] <= s
      BY <3>1, <3>2
    <3>4. \A id \in IDs(x.items) : id[1] <= s
      <4> TAKE id \in IDs(x.items)
      <4>1. CASE id = NoID
        BY <4>1, IdIs
      <4>2. CASE id \in IDs(y.items)
        BY <3>2, <4>2
      <4> QED BY <3>1, <4>1, <4>2
    <3> QED BY <2>2, <3>3, <3>4 DEF Sound
  <2> QED BY <2>1, <2>3, <2>4 DEF Comes
<1>2. ASSUME NEW x \in ToSet(N), NEW y \in ToSet(N), x.id # y.id,
             NEW id, id \in IDs(x.items), id \in IDs(y.items), id # NoID
      PROVE  FALSE
  <2>1. PICK v \in ToSet(L) : EditOf(v, x, s)
    <3>1. Comes(x, L, s)
      OBVIOUS
    <3> QED BY <1>2, <3>1 DEF Comes
  <2>2. PICK w \in ToSet(L) : EditOf(w, y, s)
    <3>1. Comes(y, L, s)
      OBVIOUS
    <3> QED BY <1>2, <3>1 DEF Comes
  <2>3. x.id = v.id /\ y.id = w.id /\ id \in IDs(v.items) /\ id \in IDs(w.items)
    BY <1>2, <2>1, <2>2 DEF EditOf
  <2>4. v.id # w.id => IDs(v.items) \cap IDs(w.items) = {}
    BY RowIs
  <2> QED BY <1>2, <2>3, <2>4
<1>3. \A x, y \in ToSet(N) : x.id # y.id => IDs(x.items) \cap IDs(y.items) \subseteq {NoID}
  BY <1>2
<1>4. ASSUME NEW x \in ToSet(N), NEW y \in ToSet(L), x.id = y.id
      PROVE  IDs(y.items) \subseteq IDs(x.items) \/ x.updateAt = s
  <2>1. /\ L \in Seq(Draft) /\ Distinct(L) /\ y.id # NoID
    BY RowIs
  <2>2. PICK v \in ToSet(L) : EditOf(v, x, s)
    <3>1. Comes(x, L, s)
      OBVIOUS
    <3> QED BY <1>4, <2>1, <3>1 DEF Comes
  <2>3. v.id = y.id
    BY <1>4, <2>2 DEF EditOf
  <2>4. v = y
    <3>1. y.id \in IDs(L)
      BY <2>1, IDsAre
    <3>2. \A e \in ToSet(L) : e.id = y.id => e = ByID(L, y.id)
      BY <2>1, <3>1, ByIDIs
    <3> QED BY <2>3, <3>2
  <2> QED BY <2>2, <2>4 DEF EditOf
<1> QED BY <1>1, <1>3, <1>4 DEF Edited, Drafted

LEMMA Unedited ==
    ASSUME NEW t \in Nat, NEW s \in Nat, t < s, NEW L, Written(L, t), NEW y \in ToSet(L)
    PROVE  Comes(y, L, s)
<1>1. y \in Draft /\ Sound(y, t) /\ y.updateAt \in Nat /\ y.updateAt <= t
  BY RowIs
<1>2. EditOf(y, y, s)
  BY DEF EditOf
<1> QED BY <1>1, <1>2 DEF Comes, Sound

(* A request that changes one checklist.                                   *)
LEMMA OneEdited ==
    ASSUME NEW t \in Nat, NEW s \in Nat, t < s, NEW L, Written(L, t),
           NEW c \in DOMAIN L, NEW N, N = [d \in DOMAIN L |-> N[d]],
           \A d \in DOMAIN L : d # c => N[d] = L[d],
           N[c] \in Draft, Unique(N[c].items), N[c].updateAt <= s, EditOf(L[c], N[c], s)
    PROVE  Edited(L, N, s)
<1>1. /\ L \in Seq(Draft) /\ Unique(L) /\ DOMAIN L = 1 .. Len(L) /\ Len(L) \in Nat
      /\ \A d \in DOMAIN L : L[d] \in Draft /\ L[d] \in ToSet(L)
  BY RowIs
<1>2. DOMAIN N = DOMAIN L
  OBVIOUS
<1>3. \A d \in DOMAIN L : N[d] \in Draft /\ N[d].id = L[d].id
  BY <1>1 DEF EditOf
<1>4. N \in Seq(Draft)
  BY <1>1, <1>3, IsASeq
<1>5. Unique(N)
  BY <1>1, <1>2, <1>3 DEF Unique
<1>6. \A x \in ToSet(N) : Comes(x, L, s)
  <2> TAKE x \in ToSet(N)
  <2>1. PICK d \in DOMAIN L : x = N[d]
    BY <1>2 DEF ToSet
  <2>2. CASE d = c
    BY <1>1, <2>1, <2>2 DEF Comes
  <2>3. CASE d # c
    BY <1>1, <2>1, <2>3, Unedited
  <2> QED BY <2>2, <2>3
<1> QED BY <1>4, <1>5, <1>6, EditedFrom

-----------------------------------------------------------------------------
(* The requests on one item or one checklist. *)

State == {StateOpen, StateClosed, StateSkipped}

(* Items that keep their places and identifiers.                           *)
LEMMA SameItems ==
    ASSUME NEW s \in Seq(Item), NEW r, r = [k \in DOMAIN s |-> r[k]],
           \A k \in DOMAIN s : r[k] \in Item /\ r[k].id = s[k].id
    PROVE  r \in Seq(Item) /\ IDs(r) = IDs(s) /\ (Unique(s) => Unique(r))
<1>1. DOMAIN s = 1 .. Len(s) /\ Len(s) \in Nat /\ DOMAIN r = DOMAIN s
  OBVIOUS
<1>2. r \in Seq(Item)
  BY <1>1, IsASeq
<1> QED BY <1>1, <1>2 DEF IDs, Unique

LEMMA OneItemSet ==
    ASSUME NEW s \in Seq(Item), NEW i \in DOMAIN s, NEW e \in Item, e.id = s[i].id,
           NEW r, r = [s EXCEPT ![i] = e]
    PROVE  r \in Seq(Item) /\ IDs(r) = IDs(s) /\ (Unique(s) => Unique(r))
<1>1. r = [k \in DOMAIN s |-> r[k]]
  OBVIOUS
<1>2. \A k \in DOMAIN s : s[k] \in Item /\ r[k] = IF k = i THEN e ELSE s[k]
  OBVIOUS
<1>3. \A k \in DOMAIN s : r[k] \in Item /\ r[k].id = s[k].id
  BY <1>2
<1> QED BY <1>1, <1>3, SameItems

(* Setting the items of one checklist and stamping it.                     *)
LEMMA ItemsSet ==
    ASSUME NEW t \in Nat, NEW s \in Nat, t < s, NEW L, Written(L, t),
           NEW c \in DOMAIN L, NEW items \in Seq(Item), Unique(items),
           IDs(items) \subseteq IDs(L[c].items) \cup {NoID},
           NEW N, N = [d \in DOMAIN L |-> N[d]],
           \A d \in DOMAIN L : d # c => N[d] = L[d],
           N[c] = [id |-> L[c].id, title |-> L[c].title, updateAt |-> s, items |-> items]
    PROVE  Edited(L, N, s)
<1>1. L[c] \in Draft
  BY RowIs
<1>2. N[c] \in Draft /\ N[c].items = items /\ N[c].updateAt = s /\ N[c].id = L[c].id
  BY <1>1 DEF Draft
<1>3. EditOf(L[c], N[c], s)
  BY <1>2 DEF EditOf
<1> QED BY <1>2, <1>3, OneEdited

LEMMA StampedWith ==
    ASSUME NEW x \in Draft, NEW items \in Seq(Item), NEW s \in Nat
    PROVE  [[x EXCEPT !.items = items] EXCEPT !.updateAt = s]
             = [id |-> x.id, title |-> x.title, updateAt |-> s, items |-> items]
<1>1. PICK y : y = [[x EXCEPT !.items = items] EXCEPT !.updateAt = s]
  OBVIOUS
<1>2. y = [f \in {"id", "title", "updateAt", "items"} |-> y[f]]
      /\ y.id = x.id /\ y.title = x.title /\ y.updateAt = s /\ y.items = items
  BY <1>1 DEF Draft
<1>3. y = [id |-> x.id, title |-> x.title, updateAt |-> s, items |-> items]
  BY <1>2
<1> QED BY <1>1, <1>3

(* N is L with one item of checklist c replaced by f.                      *)
ItemDone(L, N, c, i, f, s) ==
    /\ c \in DOMAIN L /\ i \in DOMAIN L[c].items
    /\ f \in Item /\ f.id = L[c].items[i].id
    /\ N = [d \in DOMAIN L |-> N[d]]
    /\ \A d \in DOMAIN L : d # c => N[d] = L[d]
    /\ N[c] = [[L[c] EXCEPT !.items = [L[c].items EXCEPT ![i] = f]] EXCEPT !.updateAt = s]

LEMMA OneItemEdited ==
    ASSUME NEW t \in Nat, NEW s \in Nat, t < s, NEW L, Written(L, t), NEW N,
           NEW c, NEW i, NEW f, ItemDone(L, N, c, i, f, s)
    PROVE  Edited(L, N, s)
<1>1. PICK x, items : x = L[c] /\ items = L[c].items
  OBVIOUS
<1>c. c \in DOMAIN L /\ i \in DOMAIN items /\ f \in Item /\ f.id = items[i].id
  BY <1>1 DEF ItemDone
<1>2. x \in Draft /\ items \in Seq(Item) /\ Unique(items)
  BY <1>1, <1>c, RowIs DEF Sound
<1>3. PICK r : r = [items EXCEPT ![i] = f]
  OBVIOUS
<1>4. r \in Seq(Item) /\ IDs(r) = IDs(items) /\ Unique(r)
  <2>1. r = [k \in DOMAIN items |-> r[k]]
    BY <1>3
  <2>2. \A k \in DOMAIN items : items[k] \in Item /\ r[k] = IF k = i THEN f ELSE items[k]
    BY <1>2, <1>3
  <2>3. \A k \in DOMAIN items : r[k] \in Item /\ r[k].id = items[k].id
    BY <2>2, <1>c
  <2> QED BY <1>2, <2>1, <2>3, SameItems
<1>5. N[c] = [[x EXCEPT !.items = r] EXCEPT !.updateAt = s]
  BY <1>1, <1>3 DEF ItemDone
<1>6. N[c] = [id |-> x.id, title |-> x.title, updateAt |-> s, items |-> r]
  BY <1>2, <1>4, <1>5, StampedWith
<1>7. IDs(r) \subseteq IDs(L[c].items) \cup {NoID}
  BY <1>1, <1>4
<1>8. N[c] = [id |-> L[c].id, title |-> L[c].title, updateAt |-> s, items |-> r]
  BY <1>1, <1>6
<1>9. N = [d \in DOMAIN L |-> N[d]] /\ \A d \in DOMAIN L : d # c => N[d] = L[d]
  BY DEF ItemDone
<1> QED BY <1>c, <1>4, <1>7, <1>8, <1>9, ItemsSet

LEMMA CheckEdits ==
    ASSUME NEW t \in Nat, NEW s \in Nat, t < s, NEW L, Written(L, t),
           NEW c \in DOMAIN L, NEW i \in DOMAIN L[c].items, NEW v \in State
    PROVE  /\ Edited(L, ModifyCheckedState(L, c, i, v, s), s)
           /\ Edited(L, SetItemDetail(L, c, i, s), s)
           /\ Edited(L, SkipChecklistItem(L, c, i, s), s)
           /\ Edited(L, RestoreChecklistItem(L, c, i, s), s)
<1>1. /\ L \in Seq(Draft) /\ L[c] \in Draft /\ L[c].items \in Seq(Item) /\ Unique(L[c].items)
  BY RowIs DEF Sound
<1>2. PICK e : e = L[c].items[i] /\ e \in Item
  BY <1>1
<1>4. Edited(L, ModifyCheckedState(L, c, i, v, s), s)
  <2>1. PICK N : N = ModifyCheckedState(L, c, i, v, s)
    OBVIOUS
  <2>2. PICK f : f = [[e EXCEPT !.state = v] EXCEPT !.updateAt = s]
    OBVIOUS
  <2>3. N = [d \in DOMAIN L |-> N[d]] /\ \A d \in DOMAIN L : d # c => N[d] = L[d]
    BY <1>1, <2>1 DEF ModifyCheckedState
  <2>4. N[c] = [[L[c] EXCEPT !.items = [L[c].items EXCEPT ![i] = f]] EXCEPT !.updateAt = s]
    BY <1>1, <1>2, <2>1, <2>2 DEF ModifyCheckedState, Draft, Item
  <2>5. f \in Item /\ f.id = e.id
    BY <1>2, <2>2 DEF Item, State
  <2>6. ItemDone(L, N, c, i, f, s)
    BY <1>2, <2>3, <2>4, <2>5 DEF ItemDone
  <2>7. Edited(L, N, s)
    BY <2>6, OneItemEdited
  <2> QED BY <2>1, <2>7
<1>5. Edited(L, SetItemDetail(L, c, i, s), s)
  <2>1. PICK N : N = SetItemDetail(L, c, i, s)
    OBVIOUS
  <2>2. PICK f : f = [[e EXCEPT !.detail = s] EXCEPT !.updateAt = s]
    OBVIOUS
  <2>3. N = [d \in DOMAIN L |-> N[d]] /\ \A d \in DOMAIN L : d # c => N[d] = L[d]
    BY <1>1, <2>1 DEF SetItemDetail
  <2>4. N[c] = [[L[c] EXCEPT !.items = [L[c].items EXCEPT ![i] = f]] EXCEPT !.updateAt = s]
    BY <1>1, <1>2, <2>1, <2>2 DEF SetItemDetail, Draft, Item
  <2>5. f \in Item /\ f.id = e.id
    BY <1>2, <2>2 DEF Item, State
  <2>6. ItemDone(L, N, c, i, f, s)
    BY <1>2, <2>3, <2>4, <2>5 DEF ItemDone
  <2>7. Edited(L, N, s)
    BY <2>6, OneItemEdited
  <2> QED BY <2>1, <2>7
<1>6. Edited(L, SkipChecklistItem(L, c, i, s), s)
  <2>1. PICK N : N = SkipChecklistItem(L, c, i, s)
    OBVIOUS
  <2>2. PICK f : f = [[[e EXCEPT !.state = StateSkipped] EXCEPT !.detail = s] EXCEPT !.updateAt = s]
    OBVIOUS
  <2>3. N = [d \in DOMAIN L |-> N[d]] /\ \A d \in DOMAIN L : d # c => N[d] = L[d]
    BY <1>1, <2>1 DEF SkipChecklistItem
  <2>4. N[c] = [[L[c] EXCEPT !.items = [L[c].items EXCEPT ![i] = f]] EXCEPT !.updateAt = s]
    <3>1. PICK g, q, M : /\ g = [e EXCEPT !.state = StateSkipped] /\ q = [L[c].items EXCEPT ![i] = g]
                         /\ M = [L EXCEPT ![c].items[i].state = StateSkipped]
      OBVIOUS
    <3>2. g \in Item /\ f = [[g EXCEPT !.detail = s] EXCEPT !.updateAt = s]
      BY <1>2, <2>2, <3>1 DEF Item, State
    <3>3. M[c] = [L[c] EXCEPT !.items = q] /\ c \in DOMAIN M
      BY <1>1, <1>2, <3>1 DEF Draft, Item
    <3>4. q \in Seq(Item) /\ i \in DOMAIN q /\ q[i] = g
      BY <1>1, <3>1, <3>2
    <3>5. M[c] \in Draft /\ M[c].items = q
      BY <1>1, <3>3, <3>4 DEF Draft
    <3>6. N = SetItemDetail(M, c, i, s)
      BY <2>1, <3>1 DEF SkipChecklistItem, SetItemDetail
    <3>7. N[c] = [[M[c] EXCEPT !.items = [q EXCEPT ![i] = f]] EXCEPT !.updateAt = s]
      BY <3>2, <3>3, <3>4, <3>5, <3>6 DEF SetItemDetail, Draft, Item
    <3>8. [q EXCEPT ![i] = f] = [L[c].items EXCEPT ![i] = f]
      BY <1>1, <3>1
    <3>9. [[M[c] EXCEPT !.items = [q EXCEPT ![i] = f]] EXCEPT !.updateAt = s]
            = [[L[c] EXCEPT !.items = [q EXCEPT ![i] = f]] EXCEPT !.updateAt = s]
      BY <1>1, <3>3, <3>4 DEF Draft
    <3> QED BY <3>7, <3>8, <3>9
  <2>5. f \in Item /\ f.id = e.id
    BY <1>2, <2>2 DEF Item, State
  <2>6. ItemDone(L, N, c, i, f, s)
    BY <1>2, <2>3, <2>4, <2>5 DEF ItemDone
  <2>7. Edited(L, N, s)
    BY <2>6, OneItemEdited
  <2> QED BY <2>1, <2>7
<1>7. Edited(L, RestoreChecklistItem(L, c, i, s), s)
  <2>1. PICK N : N = RestoreChecklistItem(L, c, i, s)
    OBVIOUS
  <2>2. PICK f : f = [[e EXCEPT !.state = StateOpen] EXCEPT !.updateAt = s]
    OBVIOUS
  <2>3. N = [d \in DOMAIN L |-> N[d]] /\ \A d \in DOMAIN L : d # c => N[d] = L[d]
    BY <1>1, <2>1 DEF RestoreChecklistItem
  <2>4. N[c] = [[L[c] EXCEPT !.items = [L[c].items EXCEPT ![i] = f]] EXCEPT !.updateAt = s]
    BY <1>1, <1>2, <2>1, <2>2 DEF RestoreChecklistItem, Draft, Item
  <2>5. f \in Item /\ f.id = e.id
    BY <1>2, <2>2 DEF Item, State
  <2>6. ItemDone(L, N, c, i, f, s)
    BY <1>2, <2>3, <2>4, <2>5 DEF ItemDone
  <2>7. Edited(L, N, s)
    BY <2>6, OneItemEdited
  <2> QED BY <2>1, <2>7
<1> QED BY <1>4, <1>5, <1>6, <1>7

-----------------------------------------------------------------------------
(* The requests on one checklist. *)

LEMMA RenameEdits ==
    ASSUME NEW t \in Nat, NEW s \in Nat, t < s, NEW L, Written(L, t), NEW c \in DOMAIN L
    PROVE  Edited(L, RenameChecklist(L, c, s), s)
<1>1. L \in Seq(Draft) /\ L[c] \in Draft /\ Unique(L[c].items)
  BY RowIs DEF Sound
<1>2. PICK N : N = RenameChecklist(L, c, s)
  OBVIOUS
<1>3. N = [d \in DOMAIN L |-> N[d]] /\ \A d \in DOMAIN L : d # c => N[d] = L[d]
  BY <1>1, <1>2 DEF RenameChecklist
<1>4. N[c] = [[L[c] EXCEPT !.title = s] EXCEPT !.updateAt = s]
  BY <1>1, <1>2 DEF RenameChecklist, Draft
<1>5. N[c] \in Draft /\ N[c].items = L[c].items /\ N[c].id = L[c].id /\ N[c].updateAt = s
  <2>1. PICK x \in Draft : x = L[c]
    BY <1>1
  <2>2. N[c] = [[x EXCEPT !.title = s] EXCEPT !.updateAt = s] /\ s # 0
    BY <1>4, <2>1
  <2>3. N[c] \in Draft /\ N[c].items = x.items /\ N[c].id = x.id /\ N[c].updateAt = s
    BY <2>1, <2>2 DEF Draft
  <2> QED BY <2>1, <2>3
<1>6. EditOf(L[c], N[c], s)
  BY <1>5 DEF EditOf
<1>7. Edited(L, N, s)
  BY <1>1, <1>3, <1>5, <1>6, OneEdited
<1> QED BY <1>2, <1>7

(* N is L with other fields of the items of checklist c.                   *)
ItemsChanged(L, N, c) ==
    /\ c \in DOMAIN L
    /\ N = [d \in DOMAIN L |-> N[d]]
    /\ \A d \in DOMAIN L : d # c => N[d] = L[d]
    /\ \E r : /\ N[c] = [L[c] EXCEPT !.items = r]
             /\ r = [k \in DOMAIN L[c].items |-> r[k]]
             /\ \A k \in DOMAIN L[c].items : r[k] \in Item /\ r[k].id = L[c].items[k].id

LEMMA ItemsChangedEdits ==
    ASSUME NEW t \in Nat, NEW s \in Nat, t < s, NEW L, Written(L, t), NEW N, NEW c,
           ItemsChanged(L, N, c)
    PROVE  Edited(L, N, s)
<1>1. PICK x, items : x = L[c] /\ items = L[c].items
  OBVIOUS
<1>2. c \in DOMAIN L /\ N = [d \in DOMAIN L |-> N[d]] /\ \A d \in DOMAIN L : d # c => N[d] = L[d]
  BY DEF ItemsChanged
<1>3. x \in Draft /\ items \in Seq(Item) /\ Unique(items) /\ x.updateAt <= t /\ x.updateAt \in Nat
  BY <1>1, <1>2, RowIs DEF Sound
<1>r. PICK r : /\ N[c] = [L[c] EXCEPT !.items = r]
               /\ r = [k \in DOMAIN L[c].items |-> r[k]]
               /\ \A k \in DOMAIN L[c].items : r[k] \in Item /\ r[k].id = L[c].items[k].id
  BY DEF ItemsChanged
<1>4. /\ N[c] = [L[c] EXCEPT !.items = r]
      /\ r = [k \in DOMAIN items |-> r[k]]
      /\ \A k \in DOMAIN items : r[k] \in Item /\ r[k].id = items[k].id
  BY <1>1, <1>r
<1>5. r \in Seq(Item) /\ IDs(r) = IDs(items) /\ Unique(r)
  BY <1>3, <1>4, SameItems
<1>6. N[c] = [x EXCEPT !.items = r]
  BY <1>1, <1>4
<1>7. N[c] \in Draft /\ N[c].items = r /\ N[c].id = x.id /\ N[c].updateAt = x.updateAt
  BY <1>3, <1>5, <1>6 DEF Draft
<1>8. EditOf(x, N[c], s)
  BY <1>1, <1>5, <1>7 DEF EditOf
<1>9. Unique(N[c].items) /\ N[c].updateAt <= s /\ EditOf(L[c], N[c], s)
  BY <1>1, <1>3, <1>5, <1>7, <1>8
<1> QED BY <1>2, <1>7, <1>9, OneEdited

LEMMA SkipListEdits ==
    ASSUME NEW t \in Nat, NEW s \in Nat, t < s, NEW L, Written(L, t), NEW c \in DOMAIN L
    PROVE  Edited(L, SkipChecklist(L, c, s), s)
<1>1. L \in Seq(Draft) /\ L[c] \in Draft /\ L[c].items \in Seq(Item)
  BY RowIs
<1>2. PICK N : N = SkipChecklist(L, c, s)
  OBVIOUS
<1>3. PICK items : items = L[c].items /\ items \in Seq(Item)
  BY <1>1
<1>4. PICK r : r = [i \in DOMAIN items |-> [items[i] EXCEPT !.state = StateSkipped, !.detail = s, !.updateAt = s]]
  OBVIOUS
<1>5. N[c] = [L[c] EXCEPT !.items = r]
  BY <1>1, <1>2, <1>3, <1>4 DEF SkipChecklist, Draft
<1>6. N = [d \in DOMAIN L |-> N[d]] /\ \A d \in DOMAIN L : d # c => N[d] = L[d]
  BY <1>1, <1>2 DEF SkipChecklist
<1>7. r = [k \in DOMAIN items |-> r[k]] /\ \A k \in DOMAIN items : r[k] \in Item /\ r[k].id = items[k].id
  <2>1. r = [k \in DOMAIN items |-> r[k]]
    BY <1>4
  <2>2. ASSUME NEW k \in DOMAIN items PROVE r[k] \in Item /\ r[k].id = items[k].id
    <3>1. PICK e \in Item : e = items[k]
      BY <1>3
    <3>2. r[k] = [e EXCEPT !.state = StateSkipped, !.detail = s, !.updateAt = s]
      BY <1>4, <3>1
    <3>3. r[k] \in Item /\ r[k].id = e.id
      BY <3>1, <3>2 DEF Item, State, StateSkipped, StateOpen, StateClosed
    <3> QED BY <3>1, <3>3
  <2> QED BY <2>1, <2>2
<1>8. ItemsChanged(L, N, c)
  BY <1>3, <1>5, <1>6, <1>7 DEF ItemsChanged
<1>9. Edited(L, N, s)
  BY <1>8, ItemsChangedEdits
<1> QED BY <1>2, <1>9

LEMMA RestoreListEdits ==
    ASSUME NEW t \in Nat, NEW s \in Nat, t < s, NEW L, Written(L, t), NEW c \in DOMAIN L
    PROVE  Edited(L, RestoreChecklist(L, c, s), s)
<1>1. L \in Seq(Draft) /\ L[c] \in Draft /\ L[c].items \in Seq(Item)
  BY RowIs
<1>2. PICK N : N = RestoreChecklist(L, c, s)
  OBVIOUS
<1>3. PICK items : items = L[c].items /\ items \in Seq(Item)
  BY <1>1
<1>4. PICK r : r = [i \in DOMAIN items |-> [items[i] EXCEPT !.state = StateOpen, !.updateAt = s]]
  OBVIOUS
<1>5. N[c] = [L[c] EXCEPT !.items = r]
  BY <1>1, <1>2, <1>3, <1>4 DEF RestoreChecklist, Draft
<1>6. N = [d \in DOMAIN L |-> N[d]] /\ \A d \in DOMAIN L : d # c => N[d] = L[d]
  BY <1>1, <1>2 DEF RestoreChecklist
<1>7. r = [k \in DOMAIN items |-> r[k]] /\ \A k \in DOMAIN items : r[k] \in Item /\ r[k].id = items[k].id
  <2>1. r = [k \in DOMAIN items |-> r[k]]
    BY <1>4
  <2>2. ASSUME NEW k \in DOMAIN items PROVE r[k] \in Item /\ r[k].id = items[k].id
    <3>1. PICK e \in Item : e = items[k]
      BY <1>3
    <3>2. r[k] = [e EXCEPT !.state = StateOpen, !.updateAt = s]
      BY <1>4, <3>1
    <3>3. r[k] \in Item /\ r[k].id = e.id
      BY <3>1, <3>2 DEF Item, State, StateSkipped, StateOpen, StateClosed
    <3> QED BY <3>1, <3>3
  <2> QED BY <2>1, <2>2
<1>8. ItemsChanged(L, N, c)
  BY <1>3, <1>5, <1>6, <1>7 DEF ItemsChanged
<1>9. Edited(L, N, s)
  BY <1>8, ItemsChangedEdits
<1> QED BY <1>2, <1>9

-----------------------------------------------------------------------------
(* The requests that make an item, take one out or move one. *)

(* N is L with other items in checklist c, which is stamped.               *)
ListDone(L, N, c, items, s) ==
    /\ c \in DOMAIN L
    /\ items \in Seq(Item) /\ Unique(items)
    /\ IDs(items) \subseteq IDs(L[c].items) \cup {NoID}
    /\ N = [d \in DOMAIN L |-> N[d]]
    /\ \A d \in DOMAIN L : d # c => N[d] = L[d]
    /\ N[c] = [[L[c] EXCEPT !.items = items] EXCEPT !.updateAt = s]

LEMMA ListDoneEdits ==
    ASSUME NEW t \in Nat, NEW s \in Nat, t < s, NEW L, Written(L, t), NEW N, NEW c, NEW items,
           ListDone(L, N, c, items, s)
    PROVE  Edited(L, N, s)
<1>1. /\ c \in DOMAIN L
      /\ items \in Seq(Item) /\ Unique(items)
      /\ IDs(items) \subseteq IDs(L[c].items) \cup {NoID}
      /\ N = [d \in DOMAIN L |-> N[d]]
      /\ \A d \in DOMAIN L : d # c => N[d] = L[d]
      /\ N[c] = [[L[c] EXCEPT !.items = items] EXCEPT !.updateAt = s]
  BY DEF ListDone
<1>2. PICK x \in Draft : x = L[c]
  BY <1>1, RowIs
<1>3. N[c] = [[x EXCEPT !.items = items] EXCEPT !.updateAt = s]
  BY <1>1, <1>2
<1>4. N[c] = [id |-> x.id, title |-> x.title, updateAt |-> s, items |-> items]
  <2>1. items \in Seq(Item)
    BY <1>1
  <2>2. [[x EXCEPT !.items = items] EXCEPT !.updateAt = s]
           = [id |-> x.id, title |-> x.title, updateAt |-> s, items |-> items]
    BY <2>1, StampedWith
  <2> QED BY <1>3, <2>2
<1>5. N[c] = [id |-> L[c].id, title |-> L[c].title, updateAt |-> s, items |-> items]
  BY <1>2, <1>4
<1> QED BY <1>1, <1>5, ItemsSet

LEMMA DuplicateItemEdits ==
    ASSUME NEW t \in Nat, NEW s \in Nat, t < s, NEW L, Written(L, t),
           NEW c \in DOMAIN L, NEW i \in DOMAIN L[c].items
    PROVE  LET N == DuplicateChecklistItem(L, c, i, s)
           IN  /\ Edited(L, N, s) /\ DOMAIN N = DOMAIN L
               /\ N[c].id = L[c].id /\ IDs(L[c].items) \subseteq IDs(N[c].items)
<1>1. L \in Seq(Draft) /\ L[c] \in Draft /\ L[c].items \in Seq(Item) /\ Unique(L[c].items)
  BY RowIs DEF Sound
<1>2. PICK N : N = DuplicateChecklistItem(L, c, i, s)
  OBVIOUS
<1>3. PICK items \in Seq(Item) : items = L[c].items
  BY <1>1
<1>4. PICK e \in Item : e = items[i]
  BY <1>3
<1>5. PICK copy : copy = [e EXCEPT !.id = NoID, !.updateAt = s]
  OBVIOUS
<1>6. copy \in Item /\ copy.id = NoID
  BY <1>4, <1>5, IdIs DEF Item
<1>7. PICK r : r = InsertAt(items, i + 1, copy)
  OBVIOUS
<1>8. r \in Seq(Item) /\ Unique(r) /\ IDs(r) = IDs(items) \cup {NoID}
  <2>1. i + 1 \in 1 .. Len(items) + 1
    BY <1>3
  <2> QED BY <1>1, <1>3, <1>6, <1>7, <2>1, PutIn
<1>9. N = [d \in DOMAIN L |-> N[d]] /\ \A d \in DOMAIN L : d # c => N[d] = L[d]
  BY <1>1, <1>2 DEF DuplicateChecklistItem
<1>10. N[c] = [[L[c] EXCEPT !.items = r] EXCEPT !.updateAt = s]
  BY <1>1, <1>2, <1>3, <1>4, <1>5, <1>7 DEF DuplicateChecklistItem, Draft
<1>11. ListDone(L, N, c, r, s)
  BY <1>3, <1>8, <1>9, <1>10 DEF ListDone
<1>12. Edited(L, N, s)
  BY <1>11, ListDoneEdits
<1>13. N[c].id = L[c].id /\ N[c].items = r
  BY <1>1, <1>8, <1>10 DEF Draft
<1>14. DOMAIN N = DOMAIN L /\ IDs(L[c].items) \subseteq IDs(N[c].items)
  BY <1>3, <1>8, <1>9, <1>13
<1> QED BY <1>2, <1>12, <1>13, <1>14

LEMMA AddItemEdits ==
    ASSUME NEW t \in Nat, NEW s \in Nat, t < s, NEW L, Written(L, t), NEW c \in DOMAIN L
    PROVE  Edited(L, AddChecklistItem(L, c, s), s)
<1>1. L \in Seq(Draft) /\ L[c] \in Draft /\ L[c].items \in Seq(Item) /\ Unique(L[c].items)
  BY RowIs DEF Sound
<1>2. PICK N : N = AddChecklistItem(L, c, s)
  OBVIOUS
<1>3. PICK items \in Seq(Item) : items = L[c].items
  BY <1>1
<1>6. NewItem(s) \in Item /\ NewItem(s).id = NoID
  BY IdIs DEF NewItem, Item, StateOpen
<1>7. PICK r : r = Append(items, NewItem(s))
  OBVIOUS
<1>8. r \in Seq(Item) /\ Unique(r) /\ IDs(r) = IDs(items) \cup {NoID}
  BY <1>1, <1>3, <1>6, <1>7, PutLast
<1>9. N = [d \in DOMAIN L |-> N[d]] /\ \A d \in DOMAIN L : d # c => N[d] = L[d]
  BY <1>1, <1>2 DEF AddChecklistItem
<1>10. N[c] = [[L[c] EXCEPT !.items = r] EXCEPT !.updateAt = s]
  BY <1>1, <1>2, <1>3, <1>7 DEF AddChecklistItem, Draft
<1>11. ListDone(L, N, c, r, s)
  BY <1>3, <1>8, <1>9, <1>10 DEF ListDone
<1>12. Edited(L, N, s)
  BY <1>11, ListDoneEdits
<1> QED BY <1>2, <1>12

LEMMA RemoveItemEdits ==
    ASSUME NEW t \in Nat, NEW s \in Nat, t < s, NEW L, Written(L, t),
           NEW c \in DOMAIN L, NEW i \in DOMAIN L[c].items
    PROVE  Edited(L, RemoveChecklistItem(L, c, i, s), s)
<1>1. L \in Seq(Draft) /\ L[c] \in Draft /\ L[c].items \in Seq(Item) /\ Unique(L[c].items)
  BY RowIs DEF Sound
<1>2. PICK N : N = RemoveChecklistItem(L, c, i, s)
  OBVIOUS
<1>3. PICK items \in Seq(Item) : items = L[c].items
  BY <1>1
<1>7. PICK r : r = RemoveAt(items, i)
  OBVIOUS
<1>8. r \in Seq(Item) /\ Unique(r) /\ IDs(r) \subseteq IDs(items)
  <2>1. i \in 1 .. Len(items)
    BY <1>3
  <2>2. r \in Seq(Item) /\ Unique(r) /\ ToSet(r) \subseteq ToSet(items)
    BY <1>1, <1>3, <1>7, <2>1, TakenOut
  <2>3. IDs(r) \subseteq IDs(items)
    BY <2>2, IDsAre
  <2> QED BY <2>2, <2>3
<1>9. N = [d \in DOMAIN L |-> N[d]] /\ \A d \in DOMAIN L : d # c => N[d] = L[d]
  BY <1>1, <1>2 DEF RemoveChecklistItem
<1>10. N[c] = [[L[c] EXCEPT !.items = r] EXCEPT !.updateAt = s]
  BY <1>1, <1>2, <1>3, <1>7 DEF RemoveChecklistItem, Draft
<1>11. ListDone(L, N, c, r, s)
  BY <1>3, <1>8, <1>9, <1>10 DEF ListDone
<1>12. Edited(L, N, s)
  BY <1>11, ListDoneEdits
<1> QED BY <1>2, <1>12

-----------------------------------------------------------------------------
(* Moving an item. *)

LEMMA MovedWithin ==
    ASSUME NEW t \in Nat, NEW s \in Nat, t < s, NEW L, Written(L, t),
           NEW c \in DOMAIN L, NEW i \in DOMAIN L[c].items, NEW toI \in 1 .. Len(L[c].items)
    PROVE  Edited(L, MoveChecklistItem(L, c, i, c, toI, s), s)
<1>1. L \in Seq(Draft) /\ L[c] \in Draft /\ L[c].items \in Seq(Item) /\ Unique(L[c].items)
      /\ NoID \notin IDs(L[c].items)
  BY RowIs DEF Sound
<1>2. PICK N : N = MoveChecklistItem(L, c, i, c, toI, s)
  OBVIOUS
<1>3. PICK items \in Seq(Item) : items = L[c].items
  BY <1>1
<1>4. PICK e \in Item : e = items[i]
  BY <1>3
<1>5. PICK item : item = [e EXCEPT !.updateAt = s]
  OBVIOUS
<1>6. item \in Item /\ item.id = e.id
  BY <1>4, <1>5 DEF Item
<1>7. PICK rest : rest = RemoveAt(items, i)
  OBVIOUS
<1>8. /\ rest \in Seq(Item) /\ Unique(rest) /\ IDs(rest) \subseteq IDs(items)
      /\ e.id \notin IDs(rest) /\ e.id \in IDs(items) /\ Len(rest) = Len(items) - 1
  <2>1. i \in 1 .. Len(items)
    BY <1>3
  <2>2. e.id \in IDs(items) /\ e.id # NoID
    BY <1>1, <1>3, <1>4 DEF IDs
  <2>3. rest \in Seq(Item) /\ Unique(rest) /\ ToSet(rest) \subseteq ToSet(items) /\ e.id \notin IDs(rest)
    BY <1>1, <1>3, <1>4, <1>7, <2>1, <2>2, TakenOut
  <2>4. IDs(rest) \subseteq IDs(items)
    BY <2>3, IDsAre
  <2>5. Len(rest) = Len(items) - 1
    BY <1>7, <2>1, RemoveAtIs
  <2> QED BY <2>2, <2>3, <2>4, <2>5
<1>9. PICK r : r = InsertAt(rest, toI, item)
  OBVIOUS
<1>10. r \in Seq(Item) /\ Unique(r) /\ IDs(r) \subseteq IDs(items)
  <2>1. toI \in 1 .. Len(rest) + 1
    BY <1>3, <1>8
  <2>2. r \in Seq(Item) /\ Unique(r) /\ IDs(r) = IDs(rest) \cup {item.id}
    BY <1>6, <1>8, <1>9, <2>1, PutIn
  <2> QED BY <1>6, <1>8, <2>2
<1>11. N = [d \in DOMAIN L |-> N[d]] /\ \A d \in DOMAIN L : d # c => N[d] = L[d]
  BY <1>1, <1>2 DEF MoveChecklistItem, RemoveChecklistItem
<1>12. N[c] = [[L[c] EXCEPT !.items = r] EXCEPT !.updateAt = s]
  <2>1. PICK M : M = RemoveChecklistItem(L, c, i, s)
    OBVIOUS
  <2>2. PICK x \in Draft : x = L[c]
    BY <1>1
  <2>3. DOMAIN M = DOMAIN L /\ M[c] = [[x EXCEPT !.items = rest] EXCEPT !.updateAt = s]
    BY <1>1, <1>3, <1>7, <2>1, <2>2 DEF RemoveChecklistItem, Draft
  <2>4. N = [M EXCEPT ![c].items = InsertAt(@, toI, item), ![c].updateAt = s]
    BY <1>2, <1>3, <1>4, <1>5, <2>1 DEF MoveChecklistItem
  <2>5. M[c].items = rest /\ c \in DOMAIN M
    BY <2>2, <2>3 DEF Draft
  <2>6. N[c] = [[M[c] EXCEPT !.items = r] EXCEPT !.updateAt = s]
    BY <1>9, <2>3, <2>4, <2>5 DEF Draft
  <2>7. N[c] = [[x EXCEPT !.items = r] EXCEPT !.updateAt = s]
    BY <2>2, <2>3, <2>6 DEF Draft
  <2> QED BY <2>2, <2>7
<1>13. ListDone(L, N, c, r, s)
  BY <1>3, <1>10, <1>11, <1>12 DEF ListDone
<1>14. Edited(L, N, s)
  BY <1>13, ListDoneEdits
<1> QED BY <1>2, <1>14

LEMMA MovedAcross ==
    ASSUME NEW t \in Nat, NEW s \in Nat, t < s, NEW L, Written(L, t),
           NEW c \in DOMAIN L, NEW i \in DOMAIN L[c].items, NEW toC \in DOMAIN L, toC # c,
           NEW toI \in 1 .. Len(L[toC].items) + 1
    PROVE  Edited(L, MoveChecklistItem(L, c, i, toC, toI, s), s)
<1>1. /\ L \in Seq(Draft) /\ Unique(L) /\ Distinct(L)
      /\ \A d \in DOMAIN L : /\ L[d] \in Draft /\ L[d] \in ToSet(L) /\ L[d].items \in Seq(Item)
                             /\ Unique(L[d].items) /\ L[d].id # NoID /\ NoID \notin IDs(L[d].items)
                             /\ L[d].id[1] <= t /\ L[d].id[1] \in Nat
                             /\ L[d].updateAt <= t /\ L[d].updateAt \in Nat
                             /\ \A id \in IDs(L[d].items) : id[1] <= t /\ id[1] \in Nat
      /\ DOMAIN L = 1 .. Len(L) /\ Len(L) \in Nat
  BY RowIs DEF Sound
<1>2. \A d, f \in DOMAIN L : d # f => L[d].id # L[f].id /\ IDs(L[d].items) \cap IDs(L[f].items) = {}
  <2>1. \A d, f \in DOMAIN L : d # f => L[d].id # L[f].id
    BY <1>1 DEF Unique
  <2> QED BY <1>1, <2>1, RowIs
<1>3. PICK N : N = MoveChecklistItem(L, c, i, toC, toI, s)
  OBVIOUS
<1>4. PICK items \in Seq(Item), dest \in Seq(Item) : items = L[c].items /\ dest = L[toC].items
  BY <1>1
<1>5. PICK e \in Item : e = items[i]
  BY <1>4
<1>6. PICK item : item = [e EXCEPT !.updateAt = s]
  OBVIOUS
<1>7. item \in Item /\ item.id = e.id
  BY <1>5, <1>6 DEF Item
<1>8. PICK rest : rest = RemoveAt(items, i)
  OBVIOUS
<1>9. /\ rest \in Seq(Item) /\ Unique(rest) /\ IDs(rest) \subseteq IDs(items)
      /\ e.id \notin IDs(rest) /\ e.id \in IDs(items) /\ e.id # NoID
  <2>1. i \in 1 .. Len(items)
    BY <1>4
  <2>2. e.id \in IDs(items) /\ e.id # NoID
    BY <1>1, <1>4, <1>5 DEF IDs
  <2>3. Unique(items)
    BY <1>1, <1>4
  <2>4. rest \in Seq(Item) /\ Unique(rest) /\ ToSet(rest) \subseteq ToSet(items) /\ e.id \notin IDs(rest)
    BY <1>5, <1>8, <2>1, <2>2, <2>3, TakenOut
  <2>5. IDs(rest) \subseteq IDs(items)
    BY <2>4, IDsAre
  <2> QED BY <2>2, <2>4, <2>5
<1>10. PICK r : r = InsertAt(dest, toI, item)
  OBVIOUS
<1>11. r \in Seq(Item) /\ Unique(r) /\ IDs(r) = IDs(dest) \cup {e.id}
  <2>1. toI \in 1 .. Len(dest) + 1
    BY <1>4
  <2>2. Unique(dest) /\ item.id \notin IDs(dest)
    BY <1>1, <1>2, <1>4, <1>7, <1>9
  <2> QED BY <1>7, <1>10, <2>1, <2>2, PutIn
<1>12. /\ N = [d \in DOMAIN L |-> N[d]]
       /\ \A d \in DOMAIN L : d # c /\ d # toC => N[d] = L[d]
  BY <1>1, <1>3 DEF MoveChecklistItem, RemoveChecklistItem
<1>13. PICK x \in Draft, y \in Draft : x = L[c] /\ y = L[toC]
  BY <1>1
<1>14. /\ N[c] = [[x EXCEPT !.items = rest] EXCEPT !.updateAt = s]
       /\ N[toC] = [[y EXCEPT !.items = r] EXCEPT !.updateAt = s]
  <2>1. PICK M : M = RemoveChecklistItem(L, c, i, s)
    OBVIOUS
  <2>3. /\ DOMAIN M = DOMAIN L /\ M[c] = [[x EXCEPT !.items = rest] EXCEPT !.updateAt = s]
        /\ M[toC] = y
    BY <1>1, <1>4, <1>8, <1>13, <2>1 DEF RemoveChecklistItem, Draft
  <2>4. N = [M EXCEPT ![toC].items = InsertAt(@, toI, item), ![toC].updateAt = s]
    BY <1>3, <1>4, <1>5, <1>6, <2>1 DEF MoveChecklistItem
  <2>5. N[c] = M[c]
    BY <2>3, <2>4
  <2>6. N[toC] = [[y EXCEPT !.items = r] EXCEPT !.updateAt = s]
    BY <1>4, <1>10, <1>13, <2>3, <2>4 DEF Draft
  <2> QED BY <2>3, <2>5, <2>6
<1>15. /\ N[c] \in Draft /\ N[c].id = L[c].id /\ N[c].items = rest /\ N[c].updateAt = s
       /\ N[toC] \in Draft /\ N[toC].id = L[toC].id /\ N[toC].items = r /\ N[toC].updateAt = s
  BY <1>9, <1>11, <1>13, <1>14 DEF Draft
<1>16. \A d \in DOMAIN L : N[d] \in Draft /\ N[d].id = L[d].id /\ Unique(N[d].items)
                            /\ N[d].updateAt <= s
  <2> TAKE d \in DOMAIN L
  <2>1. CASE d = c
    BY <1>9, <1>15, <2>1
  <2>2. CASE d = toC
    BY <1>11, <1>15, <2>2
  <2>3. CASE d # c /\ d # toC
    <3>1. N[d] = L[d]
      BY <1>12, <2>3
    <3>2. L[d] \in Draft /\ Unique(L[d].items) /\ L[d].updateAt <= t /\ L[d].updateAt \in Nat
      BY <1>1
    <3> QED BY <3>1, <3>2
  <2> QED BY <2>1, <2>2, <2>3
<1>17. N \in Seq(Draft) /\ DOMAIN N = DOMAIN L
  BY <1>1, <1>12, <1>16, IsASeq
<1>18. Unique(N)
  BY <1>1, <1>16, <1>17 DEF Unique
<1>19. ASSUME NEW d \in DOMAIN L, NEW f \in DOMAIN L, d # f
       PROVE  IDs(N[d].items) \cap IDs(N[f].items) = {}
  <2>1. IDs(L[d].items) \cap IDs(L[f].items) = {}
    BY <1>2, <1>19
  <2>2. e.id \in IDs(L[c].items)
    BY <1>4, <1>9
  <2>3. CASE d = c /\ f = toC
    BY <1>4, <1>9, <1>11, <1>15, <2>1, <2>3
  <2>4. CASE f = c /\ d = toC
    BY <1>4, <1>9, <1>11, <1>15, <2>1, <2>4
  <2>5. CASE d = c /\ f # toC
    <3>1. N[f] = L[f]
      BY <1>12, <1>19, <2>5
    <3> QED BY <1>4, <1>9, <1>15, <2>1, <2>5, <3>1
  <2>6. CASE f = c /\ d # toC
    <3>1. N[d] = L[d]
      BY <1>12, <1>19, <2>6
    <3> QED BY <1>4, <1>9, <1>15, <2>1, <2>6, <3>1
  <2>7. CASE d = toC /\ f # c
    <3>1. N[f] = L[f]
      BY <1>12, <1>19, <2>7
    <3>2. e.id \notin IDs(L[f].items)
      BY <1>2, <2>2, <2>7
    <3> QED BY <1>4, <1>11, <1>15, <2>1, <2>7, <3>1, <3>2
  <2>8. CASE f = toC /\ d # c
    <3>1. N[d] = L[d]
      BY <1>12, <1>19, <2>8
    <3>2. e.id \notin IDs(L[d].items)
      BY <1>2, <2>2, <2>8
    <3> QED BY <1>4, <1>11, <1>15, <2>1, <2>8, <3>1, <3>2
  <2>9. CASE d # c /\ d # toC /\ f # c /\ f # toC
    BY <1>12, <2>1, <2>9
  <2> QED BY <1>19, <2>3, <2>4, <2>5, <2>6, <2>7, <2>8, <2>9
<1>20. ASSUME NEW d \in DOMAIN L PROVE \A id \in IDs(N[d].items) : id[1] <= s
  <2>1. \A id \in IDs(L[c].items) : id[1] <= s
    BY <1>1
  <2>2. \A id \in IDs(L[toC].items) : id[1] <= s
    BY <1>1
  <2>3. CASE d = c
    BY <1>4, <1>9, <1>15, <2>1, <2>3
  <2>4. CASE d = toC
    BY <1>4, <1>9, <1>11, <1>15, <2>1, <2>2, <2>4
  <2>5. CASE d # c /\ d # toC
    BY <1>1, <1>12, <2>5
  <2> QED BY <2>3, <2>4, <2>5
<1>21. ASSUME NEW d \in DOMAIN L PROVE Sound(N[d], s)
  <2>1. Unique(N[d].items) /\ N[d].updateAt <= s /\ N[d].id = L[d].id
    BY <1>16
  <2>2. L[d].id # NoID /\ L[d].id[1] <= t /\ L[d].id[1] \in Nat
    BY <1>1
  <2>3. N[d].id # NoID /\ N[d].id[1] <= s
    BY <2>1, <2>2
  <2> QED BY <1>20, <2>1, <2>3 DEF Sound
<1>22. ToSet(N) = {N[d] : d \in DOMAIN L} /\ ToSet(L) = {L[d] : d \in DOMAIN L}
  BY <1>17 DEF ToSet
<1>23. Drafted(N, s)
  <2>1. \A v \in ToSet(N) : Sound(v, s)
    BY <1>21, <1>22
  <2>2. ASSUME NEW v \in ToSet(N), NEW w \in ToSet(N), v.id # w.id
        PROVE  IDs(v.items) \cap IDs(w.items) \subseteq {NoID}
    <3>1. PICK d \in DOMAIN L, f \in DOMAIN L : v = N[d] /\ w = N[f]
      BY <1>22
    <3>2. d # f
      BY <2>2, <3>1
    <3> QED BY <1>19, <3>1, <3>2
  <2> QED BY <1>17, <1>18, <2>1, <2>2 DEF Drafted
<1>24. ASSUME NEW v \in ToSet(N), NEW w \in ToSet(L), v.id = w.id
       PROVE  IDs(w.items) \subseteq IDs(v.items) \/ v.updateAt = s
  <2>1. PICK d \in DOMAIN L, f \in DOMAIN L : v = N[d] /\ w = L[f]
    BY <1>22
  <2>2. d = f
    BY <1>2, <1>16, <1>24, <2>1
  <2> QED BY <1>12, <1>15, <2>1, <2>2
<1>25. Edited(L, N, s)
  BY <1>23, <1>24 DEF Edited
<1> QED BY <1>3, <1>25

-----------------------------------------------------------------------------
(* The requests that make a checklist, remove one or move one. *)

LEMMA AddListEdits ==
    ASSUME NEW t \in Nat, NEW s \in Nat, t < s, NEW L, Written(L, t)
    PROVE  Edited(L, AddChecklist(L, s), s)
<1>1. L \in Seq(Draft) /\ Unique(L)
  BY RowIs
<1>2. PICK x : x = NewChecklist(s)
  OBVIOUS
<1>3. x \in Draft /\ x.id = NoID /\ x.items = <<>> /\ x.updateAt = 0
  BY <1>2, IdIs DEF NewChecklist, Draft
<1>4. Unique(x.items) /\ IDs(x.items) = {}
  BY <1>3 DEF Unique, IDs
<1>5. Comes(x, L, s)
  BY <1>3, <1>4 DEF Comes
<1>6. PICK N : N = Append(L, x)
  OBVIOUS
<1>7. N \in Seq(Draft) /\ Unique(N) /\ ToSet(N) = ToSet(L) \cup {x}
  BY <1>1, <1>3, <1>6, PutLast
<1>8. \A y \in ToSet(N) : Comes(y, L, s)
  BY <1>5, <1>7, Unedited
<1>9. Edited(L, N, s)
  BY <1>7, <1>8, EditedFrom
<1> QED BY <1>2, <1>6, <1>9 DEF AddChecklist

LEMMA DuplicateListEdits ==
    ASSUME NEW t \in Nat, NEW s \in Nat, t < s, NEW L, Written(L, t), NEW c \in DOMAIN L
    PROVE  Edited(L, DuplicateChecklist(L, c, s), s)
<1>1. L \in Seq(Draft) /\ Unique(L) /\ L[c] \in Draft /\ L[c].updateAt <= t
  BY RowIs
<1>2. PICK y \in Draft : y = L[c]
  BY <1>1
<1>3. PICK items \in Seq(Item) : items = y.items
  BY DEF Draft
<1>4. PICK r : r = [i \in DOMAIN items |-> [items[i] EXCEPT !.id = NoID, !.updateAt = s]]
  OBVIOUS
<1>5. \A i \in DOMAIN items : r[i] \in Item /\ r[i].id = NoID
  <2> TAKE i \in DOMAIN items
  <2>1. PICK e \in Item : e = items[i]
    BY <1>3
  <2>2. r[i] = [e EXCEPT !.id = NoID, !.updateAt = s]
    BY <1>4, <2>1
  <2> QED BY <2>1, <2>2, IdIs DEF Item
<1>6. r \in Seq(Item) /\ Unique(r) /\ IDs(r) \subseteq {NoID}
  <2>0. r = [k \in DOMAIN items |-> r[k]]
    BY <1>4
  <2>1. DOMAIN items = 1 .. Len(items) /\ Len(items) \in Nat /\ DOMAIN r = DOMAIN items
    BY <1>3, <2>0
  <2>2. r \in Seq(Item)
    BY <1>5, <2>0, <2>1, IsASeq
  <2> QED BY <1>5, <2>1, <2>2 DEF Unique, IDs
<1>7. PICK x : x = [y EXCEPT !.id = NoID, !.items = r]
  OBVIOUS
<1>8. x \in Draft /\ x.id = NoID /\ x.items = r /\ x.updateAt = y.updateAt
  BY <1>6, <1>7, IdIs DEF Draft
<1>9. x.updateAt <= s
  <2>1. y.updateAt <= t /\ y.updateAt \in Nat
    BY <1>1, <1>2 DEF Draft
  <2> QED BY <1>8, <2>1
<1>10. Comes(x, L, s)
  BY <1>6, <1>8, <1>9 DEF Comes
<1>11. PICK N : N = Append(L, x)
  OBVIOUS
<1>12. N \in Seq(Draft) /\ Unique(N) /\ ToSet(N) = ToSet(L) \cup {x}
  BY <1>1, <1>8, <1>11, PutLast
<1>13. \A z \in ToSet(N) : Comes(z, L, s)
  BY <1>10, <1>12, Unedited
<1>14. Edited(L, N, s)
  BY <1>12, <1>13, EditedFrom
<1>15. N = DuplicateChecklist(L, c, s)
  BY <1>2, <1>3, <1>4, <1>7, <1>11 DEF DuplicateChecklist, Draft
<1> QED BY <1>14, <1>15

LEMMA RemoveListEdits ==
    ASSUME NEW t \in Nat, NEW s \in Nat, t < s, NEW L, Written(L, t), NEW c \in DOMAIN L
    PROVE  Edited(L, RemoveChecklist(L, c), s)
<1>1. L \in Seq(Draft) /\ Unique(L) /\ c \in 1 .. Len(L)
  BY RowIs
<1>2. PICK N : N = RemoveAt(L, c)
  OBVIOUS
<1>3. N \in Seq(Draft) /\ Unique(N) /\ ToSet(N) \subseteq ToSet(L)
  BY <1>1, <1>2, TakenOut
<1>4. \A z \in ToSet(N) : Comes(z, L, s)
  BY <1>3, Unedited
<1>5. Edited(L, N, s)
  BY <1>3, <1>4, EditedFrom
<1> QED BY <1>2, <1>5 DEF RemoveChecklist

LEMMA MoveListEdits ==
    ASSUME NEW t \in Nat, NEW s \in Nat, t < s, NEW L, Written(L, t),
           NEW c \in DOMAIN L, NEW toC \in DOMAIN L
    PROVE  Edited(L, MoveChecklist(L, c, toC, s), s)
<1>1. /\ L \in Seq(Draft) /\ Unique(L) /\ c \in 1 .. Len(L) /\ toC \in 1 .. Len(L)
      /\ L[c] \in Draft /\ L[c] \in ToSet(L) /\ L[c].id # NoID /\ Unique(L[c].items)
  BY RowIs DEF Sound
<1>2. PICK y \in Draft : y = L[c]
  BY <1>1
<1>3. PICK x : x = [y EXCEPT !.updateAt = s]
  OBVIOUS
<1>4. x \in Draft /\ x.id = y.id /\ x.items = y.items /\ x.updateAt = s
  BY <1>3 DEF Draft
<1>5. EditOf(y, x, s)
  BY <1>4 DEF EditOf
<1>6. Comes(x, L, s)
  BY <1>1, <1>2, <1>4, <1>5 DEF Comes
<1>7. PICK rest : rest = RemoveAt(L, c)
  OBVIOUS
<1>8. rest \in Seq(Draft) /\ Unique(rest) /\ ToSet(rest) \subseteq ToSet(L) /\ y.id \notin IDs(rest)
  BY <1>1, <1>2, <1>7, TakenOut
<1>9. Len(rest) = Len(L) - 1
  BY <1>1, <1>7, RemoveAtIs
<1>10. PICK N : N = InsertAt(rest, toC, x)
  OBVIOUS
<1>11. N \in Seq(Draft) /\ Unique(N) /\ ToSet(N) = ToSet(rest) \cup {x}
  <2>1. toC \in 1 .. Len(rest) + 1
    BY <1>1, <1>9
  <2> QED BY <1>4, <1>8, <1>10, <2>1, PutIn
<1>12. \A z \in ToSet(N) : Comes(z, L, s)
  BY <1>6, <1>8, <1>11, Unedited
<1>13. Edited(L, N, s)
  BY <1>11, <1>12, EditedFrom
<1> QED BY <1>2, <1>3, <1>7, <1>10, <1>13 DEF MoveChecklist

-----------------------------------------------------------------------------
(* The checklists O a request made N from, at time s, as it compares them  *)
(* with N: one that lost an item has another time.                         *)
Compared(O, N, s) ==
    /\ s # 0 /\ Written(O, s) /\ Drafted(N, s)
    /\ \A x \in ToSet(N), y \in ToSet(O) :
         x.id = y.id => IDs(y.items) \subseteq IDs(x.items) \/ (x.updateAt = s /\ y.updateAt # s)

(* Every request begins with an edit of the checklists of the row, which   *)
(* it compares with those, one of them stamped already perhaps.            *)
Request(h) ==
    \E O, N : \E event \in BOOLEAN, last \in {"publish", "reread"} :
        Compared(O, N, Now) /\ Shown(O) = Shown(Lists) /\ BeginFrom(h, O, N, event, last)

LEMMA EditedIsCompared ==
    ASSUME NEW t \in Nat, NEW s \in Nat, t < s, NEW L, Written(L, t), NEW N, Edited(L, N, s)
    PROVE  Compared(L, N, s)
<1>1. s # 0 /\ Written(L, s) /\ Drafted(N, s)
  BY LaterToo DEF Edited
<1>2. \A y \in ToSet(L) : y.updateAt # s
  <2>1. \A y \in ToSet(L) : y.updateAt <= t /\ y.updateAt \in Nat
    BY RowIs
  <2> QED BY <2>1
<1> QED BY <1>1, <1>2 DEF Compared, Edited

LEMMA EditIsRequest ==
    ASSUME clock \in Nat, Written(row.checklists, clock), NEW h, NEW N, Edited(Lists, N, Now),
           NEW event \in BOOLEAN, NEW last \in {"publish", "reread"}, Begin(h, N, event, last)
    PROVE  Request(h)
<1>1. PICK t, s, L : t = clock /\ s = Now /\ L = Lists
  OBVIOUS
<1>2. t \in Nat /\ s \in Nat /\ t < s /\ Written(L, t) /\ Edited(L, N, s)
  BY <1>1 DEF Now, Lists
<1>3. Compared(Lists, N, Now)
  BY <1>1, <1>2, EditedIsCompared
<1> QED BY <1>3 DEF Request, Begin

(* A checklist with another time.                                          *)
LEMMA StampedIs ==
    ASSUME NEW t \in Nat, NEW s \in Nat, t < s, NEW L, Written(L, t), NEW c \in DOMAIN L,
           NEW O, O = WithTime(L, c, s)
    PROVE  /\ Written(O, s) /\ Shown(O) = Shown(L)
           /\ DOMAIN O = DOMAIN L
           /\ \A d \in DOMAIN L : O[d].id = L[d].id /\ O[d].items = L[d].items
           /\ \A d \in DOMAIN L : d # c => O[d].updateAt \in Nat /\ O[d].updateAt <= t
<1>1. /\ L \in Seq(Draft) /\ Unique(L) /\ DOMAIN L = 1 .. Len(L) /\ Len(L) \in Nat
      /\ \A d \in DOMAIN L : L[d] \in Draft /\ L[d] \in ToSet(L)
      /\ Written(L, s)
  <2>1. Written(L, s)
    BY LaterToo
  <2> QED BY <2>1, RowIs
<1>0. PICK v : v = [L[c] EXCEPT !.updateAt = s]
  OBVIOUS
<1>2. O = [d \in DOMAIN L |-> O[d]] /\ \A d \in DOMAIN L : O[d] = IF d = c THEN v ELSE L[d]
  <2>1. O = [L EXCEPT ![c] = v]
    BY <1>0 DEF WithTime
  <2> QED BY <1>1, <2>1
<1>3. PICK x \in Draft : x = L[c]
  BY <1>1
<1>4. O[c] = [x EXCEPT !.updateAt = s]
  BY <1>0, <1>2, <1>3
<1>5. /\ O[c].id = L[c].id /\ O[c].title = L[c].title /\ O[c].items = L[c].items
      /\ O[c].updateAt = s /\ O[c] \in Draft
  BY <1>3, <1>4 DEF Draft
<1>6. \A d \in DOMAIN L : /\ O[d].id = L[d].id /\ O[d].title = L[d].title /\ O[d].items = L[d].items
                         /\ O[d] \in Draft
  BY <1>1, <1>2, <1>5
<1>7. O \in Seq(Draft) /\ IDs(O) = IDs(L) /\ Unique(O)
  <2>1. DOMAIN O = DOMAIN L
    BY <1>2
  <2>2. O \in Seq(Draft)
    <3>1. O = [d \in 1 .. Len(L) |-> O[d]] /\ \A d \in 1 .. Len(L) : O[d] \in Draft
      BY <1>1, <1>2, <1>6
    <3> QED BY <1>1, <3>1, IsASeq
  <2>3. IDs(O) = IDs(L)
    BY <1>6, <2>1 DEF IDs
  <2>4. Unique(O)
    BY <1>1, <1>6, <2>1 DEF Unique
  <2> QED BY <2>2, <2>3, <2>4
<1>8. Shown(O) = Shown(L)
  BY <1>2, <1>6 DEF Shown, View
<1>9. ASSUME NEW d \in DOMAIN L PROVE Sound(O[d], s)
  <2>1. Sound(L[d], s)
    BY <1>1 DEF Written, Drafted
  <2>2. O[d].updateAt <= s
    BY <1>2, <1>5, <2>1 DEF Sound
  <2> QED BY <1>6, <2>1, <2>2 DEF Sound
<1>10. \A o \in ToSet(O) : \E d \in DOMAIN L : o = O[d]
  BY <1>2 DEF ToSet
<1>11. Written(O, s)
  <2>1. /\ NoID \notin IDs(L) /\ \A d \in DOMAIN L : NoID \notin IDs(L[d].items)
        /\ \A d, e \in DOMAIN L : L[d].id # L[e].id => IDs(L[d].items) \cap IDs(L[e].items) \subseteq {NoID}
    BY <1>1 DEF Written, Drafted
  <2>2. \A o \in ToSet(O) : Sound(o, s) /\ NoID \notin IDs(o.items)
    BY <1>6, <1>9, <1>10, <2>1
  <2>3. ASSUME NEW o \in ToSet(O), NEW q \in ToSet(O), o.id # q.id
        PROVE  IDs(o.items) \cap IDs(q.items) \subseteq {NoID}
    <3>1. PICK d \in DOMAIN L : o = O[d]
      BY <1>10
    <3>2. PICK e \in DOMAIN L : q = O[e]
      BY <1>10
    <3>3. /\ o.id = L[d].id /\ o.items = L[d].items
          /\ q.id = L[e].id /\ q.items = L[e].items
      BY <1>6, <3>1, <3>2
    <3> QED BY <2>1, <2>3, <3>3
  <2> QED BY <1>7, <2>1, <2>2, <2>3 DEF Written, Drafted
<1>12. \A d \in DOMAIN L : d # c => O[d].updateAt \in Nat /\ O[d].updateAt <= t
  BY <1>1, <1>2, RowIs
<1> QED BY <1>2, <1>6, <1>8, <1>11, <1>12

LEMMA DuplicateItemCompared ==
    ASSUME NEW t \in Nat, NEW s \in Nat, t < s, NEW L, Written(L, t),
           NEW c \in DOMAIN L, NEW i \in DOMAIN L[c].items,
           NEW O, O = WithTime(L, c, s)
    PROVE  Compared(O, DuplicateChecklistItem(L, c, i, s), s) /\ Shown(O) = Shown(L)
<1>1. PICK N : N = DuplicateChecklistItem(L, c, i, s)
  OBVIOUS
<1>2. Edited(L, N, s) /\ IDs(L[c].items) \subseteq IDs(N[c].items) /\ DOMAIN N = DOMAIN L
  BY <1>1, DuplicateItemEdits
<1>3. /\ Written(O, s) /\ Shown(O) = Shown(L)
      /\ DOMAIN O = DOMAIN L
      /\ \A d \in DOMAIN L : O[d].id = L[d].id /\ O[d].items = L[d].items
      /\ \A d \in DOMAIN L : d # c => O[d].updateAt \in Nat /\ O[d].updateAt <= t
  BY StampedIs
<1>5. s # 0 /\ \A d \in DOMAIN L : d # c => O[d].updateAt # s
  <2>1. s # 0
    OBVIOUS
  <2>2. ASSUME NEW d \in DOMAIN L, d # c PROVE O[d].updateAt # s
    <3>1. O[d].updateAt \in Nat /\ O[d].updateAt <= t
      BY <1>3, <2>2
    <3> QED BY <3>1
  <2> QED BY <2>1, <2>2
<1>4. ASSUME NEW x \in ToSet(N), NEW y \in ToSet(O), x.id = y.id
      PROVE  IDs(y.items) \subseteq IDs(x.items) \/ (x.updateAt = s /\ y.updateAt # s)
  <2>1. PICK d \in DOMAIN L : y = O[d]
    BY <1>3 DEF ToSet
  <2>2. L[d] \in ToSet(L) /\ L[d].id = x.id /\ L[d].items = y.items
    BY <1>3, <1>4, <2>1 DEF ToSet
  <2>3. IDs(y.items) \subseteq IDs(x.items) \/ x.updateAt = s
    BY <1>2, <2>2 DEF Edited
  <2>4. CASE d # c
    BY <1>5, <2>1, <2>3, <2>4
  <2>5. CASE d = c
    <3>1. N[c] \in ToSet(N) /\ N[c].id = x.id /\ N[c].id # NoID
      <4>1. N[c].id = L[c].id
        BY <1>1, DuplicateItemEdits
      <4>2. L[c].id # NoID
        BY <2>2, <2>5, RowIs
      <4> QED BY <1>2, <2>2, <2>5, <4>1, <4>2 DEF ToSet
    <3>2. N \in Seq(Draft) /\ Unique(N)
      BY <1>2 DEF Edited, Drafted
    <3>3. PICK k \in DOMAIN N : x = N[k]
      BY DEF ToSet
    <3>4. k = c
      BY <1>2, <3>1, <3>2, <3>3 DEF Unique
    <3> QED BY <1>2, <2>2, <2>5, <3>3, <3>4
  <2> QED BY <2>4, <2>5
<1> QED BY <1>1, <1>2, <1>3, <1>4, <1>5 DEF Compared, Edited

LEMMA ItemRequestIs ==
    ASSUME clock \in Nat, Written(row.checklists, clock), NEW h,
           NEW c \in DOMAIN Lists, NEW i \in DOMAIN Lists[c].items, ItemRequest(h, c, i)
    PROVE  Request(h)
<1>1. Now \in Nat /\ clock < Now /\ Written(Lists, clock)
  BY DEF Now, Lists
<1>2. PICK L0, s : L0 = Lists /\ s = Now
  OBVIOUS
<1>3. s \in Nat /\ clock < s /\ Written(L0, clock) /\ c \in DOMAIN L0 /\ i \in DOMAIN L0[c].items
  BY <1>1, <1>2
<1>4. CASE CheckItem(h, c, i)
  <2>1. PICK v \in {StateOpen, StateClosed} : Begin(h, ModifyCheckedState(L0, c, i, v, s), TRUE, "reread")
    BY <1>2, <1>4 DEF CheckItem
  <2>2. v \in State
    BY DEF State
  <2>3. Edited(L0, ModifyCheckedState(L0, c, i, v, s), s)
    BY <1>3, <2>2, CheckEdits
  <2> QED BY <1>2, <2>1, <2>3, EditIsRequest
<1>5. CASE AssignItem(h, c, i)
  <2>1. Begin(h, SetItemDetail(L0, c, i, s), TRUE, "reread")
    BY <1>2, <1>5 DEF AssignItem
  <2>2. StateOpen \in State
    BY DEF State
  <2>3. Edited(L0, SetItemDetail(L0, c, i, s), s)
    BY <1>3, <2>2, CheckEdits
  <2> QED BY <1>2, <2>1, <2>3, EditIsRequest
<1>6. CASE EditItem(h, c, i)
  <2>1. Begin(h, SetItemDetail(L0, c, i, s), FALSE, "publish")
    BY <1>2, <1>6 DEF EditItem
  <2>2. StateOpen \in State
    BY DEF State
  <2>3. Edited(L0, SetItemDetail(L0, c, i, s), s)
    BY <1>3, <2>2, CheckEdits
  <2> QED BY <1>2, <2>1, <2>3, EditIsRequest
<1>7. CASE RecordCommandRun(h, c, i)
  <2>1. Begin(h, SetItemDetail(L0, c, i, s), TRUE, "publish")
    BY <1>2, <1>7 DEF RecordCommandRun
  <2>2. StateOpen \in State
    BY DEF State
  <2>3. Edited(L0, SetItemDetail(L0, c, i, s), s)
    BY <1>3, <2>2, CheckEdits
  <2> QED BY <1>2, <2>1, <2>3, EditIsRequest
<1>8. CASE SkipItem(h, c, i)
  <2>1. Begin(h, SkipChecklistItem(L0, c, i, s), FALSE, "publish")
    BY <1>2, <1>8 DEF SkipItem
  <2>2. StateOpen \in State
    BY DEF State
  <2>3. Edited(L0, SkipChecklistItem(L0, c, i, s), s)
    BY <1>3, <2>2, CheckEdits
  <2> QED BY <1>2, <2>1, <2>3, EditIsRequest
<1>9. CASE RestoreItem(h, c, i)
  <2>1. Begin(h, RestoreChecklistItem(L0, c, i, s), FALSE, "publish")
    BY <1>2, <1>9 DEF RestoreItem
  <2>2. StateOpen \in State
    BY DEF State
  <2>3. Edited(L0, RestoreChecklistItem(L0, c, i, s), s)
    BY <1>3, <2>2, CheckEdits
  <2> QED BY <1>2, <2>1, <2>3, EditIsRequest
<1>10. CASE DuplicateItem(h, c, i)
  <2>1. PICK O : O = WithTime(L0, c, s)
    OBVIOUS
  <2>2. BeginFrom(h, O, DuplicateChecklistItem(L0, c, i, s), FALSE, "publish")
    BY <1>2, <1>10, <2>1 DEF DuplicateItem
  <2>3. Compared(O, DuplicateChecklistItem(L0, c, i, s), s) /\ Shown(O) = Shown(L0)
    BY <1>3, <2>1, DuplicateItemCompared
  <2> QED BY <1>2, <2>2, <2>3 DEF Request
<1>11. CASE RemoveItem(h, c, i)
  <2>1. Begin(h, RemoveChecklistItem(L0, c, i, s), FALSE, "publish")
    BY <1>2, <1>11 DEF RemoveItem
  <2>3. Edited(L0, RemoveChecklistItem(L0, c, i, s), s)
    BY <1>3, RemoveItemEdits
  <2> QED BY <1>2, <2>1, <2>3, EditIsRequest
<1>12. CASE MoveItem(h, c, i)
  <2>0. PICK toC \in DOMAIN L0 : \E toI \in 1 .. Len(L0[toC].items) + 1 :
          /\ ValidDestItem(L0, c, toC, toI)
          /\ Begin(h, MoveChecklistItem(L0, c, i, toC, toI, s), FALSE, "publish")
    BY <1>2, <1>12 DEF MoveItem
  <2>1. PICK toI \in 1 .. Len(L0[toC].items) + 1 :
          /\ ValidDestItem(L0, c, toC, toI)
          /\ Begin(h, MoveChecklistItem(L0, c, i, toC, toI, s), FALSE, "publish")
    BY <2>0
  <2>2. Edited(L0, MoveChecklistItem(L0, c, i, toC, toI, s), s)
    <3>1. CASE toC = c
      <4>1. toI \in 1 .. Len(L0[c].items)
        BY <2>1, <3>1 DEF ValidDestItem
      <4>2. Edited(L0, MoveChecklistItem(L0, c, i, c, toI, s), s)
        BY <1>3, <4>1, MovedWithin
      <4> QED BY <3>1, <4>2
    <3>2. CASE toC # c
      BY <1>3, <3>2, MovedAcross
    <3> QED BY <3>1, <3>2
  <2> QED BY <1>2, <2>1, <2>2, EditIsRequest
<1> QED BY <1>4, <1>5, <1>6, <1>7, <1>8, <1>9, <1>10, <1>11, <1>12 DEF ItemRequest

LEMMA ListRequestIs ==
    ASSUME clock \in Nat, Written(row.checklists, clock), NEW h,
           NEW c \in DOMAIN Lists, ListRequest(h, c)
    PROVE  Request(h)
<1>1. Now \in Nat /\ clock < Now /\ Written(Lists, clock)
  BY DEF Now, Lists
<1>2. PICK L0, s : L0 = Lists /\ s = Now
  OBVIOUS
<1>3. s \in Nat /\ clock < s /\ Written(L0, clock) /\ c \in DOMAIN L0
  BY <1>1, <1>2
<1>4. CASE AddItem(h, c)
  <2>1. Begin(h, AddChecklistItem(L0, c, s), FALSE, "publish")
    BY <1>2, <1>4 DEF AddItem
  <2>2. Edited(L0, AddChecklistItem(L0, c, s), s)
    BY <1>3, AddItemEdits
  <2> QED BY <1>2, <2>1, <2>2, EditIsRequest
<1>5. CASE DuplicateList(h, c)
  <2>1. Begin(h, DuplicateChecklist(L0, c, s), FALSE, "publish")
    BY <1>2, <1>5 DEF DuplicateList
  <2>2. Edited(L0, DuplicateChecklist(L0, c, s), s)
    BY <1>3, DuplicateListEdits
  <2> QED BY <1>2, <2>1, <2>2, EditIsRequest
<1>6. CASE RemoveList(h, c)
  <2>1. Begin(h, RemoveChecklist(L0, c), FALSE, "publish")
    BY <1>2, <1>6 DEF RemoveList
  <2>2. Edited(L0, RemoveChecklist(L0, c), s)
    BY <1>3, RemoveListEdits
  <2> QED BY <1>2, <2>1, <2>2, EditIsRequest
<1>7. CASE RenameList(h, c)
  <2>1. Begin(h, RenameChecklist(L0, c, s), FALSE, "publish")
    BY <1>2, <1>7 DEF RenameList
  <2>2. Edited(L0, RenameChecklist(L0, c, s), s)
    BY <1>3, RenameEdits
  <2> QED BY <1>2, <2>1, <2>2, EditIsRequest
<1>8. CASE SkipList(h, c)
  <2>1. Begin(h, SkipChecklist(L0, c, s), FALSE, "publish")
    BY <1>2, <1>8 DEF SkipList
  <2>2. Edited(L0, SkipChecklist(L0, c, s), s)
    BY <1>3, SkipListEdits
  <2> QED BY <1>2, <2>1, <2>2, EditIsRequest
<1>9. CASE RestoreList(h, c)
  <2>1. Begin(h, RestoreChecklist(L0, c, s), FALSE, "publish")
    BY <1>2, <1>9 DEF RestoreList
  <2>2. Edited(L0, RestoreChecklist(L0, c, s), s)
    BY <1>3, RestoreListEdits
  <2> QED BY <1>2, <2>1, <2>2, EditIsRequest
<1>10. CASE MoveList(h, c)
  <2>1. PICK toC \in DOMAIN L0 : Begin(h, MoveChecklist(L0, c, toC, s), FALSE, "publish")
    BY <1>2, <1>10 DEF MoveList
  <2>2. Edited(L0, MoveChecklist(L0, c, toC, s), s)
    BY <1>3, MoveListEdits
  <2> QED BY <1>2, <2>1, <2>2, EditIsRequest
<1> QED BY <1>4, <1>5, <1>6, <1>7, <1>8, <1>9, <1>10 DEF ListRequest

LEMMA AddListIs ==
    ASSUME clock \in Nat, Written(row.checklists, clock), NEW h, AddList(h)
    PROVE  Request(h)
<1>1. Now \in Nat /\ clock < Now /\ Written(Lists, clock)
  BY DEF Now, Lists
<1>2. Edited(Lists, AddChecklist(Lists, Now), Now)
  BY <1>1, AddListEdits
<1>3. Begin(h, AddChecklist(Lists, Now), FALSE, "publish")
  BY DEF AddList
<1> QED BY <1>2, <1>3, EditIsRequest

-----------------------------------------------------------------------------
(* What the parts of the system hold. *)

PlainRuns == [updateAt : Nat, checklists : Outlines, events : SUBSET Nat]

(* The row at a time, or a copy that has been written.                     *)
Runs(t) ==
    {r \in [updateAt : Nat, checklists : Seq(Draft), events : SUBSET Nat] :
        r.updateAt <= t /\ Written(r.checklists, t)}

Steps == {"write", "record", "reread", "publish"}

Copies == [updateAt : Nat, checklists : Seq(Draft), events : SUBSET Nat]

(* A handler that serves a request.  Before the write its copy is what the *)
(* request made of the original, some time ago.                            *)
Serving(b, t) ==
    /\ b \in [pc : Steps, original : Copies, copy : Copies,
              event : BOOLEAN, last : {"publish", "reread"}]
    /\ b.original \in Runs(t)
    /\ b.pc # "write" => b.copy \in Runs(t)
    /\ b.pc = "write" =>
         /\ b.copy.updateAt = b.original.updateAt
         /\ b.copy.events = b.original.events
         /\ \E s \in Nat : s <= t /\ Compared(b.original.checklists, b.copy.checklists, s)

UpdateMessages ==
    {[full |-> FALSE, update |-> DetectChangedFields(pc[1], pc[2])] : pc \in PlainRuns \X PlainRuns}
RunMessages == {[full |-> TRUE, run |-> ClientRun(c)] : c \in PlainRuns}
Messages == UpdateMessages \cup RunMessages

Answers == {[answered |-> TRUE, run |-> ClientRun(c)] : c \in PlainRuns}

(* A run in the client's store.                                            *)
Held(x) == x.checklists \in Outlines /\ x.updateAt \in Nat

AllServe(f, t) ==
    /\ f = [h \in Handlers |-> f[h]]
    /\ \A h \in Handlers : f[h] = Idle \/ Serving(f[h], t)

SyncInv ==
    /\ clock \in Nat
    /\ row \in Runs(clock)
    /\ AllServe(hdl, clock)
    /\ wire \in Seq(Messages)
    /\ fetches \in Seq({Asked} \cup Answers)
    /\ client # NoRun => Held(client)

-----------------------------------------------------------------------------
LEMMA RunsLast ==
    ASSUME NEW t \in Nat, NEW s \in Nat, t <= s, NEW r \in Runs(t)
    PROVE  r \in Runs(s) /\ r \in PlainRuns /\ r \in Copies /\ Written(r.checklists, s)
<1>1. /\ r \in [updateAt : Nat, checklists : Seq(Draft), events : SUBSET Nat]
      /\ r.updateAt <= t /\ Written(r.checklists, t)
  BY DEF Runs
<1>2. Written(r.checklists, s) /\ r.checklists \in Outlines
  BY <1>1, LaterToo, WrittenIs
<1>3. r.updateAt <= s
  BY <1>1
<1> QED BY <1>1, <1>2, <1>3 DEF Runs, PlainRuns, Copies

LEMMA ServingLasts ==
    ASSUME NEW t \in Nat, NEW s \in Nat, t <= s, NEW b, Serving(b, t)
    PROVE  Serving(b, s)
<1>1. b.original \in Runs(s)
  BY RunsLast DEF Serving
<1>2. b.pc # "write" => b.copy \in Runs(s)
  BY RunsLast DEF Serving
<1>3. b.pc = "write" =>
         \E u \in Nat : u <= s /\ Compared(b.original.checklists, b.copy.checklists, u)
  <2> SUFFICES ASSUME b.pc = "write"
               PROVE  \E u \in Nat : u <= s /\ Compared(b.original.checklists, b.copy.checklists, u)
    OBVIOUS
  <2>1. PICK u \in Nat : u <= t /\ Compared(b.original.checklists, b.copy.checklists, u)
    BY DEF Serving
  <2>2. u <= s
    BY <2>1
  <2> QED BY <2>1, <2>2
<1> QED BY <1>1, <1>2, <1>3 DEF Serving

LEMMA ServingIs ==
    ASSUME NEW t, NEW b, Serving(b, t)
    PROVE  b # Idle /\ b.pc \in Steps /\ b.event \in BOOLEAN /\ b.last \in {"publish", "reread"}
           /\ b.original \in Runs(t)
<1>1. b.pc \in Steps /\ b.event \in BOOLEAN /\ b.last \in {"publish", "reread"} /\ b.original \in Runs(t)
  BY DEF Serving
<1>2. b.pc # "idle"
  BY <1>1 DEF Steps
<1>3. Idle.pc = "idle"
  BY DEF Idle
<1> QED BY <1>1, <1>2, <1>3

(* The handlers after one of them took a step.                             *)
LEMMA HandlersAfter ==
    ASSUME NEW t \in Nat, NEW s \in Nat, t <= s, NEW f, AllServe(f, t), NEW h \in Handlers, NEW b,
           b = Idle \/ Serving(b, s)
    PROVE  AllServe([f EXCEPT ![h] = b], s)
<1>1. f = [k \in Handlers |-> f[k]] /\ \A k \in Handlers : f[k] = Idle \/ Serving(f[k], t)
  BY DEF AllServe
<1>2. PICK new : new = [f EXCEPT ![h] = b]
  OBVIOUS
<1>3. new = [k \in Handlers |-> new[k]] /\ \A k \in Handlers : new[k] = IF k = h THEN b ELSE f[k]
  BY <1>1, <1>2
<1>4. \A k \in Handlers : f[k] = Idle \/ Serving(f[k], s)
  BY <1>1, ServingLasts
<1>5. AllServe(new, s)
  BY <1>3, <1>4 DEF AllServe
<1> QED BY <1>2, <1>5

LEMMA HandlerIs ==
    ASSUME NEW t, NEW f, AllServe(f, t), NEW h \in Handlers
    PROVE  /\ f[h] = Idle \/ Serving(f[h], t)
           /\ \A b : [f EXCEPT ![h] = b][h] = b
           /\ \A b : \A k \in Handlers : k # h => [f EXCEPT ![h] = b][k] = f[k]
<1>1. DOMAIN f = Handlers
  BY DEF AllServe
<1> QED BY <1>1 DEF AllServe

LEMMA InitHolds ==
    ASSUME Init
    PROVE  SyncInv
<1>1. clock = 1 /\ clock \in Nat
  BY DEF Init
<1>2. InitialRun \in Runs(1)
  <2>1. PICK L : L = InitialRun.checklists
    OBVIOUS
  <2>2. Checklists0 \in Seq(Nat) /\ DOMAIN Checklists0 = 1 .. Len(Checklists0) /\ Len(Checklists0) \in Nat
        /\ \A c \in DOMAIN Checklists0 : Checklists0[c] \in Nat /\ c \in Nat
    BY RunSyncAssumption
  <2>3. L = [c \in DOMAIN Checklists0 |->
                        [ id       |-> NewId(1, c, 0),
                          title    |-> 1,
                          updateAt |-> 1,
                          items    |-> [i \in 1 .. Checklists0[c] |->
                                          [NewItem(1) EXCEPT !.id = NewId(1, c, i)]] ]]
    BY <2>1 DEF InitialRun
  <2>4. ASSUME NEW c \in DOMAIN L
        PROVE  /\ L[c] \in Draft /\ Sound(L[c], 1)
               /\ L[c].id = NewId(1, c, 0) /\ L[c].id # NoID /\ c \in Nat
               /\ \A id \in IDs(L[c].items) : \E i \in Nat \ {0} : id = NewId(1, c, i)
    <3>1. c \in DOMAIN Checklists0 /\ c \in Nat /\ Checklists0[c] \in Nat
      BY <2>2, <2>3
    <3>2. PICK n \in Nat : n = Checklists0[c]
      BY <3>1
    <3>3. PICK r : r = [i \in 1 .. n |-> [NewItem(1) EXCEPT !.id = NewId(1, c, i)]]
      OBVIOUS
    <3>4. L[c] = [ id |-> NewId(1, c, 0), title |-> 1, updateAt |-> 1, items |-> r ]
      BY <2>3, <3>1, <3>2, <3>3
    <3>5. \A i \in 1 .. n : r[i] \in Item /\ r[i].id = NewId(1, c, i)
      <4> TAKE i \in 1 .. n
      <4>1. NewItem(1) = [id |-> NoID, state |-> StateOpen, detail |-> 1, updateAt |-> 1]
        BY DEF NewItem
      <4>2. r[i] = [id |-> NewId(1, c, i), state |-> StateOpen, detail |-> 1, updateAt |-> 1]
        BY <3>3, <4>1
      <4>3. NewId(1, c, i) \in Id
        BY <3>1, IdIs
      <4> QED BY <4>2, <4>3 DEF Item, StateOpen
    <3>6. r = [i \in 1 .. n |-> r[i]] /\ DOMAIN r = 1 .. n
      BY <3>3
    <3>7. r \in Seq(Item)
      BY <3>5, <3>6, IsASeq
    <3>8. NewId(1, c, 0) \in Id /\ NewId(1, c, 0)[1] = 1 /\ NewId(1, c, 0) # NoID
      BY <3>1, IdIs
    <3>9. \A i \in 1 .. n : i \in Nat \ {0}
      OBVIOUS
    <3>10. \A id \in IDs(r) : \E i \in Nat \ {0} : id = NewId(1, c, i)
      BY <3>5, <3>6, <3>9 DEF IDs
    <3>11. Unique(r)
      <4>1. \A i, j \in Nat : NewId(1, c, i) = NewId(1, c, j) => i = j
        BY <3>1, IdIs
      <4> QED BY <3>5, <3>6, <3>9, <4>1 DEF Unique
    <3>12. \A id \in IDs(r) : id[1] <= 1
      BY <3>1, <3>10, IdIs
    <3>13. L[c] \in Draft
      BY <3>4, <3>7, <3>8 DEF Draft
    <3> QED BY <3>1, <3>4, <3>8, <3>10, <3>11, <3>12, <3>13 DEF Sound
  <2>5. L = [c \in 1 .. Len(Checklists0) |-> L[c]] /\ DOMAIN L = 1 .. Len(Checklists0)
    BY <2>2, <2>3
  <2>6. L \in Seq(Draft)
    BY <2>2, <2>4, <2>5, IsASeq
  <2>7. \A c, d, i, j \in Nat : NewId(1, c, i) = NewId(1, d, j) => c = d /\ i = j
    BY IdIs
  <2>8. Unique(L)
    BY <2>4, <2>7 DEF Unique
  <2>9. \A x \in ToSet(L) : \E c \in DOMAIN L : x = L[c]
    BY DEF ToSet
  <2>10. \A c, d \in DOMAIN L : L[c].id # L[d].id => IDs(L[c].items) \cap IDs(L[d].items) = {}
    <3> SUFFICES ASSUME NEW c \in DOMAIN L, NEW d \in DOMAIN L, L[c].id # L[d].id,
                        NEW id \in IDs(L[c].items), id \in IDs(L[d].items)
                 PROVE  FALSE
      OBVIOUS
    <3>1. PICK i \in Nat \ {0} : id = NewId(1, c, i)
      BY <2>4
    <3>2. PICK j \in Nat \ {0} : id = NewId(1, d, j)
      BY <2>4
    <3>3. c # d /\ c \in Nat /\ d \in Nat
      BY <2>4
    <3> QED BY <2>7, <3>1, <3>2, <3>3
  <2>11. NoID \notin IDs(L)
    BY <2>4 DEF IDs
  <2>12. \A c \in DOMAIN L : NoID \notin IDs(L[c].items)
    <3> SUFFICES ASSUME NEW c \in DOMAIN L, NoID \in IDs(L[c].items) PROVE FALSE
      OBVIOUS
    <3>1. PICK i \in Nat \ {0} : NoID = NewId(1, c, i) /\ c \in Nat
      BY <2>4
    <3>2. NoID[1] = 0 /\ NewId(1, c, i)[1] = 1
      BY <3>1, IdIs
    <3> QED BY <3>1, <3>2
  <2>13. Written(L, 1)
    <3>1. \A x \in ToSet(L) : Sound(x, 1) /\ NoID \notin IDs(x.items)
      BY <2>4, <2>9, <2>12
    <3>2. \A x, y \in ToSet(L) : x.id # y.id => IDs(x.items) \cap IDs(y.items) \subseteq {NoID}
      BY <2>9, <2>10
    <3> QED BY <2>6, <2>8, <2>11, <3>1, <3>2 DEF Written, Drafted
  <2>14. InitialRun = [updateAt |-> 1, checklists |-> L, events |-> {}]
    BY <2>1 DEF InitialRun
  <2> QED BY <2>6, <2>13, <2>14 DEF Runs
<1>3. InitialRun \in PlainRuns
  BY <1>2, RunsLast
<1>4. client # NoRun => Held(client)
  BY <1>3 DEF Init, Held, ClientRun, PlainRuns
<1>5. hdl = [h \in Handlers |-> hdl[h]] /\ \A h \in Handlers : hdl[h] = Idle
  BY DEF Init
<1>6. wire = <<>> /\ fetches = <<>>
  BY DEF Init
<1>7. row = InitialRun
  BY DEF Init
<1> QED BY <1>1, <1>2, <1>4, <1>5, <1>6, <1>7 DEF SyncInv, AllServe

-----------------------------------------------------------------------------
(* The steps of a handler. *)

LEMMA RequestHolds ==
    ASSUME SyncInv, NEW h \in Handlers, Request(h)
    PROVE  SyncInv'
<1>0. PICK O, N : \E event \in BOOLEAN, last \in {"publish", "reread"} :
        Compared(O, N, Now) /\ BeginFrom(h, O, N, event, last)
  BY DEF Request
<1>1. PICK event \in BOOLEAN, last \in {"publish", "reread"} :
        Compared(O, N, Now) /\ BeginFrom(h, O, N, event, last)
  BY <1>0
<1>2. clock \in Nat /\ clock' = clock + 1 /\ Now = clock + 1 /\ clock' \in Nat
  BY <1>1 DEF SyncInv, BeginFrom, Now
<1>3. row \in Runs(clock) /\ row \in Copies
  BY <1>2, RunsLast DEF SyncInv
<1>4. PICK original, copy : /\ original = [row EXCEPT !.checklists = O]
                            /\ copy = [row EXCEPT !.checklists = N]
  OBVIOUS
<1>5. O \in Seq(Draft) /\ N \in Seq(Draft) /\ Written(O, clock')
  BY <1>1, <1>2 DEF Compared, Written, Drafted
<1>6. /\ copy \in Copies /\ copy.updateAt = row.updateAt /\ copy.events = row.events
      /\ copy.checklists = N
      /\ original \in Copies /\ original.updateAt = row.updateAt /\ original.events = row.events
      /\ original.checklists = O
  BY <1>3, <1>4, <1>5 DEF Copies
<1>7. PICK b : b = [pc |-> "write", original |-> original, copy |-> copy, event |-> event, last |-> last]
  OBVIOUS
<1>8. Serving(b, clock')
  <2>1. b \in [pc : Steps, original : Copies, copy : Copies,
               event : BOOLEAN, last : {"publish", "reread"}]
    BY <1>6, <1>7 DEF Steps
  <2>2. b.original = original /\ b.copy = copy /\ b.pc = "write"
    BY <1>7
  <2>3. original \in Runs(clock')
    <3>1. row.updateAt <= clock /\ row.updateAt \in Nat
      BY <1>3 DEF Runs
    <3>2. original.updateAt <= clock'
      BY <1>2, <1>6, <3>1
    <3> QED BY <1>5, <1>6, <3>2 DEF Runs, Copies
  <2>4. \E s \in Nat : s <= clock' /\ Compared(b.original.checklists, b.copy.checklists, s)
    <3>1. Compared(b.original.checklists, b.copy.checklists, clock') /\ clock' <= clock'
      BY <1>1, <1>2, <1>6, <2>2
    <3> QED BY <1>2, <3>1
  <2> QED BY <1>6, <2>1, <2>2, <2>3, <2>4 DEF Serving
<1>9. hdl' = [hdl EXCEPT ![h] = b]
  BY <1>1, <1>4, <1>7 DEF BeginFrom
<1>10. clock' \in Nat /\ clock <= clock'
  BY <1>2
<1>11. AllServe(hdl', clock')
  <2>1. PICK s : s = clock'
    OBVIOUS
  <2>2. clock \in Nat /\ s \in Nat /\ clock <= s /\ Serving(b, s) /\ AllServe(hdl, clock)
    BY <1>2, <1>8, <1>10, <2>1 DEF SyncInv
  <2>3. AllServe([hdl EXCEPT ![h] = b], s)
    BY <2>2, HandlersAfter
  <2> QED BY <1>9, <2>1, <2>3
<1>12. row' \in Runs(clock')
  BY <1>1, <1>3, <1>10, <1>2, RunsLast DEF BeginFrom
<1>13. UNCHANGED <<wire, fetches, client>>
  BY <1>1 DEF BeginFrom
<1> QED BY <1>10, <1>11, <1>12, <1>13 DEF SyncInv

(* What a write puts in the row and in the copy.                           *)
WrittenCopy(h) ==
    [hdl[h].copy EXCEPT !.updateAt   = Now,
                        !.checklists = PopulateChecklistIDs(@, Now)]

LEMMA WriteIs ==
    ASSUME SyncInv, NEW h \in Handlers, WriteRun(h),
           NEW b, b = hdl[h], NEW w, w = WrittenCopy(h)
    PROVE  /\ clock' = clock + 1 /\ Serving(b, clock) /\ b.pc = "write"
           /\ w \in Runs(clock') /\ w.updateAt = clock' /\ w.events = b.copy.events
           /\ w.checklists = PopulateChecklistIDs(b.copy.checklists, clock')
           /\ row' \in Runs(clock') /\ row'.updateAt = clock' /\ row'.events = row.events
           /\ row'.checklists = w.checklists
           /\ hdl' = [hdl EXCEPT ![h] =
                        [pc |-> IF b.event THEN "record" ELSE b.last, original |-> b.original,
                         copy |-> w, event |-> b.event, last |-> b.last]]
           /\ Drafted(b.copy.checklists, clock)
<1>1. clock \in Nat /\ clock' = clock + 1 /\ Now = clock' /\ clock' \in Nat /\ clock < clock'
  BY DEF SyncInv, WriteRun, Now
<1>2. b # Idle /\ b.pc = "write" /\ Serving(b, clock)
  BY HandlerIs DEF WriteRun, AtStep, SyncInv
<1>3. b.copy \in Copies
  BY <1>2 DEF Serving
<1>4. PICK s \in Nat : s <= clock /\ Compared(b.original.checklists, b.copy.checklists, s)
  BY <1>2 DEF Serving
<1>5. Drafted(b.copy.checklists, clock)
  <2>1. Drafted(b.copy.checklists, s)
    BY <1>4 DEF Compared
  <2> QED BY <1>1, <1>4, <2>1, LaterToo
<1>6. PICK N : N = PopulateChecklistIDs(b.copy.checklists, clock')
  OBVIOUS
<1>7. Written(N, clock')
  BY <1>1, <1>5, <1>6, Populated
<1>8. N \in Seq(Draft)
  BY <1>7 DEF Written, Drafted
<1>9. w = [b.copy EXCEPT !.updateAt = clock', !.checklists = N]
  BY <1>1, <1>3, <1>6 DEF WrittenCopy
<1>10. w \in Copies /\ w.updateAt = clock' /\ w.events = b.copy.events /\ w.checklists = N
  BY <1>1, <1>3, <1>8, <1>9 DEF Copies
<1>11. w \in Runs(clock')
  BY <1>1, <1>7, <1>10 DEF Runs, Copies
<1>12. row' = [w EXCEPT !.events = row.events]
  BY DEF WriteRun, WrittenCopy
<1>13. row \in Copies
  BY <1>1, RunsLast DEF SyncInv
<1>14. row' \in Copies /\ row'.updateAt = clock' /\ row'.events = row.events /\ row'.checklists = N
  BY <1>10, <1>12, <1>13 DEF Copies
<1>15. row' \in Runs(clock')
  BY <1>1, <1>7, <1>14 DEF Runs, Copies
<1>16. hdl' = [hdl EXCEPT ![h] =
                 [pc |-> IF b.event THEN "record" ELSE b.last, original |-> b.original,
                  copy |-> w, event |-> b.event, last |-> b.last]]
  <2>1. hdl' = [hdl EXCEPT ![h].copy = w, ![h].pc = IF b.event THEN "record" ELSE b.last]
    BY DEF WriteRun, WrittenCopy
  <2>2. PICK v : v = IF b.event THEN "record" ELSE b.last
    OBVIOUS
  <2>3. b \in [pc : Steps, original : Copies, copy : Copies,
               event : BOOLEAN, last : {"publish", "reread"}]
    BY <1>2 DEF Serving
  <2>4. [[b EXCEPT !.copy = w] EXCEPT !.pc = v] =
          [pc |-> v, original |-> b.original, copy |-> w, event |-> b.event, last |-> b.last]
    <3>1. PICK m : m = [[b EXCEPT !.copy = w] EXCEPT !.pc = v]
      OBVIOUS
    <3>2. /\ m = [f \in {"pc", "original", "copy", "event", "last"} |-> m[f]]
          /\ m.pc = v /\ m.original = b.original /\ m.copy = w /\ m.event = b.event /\ m.last = b.last
      BY <2>3, <3>1
    <3>3. m = [pc |-> v, original |-> b.original, copy |-> w, event |-> b.event, last |-> b.last]
      BY <3>2
    <3> QED BY <3>1, <3>3
  <2>5. hdl = [k \in Handlers |-> hdl[k]]
    BY DEF SyncInv, AllServe
  <2>6. hdl' = [hdl EXCEPT ![h] = [[b EXCEPT !.copy = w] EXCEPT !.pc = v]]
    BY <2>1, <2>2, <2>5
  <2> QED BY <2>2, <2>4, <2>6
<1> QED BY <1>1, <1>2, <1>5, <1>6, <1>10, <1>11, <1>14, <1>15, <1>16

LEMMA WriteHolds ==
    ASSUME SyncInv, NEW h \in Handlers, WriteRun(h)
    PROVE  SyncInv'
<1>1. PICK b, w : b = hdl[h] /\ w = WrittenCopy(h)
  OBVIOUS
<1>2. PICK v : v = IF b.event THEN "record" ELSE b.last
  OBVIOUS
<1>3. PICK n : n = [pc |-> v, original |-> b.original,
                    copy |-> w, event |-> b.event, last |-> b.last]
  OBVIOUS
<1>4. /\ clock' = clock + 1 /\ Serving(b, clock) /\ w \in Runs(clock') /\ row' \in Runs(clock')
      /\ hdl' = [hdl EXCEPT ![h] = n]
  BY <1>1, <1>2, <1>3, WriteIs
<1>5. clock' \in Nat /\ clock <= clock'
  BY <1>4 DEF SyncInv
<1>6. Serving(n, clock')
  <2>1. v \in {"record", "reread", "publish"} /\ b.event \in BOOLEAN /\ b.last \in {"publish", "reread"}
        /\ b.original \in Copies
    BY <1>2, <1>4 DEF Serving
  <2>2. b.original \in Runs(clock')
    <3>1. b.original \in Runs(clock) /\ clock \in Nat
      BY <1>4 DEF Serving, SyncInv
    <3> QED BY <1>5, <3>1, RunsLast
  <2>3. w \in Copies
    BY <1>4, <1>5, RunsLast
  <2>4. n \in [pc : Steps, original : Copies, copy : Copies,
               event : BOOLEAN, last : {"publish", "reread"}]
    BY <1>3, <2>1, <2>3 DEF Steps
  <2>5. n.pc # "write" /\ n.original = b.original /\ n.copy = w
    BY <1>3, <2>1
  <2> QED BY <1>4, <2>2, <2>4, <2>5 DEF Serving
<1>7. AllServe(hdl', clock')
  <2>1. PICK s : s = clock'
    OBVIOUS
  <2>2. clock \in Nat /\ s \in Nat /\ clock <= s /\ Serving(n, s) /\ AllServe(hdl, clock)
    BY <1>5, <1>6, <2>1 DEF SyncInv
  <2>3. AllServe([hdl EXCEPT ![h] = n], s)
    BY <2>2, HandlersAfter
  <2> QED BY <1>4, <2>1, <2>3
<1>8. UNCHANGED <<wire, fetches, client>>
  BY DEF WriteRun
<1> QED BY <1>4, <1>5, <1>7, <1>8 DEF SyncInv

LEMMA RecordHolds ==
    ASSUME SyncInv, NEW h \in Handlers, RecordEvent(h)
    PROVE  /\ SyncInv'
           /\ Serving(hdl[h], clock) /\ hdl[h].pc = "record"
           /\ row' = [row EXCEPT !.events = @ \cup {hdl[h].copy.updateAt}]
           /\ hdl' = [hdl EXCEPT ![h] = [hdl[h] EXCEPT !.pc = hdl[h].last]]
<1>1. PICK b : b = hdl[h]
  OBVIOUS
<1>2. Serving(b, clock) /\ b.pc = "record" /\ clock \in Nat /\ AllServe(hdl, clock) /\ row \in Runs(clock)
  BY <1>1, HandlerIs DEF RecordEvent, AtStep, SyncInv
<1>3. b \in [pc : Steps, original : Copies, copy : Copies,
             event : BOOLEAN, last : {"publish", "reread"}]
      /\ b.copy \in Runs(clock) /\ b.original \in Runs(clock) /\ b.last \in Steps /\ b.last # "write"
  BY <1>2 DEF Serving, Steps
<1>4. PICK n : n = [b EXCEPT !.pc = b.last]
  OBVIOUS
<1>5. Serving(n, clock)
  <2>1. n \in [pc : Steps, original : Copies, copy : Copies,
               event : BOOLEAN, last : {"publish", "reread"}]
    BY <1>3, <1>4
  <2>2. n.pc # "write" /\ n.original = b.original /\ n.copy = b.copy
    BY <1>3, <1>4
  <2> QED BY <1>3, <2>1, <2>2 DEF Serving
<1>6. hdl' = [hdl EXCEPT ![h] = n]
  <2>1. hdl' = [hdl EXCEPT ![h].pc = b.last]
    BY <1>1 DEF RecordEvent
  <2> QED BY <1>1, <1>4, <2>1
<1>7. AllServe(hdl', clock)
  <2>1. AllServe([hdl EXCEPT ![h] = n], clock)
    BY <1>2, <1>5, HandlersAfter
  <2> QED BY <1>6, <2>1
<1>8. row' = [row EXCEPT !.events = @ \cup {b.copy.updateAt}]
  BY <1>1 DEF RecordEvent
<1>9. row' \in Runs(clock)
  <2>1. row \in Copies /\ row.updateAt <= clock /\ Written(row.checklists, clock)
    BY <1>2 DEF Runs, Copies
  <2>2. b.copy.updateAt \in Nat
    BY <1>3 DEF Copies
  <2>3. row' \in Copies /\ row'.updateAt = row.updateAt /\ row'.checklists = row.checklists
    BY <1>8, <2>1, <2>2 DEF Copies
  <2> QED BY <2>1, <2>3 DEF Runs, Copies
<1>10. UNCHANGED <<clock, wire, fetches, client>>
  BY DEF RecordEvent
<1> QED BY <1>1, <1>2, <1>4, <1>6, <1>7, <1>8, <1>9, <1>10 DEF SyncInv

LEMMA RereadHolds ==
    ASSUME SyncInv, NEW h \in Handlers, RereadRun(h)
    PROVE  /\ SyncInv'
           /\ Serving(hdl[h], clock) /\ hdl[h].pc = "reread"
           /\ hdl' = [hdl EXCEPT ![h] = [[hdl[h] EXCEPT !.copy = row] EXCEPT !.pc = "publish"]]
<1>1. PICK b : b = hdl[h]
  OBVIOUS
<1>2. Serving(b, clock) /\ b.pc = "reread" /\ clock \in Nat /\ AllServe(hdl, clock) /\ row \in Runs(clock)
  BY <1>1, HandlerIs DEF RereadRun, AtStep, SyncInv
<1>3. b \in [pc : Steps, original : Copies, copy : Copies,
             event : BOOLEAN, last : {"publish", "reread"}]
      /\ b.original \in Runs(clock) /\ row \in Copies
  BY <1>2 DEF Serving, Runs, Copies
<1>4. PICK n : n = [[b EXCEPT !.copy = row] EXCEPT !.pc = "publish"]
  OBVIOUS
<1>5. Serving(n, clock)
  <2>1. n \in [pc : Steps, original : Copies, copy : Copies,
               event : BOOLEAN, last : {"publish", "reread"}]
    BY <1>3, <1>4 DEF Steps
  <2>2. n.pc = "publish" /\ n.original = b.original /\ n.copy = row
    BY <1>3, <1>4
  <2> QED BY <1>2, <1>3, <2>1, <2>2 DEF Serving
<1>6. hdl' = [hdl EXCEPT ![h] = n]
  <2>1. hdl' = [hdl EXCEPT ![h].copy = row, ![h].pc = "publish"]
    BY DEF RereadRun
  <2>2. hdl = [k \in Handlers |-> hdl[k]]
    BY <1>2 DEF AllServe
  <2> QED BY <1>1, <1>4, <2>1, <2>2
<1>7. AllServe(hdl', clock)
  <2>1. AllServe([hdl EXCEPT ![h] = n], clock)
    BY <1>2, <1>5, HandlersAfter
  <2> QED BY <1>6, <2>1
<1>8. UNCHANGED <<row, clock, wire, fetches, client>>
  BY DEF RereadRun
<1> QED BY <1>1, <1>2, <1>4, <1>6, <1>7, <1>8 DEF SyncInv

LEMMA PublishHolds ==
    ASSUME SyncInv, NEW h \in Handlers, PublishRun(h)
    PROVE  SyncInv' /\ Serving(hdl[h], clock) /\ hdl[h].pc = "publish"
<1>1. PICK b : b = hdl[h]
  OBVIOUS
<1>2. Serving(b, clock) /\ b.pc = "publish" /\ clock \in Nat /\ AllServe(hdl, clock)
  BY <1>1, HandlerIs DEF PublishRun, AtStep, SyncInv
<1>3. b.original \in PlainRuns /\ b.copy \in PlainRuns
  BY <1>2, RunsLast DEF Serving
<1>4. wire' = wire \/ \E m \in Messages : wire' = Append(wire, m)
  <2>1. PICK m : m = IF incremental THEN [full |-> FALSE, update |-> DetectChangedFields(b.original, b.copy)]
                                    ELSE [full |-> TRUE, run |-> ClientRun(b.copy)]
    OBVIOUS
  <2>2. m \in Messages
    <3>1. PICK p \in PlainRuns, c \in PlainRuns : p = b.original /\ c = b.copy
      BY <1>3
    <3>2. m = [full |-> FALSE, update |-> DetectChangedFields(p, c)] \/ m = [full |-> TRUE, run |-> ClientRun(c)]
      BY <2>1, <3>1
    <3>3. [full |-> FALSE, update |-> DetectChangedFields(p, c)] \in UpdateMessages
      <4>1. PICK m0 : m0 = [full |-> FALSE, update |-> DetectChangedFields(p, c)]
        OBVIOUS
      <4>3. m0 \in UpdateMessages
        <5>1. <<p, c>> \in PlainRuns \X PlainRuns /\ <<p, c>>[1] = p /\ <<p, c>>[2] = c
          OBVIOUS
        <5> QED BY <4>1, <5>1 DEF UpdateMessages
      <4> QED BY <4>1, <4>3
    <3>4. [full |-> TRUE, run |-> ClientRun(c)] \in RunMessages
      BY DEF RunMessages
    <3> QED BY <3>2, <3>3, <3>4 DEF Messages
  <2>3. wire' = wire \/ wire' = Append(wire, m)
    BY <1>1, <2>1 DEF PublishRun
  <2> QED BY <2>2, <2>3
<1>5. wire' \in Seq(Messages)
  BY <1>4 DEF SyncInv
<1>6. AllServe(hdl', clock)
  <2>1. AllServe([hdl EXCEPT ![h] = Idle], clock)
    BY <1>2, HandlersAfter
  <2>2. hdl' = [hdl EXCEPT ![h] = Idle]
    BY DEF PublishRun
  <2> QED BY <2>1, <2>2
<1>7. UNCHANGED <<row, clock, fetches, client>>
  BY DEF PublishRun
<1> QED BY <1>1, <1>2, <1>5, <1>6, <1>7 DEF SyncInv

-----------------------------------------------------------------------------
(* The steps of the client. *)

LEMMA HeadIs ==
    ASSUME SyncInv, wire # <<>>
    PROVE  /\ Head(wire).full => \E c \in PlainRuns : Head(wire).run = ClientRun(c)
           /\ ~Head(wire).full => \E p, c \in PlainRuns : Head(wire).update = DetectChangedFields(p, c)
           /\ Tail(wire) \in Seq(Messages) /\ Head(wire) = wire[1] /\ Len(wire) > 0
           /\ Head(wire).full \in BOOLEAN
<1>1. wire \in Seq(Messages)
  BY DEF SyncInv
<1>2. Head(wire) \in Messages /\ Tail(wire) \in Seq(Messages) /\ Head(wire) = wire[1] /\ Len(wire) > 0
  BY <1>1
<1>3. PICK m : m = Head(wire)
  OBVIOUS
<1>4. CASE \E p, c \in PlainRuns : m = [full |-> FALSE, update |-> DetectChangedFields(p, c)]
  <2>1. PICK p \in PlainRuns, c \in PlainRuns : m = [full |-> FALSE, update |-> DetectChangedFields(p, c)]
    BY <1>4
  <2>2. m.full = FALSE /\ m.update = DetectChangedFields(p, c)
    BY <2>1
  <2> QED BY <1>2, <1>3, <2>2
<1>5. CASE \E c \in PlainRuns : m = [full |-> TRUE, run |-> ClientRun(c)]
  <2>1. PICK c \in PlainRuns : m = [full |-> TRUE, run |-> ClientRun(c)]
    BY <1>5
  <2>2. m.full = TRUE /\ m.run = ClientRun(c)
    BY <2>1
  <2> QED BY <1>2, <1>3, <2>2
<1>6. m \in Messages
  BY <1>2, <1>3
<1> QED BY <1>4, <1>5, <1>6 DEF Messages, UpdateMessages, RunMessages

LEMMA ClientRunIs ==
    ASSUME NEW c \in PlainRuns
    PROVE  /\ Held(ClientRun(c)) /\ ClientRun(c).updateAt = c.updateAt
           /\ ClientRun(c).checklists = c.checklists /\ ClientRun(c).events = c.events
BY DEF ClientRun, PlainRuns, Held

LEMMA UpdateHolds ==
    ASSUME NEW p \in PlainRuns, NEW c \in PlainRuns, NEW x, Held(x)
    PROVE  /\ Held(ApplyIncrementalUpdate(x, DetectChangedFields(p, c)))
           /\ Held(ApplyChangedFields(x, DetectChangedFields(p, c)))
<1>1. p.checklists \in Outlines /\ c.checklists \in Outlines /\ c.updateAt \in Nat
  BY DEF PlainRuns
<1>2. PICK u : u = DetectChangedFields(p, c)
  OBVIOUS
<1>3. PICK U, D : U = GetChecklistUpdates(p.checklists, c.checklists)
                  /\ D = IDs(p.checklists) \ IDs(c.checklists)
  OBVIOUS
<1>4. u.checklists = U /\ u.deletes = D /\ u.updateAt \in Nat
  BY <1>1, <1>2, <1>3 DEF DetectChangedFields
<1>5. AreUpdates(U)
  BY <1>1, <1>3, MessageIs
<1>6. PICK X : X = Without(x.checklists, D)
  OBVIOUS
<1>7. X \in Outlines
  BY <1>6, WithoutIs DEF Outlines, Held
<1>8. PICK Y : Y = ApplyChecklistUpdates(X, U)
  OBVIOUS
<1>9. Y \in Outlines
  BY <1>5, <1>7, <1>8, OutlineAfter
<1>10. PICK y : y = ApplyChangedFields(x, u)
  OBVIOUS
<1>11. y.checklists = Y /\ y.updateAt = u.updateAt
  BY <1>4, <1>6, <1>8, <1>10 DEF ApplyChangedFields
<1>12. Held(y)
  BY <1>4, <1>9, <1>11 DEF Held
<1> QED BY <1>2, <1>10, <1>12 DEF ApplyIncrementalUpdate

LEMMA ReceiveRunHolds ==
    ASSUME SyncInv, ReceiveRun
    PROVE  SyncInv'
<1>1. wire # <<>> /\ Head(wire).full /\ client' = Head(wire).run /\ wire' = Tail(wire)
  BY DEF ReceiveRun
<1>2. Held(client')
  BY <1>1, HeadIs, ClientRunIs
<1>3. wire' \in Seq(Messages)
  BY <1>1, HeadIs
<1>4. UNCHANGED <<row, clock, hdl, fetches>>
  BY DEF ReceiveRun
<1> QED BY <1>2, <1>3, <1>4 DEF SyncInv

LEMMA ReceiveUpdateHolds ==
    ASSUME SyncInv, ReceiveUpdate
    PROVE  SyncInv'
<1>1. /\ wire # <<>> /\ ~Head(wire).full /\ client # NoRun
      /\ client' = ApplyIncrementalUpdate(client, Head(wire).update) /\ wire' = Tail(wire)
  BY DEF ReceiveUpdate
<1>2. PICK p \in PlainRuns, c \in PlainRuns : Head(wire).update = DetectChangedFields(p, c)
  BY <1>1, HeadIs
<1>3. Held(client')
  BY <1>1, <1>2, UpdateHolds DEF SyncInv
<1>4. wire' \in Seq(Messages)
  BY <1>1, HeadIs
<1>5. UNCHANGED <<row, clock, hdl, fetches>>
  BY DEF ReceiveUpdate
<1> QED BY <1>3, <1>4, <1>5 DEF SyncInv

LEMMA AskedOrAnswered ==
    ASSUME SyncInv
    PROVE  /\ fetches \in Seq({Asked} \cup Answers) /\ DOMAIN fetches = 1 .. Len(fetches)
           /\ Asked.answered = FALSE
           /\ \A k \in DOMAIN fetches :
                /\ fetches[k] \in {Asked} \cup Answers
                /\ fetches[k].answered \in BOOLEAN
                /\ ~fetches[k].answered => fetches[k] = Asked
                /\ fetches[k].answered => fetches[k] \in Answers
                /\ fetches[k].answered => \E c \in PlainRuns : fetches[k].run = ClientRun(c)
<1>1. fetches \in Seq({Asked} \cup Answers) /\ DOMAIN fetches = 1 .. Len(fetches)
  BY DEF SyncInv
<1>2. Asked.answered = FALSE
  BY DEF Asked
<1>3. \A a \in Answers : a.answered = TRUE /\ \E c \in PlainRuns : a.run = ClientRun(c)
  <2> TAKE a \in Answers
  <2>1. PICK c \in PlainRuns : a = [answered |-> TRUE, run |-> ClientRun(c)]
    BY DEF Answers
  <2>2. a.answered = TRUE /\ a.run = ClientRun(c)
    BY <2>1
  <2> QED BY <2>2
<1>4. \A k \in DOMAIN fetches : fetches[k] \in {Asked} \cup Answers
  BY <1>1
<1> QED BY <1>1, <1>2, <1>3, <1>4

LEMMA FetchesHold ==
    ASSUME SyncInv,
           \/ FetchMissingRun
           \/ OpenRun
           \/ Reconnect
           \/ \E k \in DOMAIN fetches : AnswerFetch(k) \/ ReceiveAnswer(k) \/ FetchFails(k)
    PROVE  SyncInv'
<1>0. UNCHANGED <<row, clock, hdl>>
  BY DEF FetchMissingRun, OpenRun, Reconnect, AnswerFetch, ReceiveAnswer, FetchFails
<1>1. fetches \in Seq({Asked} \cup Answers) /\ wire \in Seq(Messages)
  BY DEF SyncInv
<1>2. Append(fetches, Asked) \in Seq({Asked} \cup Answers)
  BY <1>1
<1>3. \A k \in DOMAIN fetches : RemoveAt(fetches, k) \in Seq({Asked} \cup Answers)
  BY <1>1, TakenOut
<1>4. CASE FetchMissingRun
  <2>1. wire' = Tail(wire) /\ wire # <<>> /\ fetches' = Append(fetches, Asked) /\ client' = client
    BY <1>4 DEF FetchMissingRun
  <2>2. wire' \in Seq(Messages)
    BY <2>1, HeadIs
  <2> QED BY <1>0, <1>2, <2>1, <2>2 DEF SyncInv
<1>5. CASE OpenRun
  BY <1>0, <1>2, <1>5 DEF SyncInv, OpenRun
<1>6. CASE Reconnect
  <2>1. wire' = <<>> /\ fetches' = Append(fetches, Asked) /\ client' = client
    BY <1>6 DEF Reconnect
  <2> QED BY <1>0, <1>2, <2>1 DEF SyncInv
<1>7. ASSUME NEW k \in DOMAIN fetches, AnswerFetch(k) PROVE SyncInv'
  <2>1. row \in PlainRuns
    BY RunsLast DEF SyncInv
  <2>2. PICK a : a = [answered |-> TRUE, run |-> ClientRun(row)]
    OBVIOUS
  <2>3. a \in Answers
    BY <2>1, <2>2 DEF Answers
  <2>4. fetches' = [fetches EXCEPT ![k] = a] /\ UNCHANGED <<wire, client>>
    BY <1>7, <2>2 DEF AnswerFetch
  <2>5. fetches' \in Seq({Asked} \cup Answers)
    BY <1>1, <2>3, <2>4
  <2> QED BY <1>0, <2>4, <2>5 DEF SyncInv
<1>8. ASSUME NEW k \in DOMAIN fetches, ReceiveAnswer(k) PROVE SyncInv'
  <2>1. fetches[k].answered /\ client' = fetches[k].run /\ fetches' = RemoveAt(fetches, k) /\ wire' = wire
    BY <1>8 DEF ReceiveAnswer
  <2>2. Held(client')
    BY <2>1, AskedOrAnswered, ClientRunIs
  <2> QED BY <1>0, <1>3, <2>1, <2>2 DEF SyncInv
<1>9. ASSUME NEW k \in DOMAIN fetches, FetchFails(k) PROVE SyncInv'
  BY <1>0, <1>3, <1>9 DEF SyncInv, FetchFails
<1> QED BY <1>4, <1>5, <1>6, <1>7, <1>8, <1>9

LEMMA StepHolds ==
    ASSUME SyncInv, [Next]_vars
    PROVE  SyncInv'
<1>1. CASE Next
  <2>1. clock \in Nat /\ Written(row.checklists, clock)
    BY RunsLast DEF SyncInv, Runs
  <2>2. ASSUME NEW h \in Handlers,
               \/ \E c \in DOMAIN Lists :
                    \/ ListRequest(h, c)
                    \/ \E i \in DOMAIN Lists[c].items : ItemRequest(h, c, i)
               \/ AddList(h)
        PROVE  SyncInv'
    <3>1. Request(h)
      BY <2>1, <2>2, ItemRequestIs, ListRequestIs, AddListIs
    <3> QED BY <3>1, RequestHolds
  <2> QED BY <1>1, <2>2, WriteHolds, RecordHolds, RereadHolds, PublishHolds, ReceiveRunHolds,
             ReceiveUpdateHolds, FetchesHold DEF Next, Serve, Follow
<1>2. CASE UNCHANGED vars
  BY <1>2 DEF vars, SyncInv
<1> QED BY <1>1, <1>2

(* The row, the copies, the messages and the client's run are runs whose   *)
(* checklists and items have identifiers of their own, and every update on *)
(* its way is the difference of two of them.                               *)
THEOREM SyncInvHolds == Spec => []SyncInv
<1>1. Init => SyncInv
  BY InitHolds
<1>2. SyncInv /\ [Next]_vars => SyncInv'
  BY StepHolds
<1> QED BY <1>1, <1>2, PTL DEF Spec

(* However many handlers overlap and whatever is lost on the way: the      *)
(* update a client receives next could be delivered twice.                 *)
THEOREM IdempotentHolds == Spec => []Idempotent
<1>1. SyncInv => Idempotent
  <2> SUFFICES ASSUME SyncInv, wire # <<>>, ~Head(wire).full, client # NoRun,
                      NEW u, u = Head(wire).update
               PROVE  ApplyIncrementalUpdate(ApplyIncrementalUpdate(client, u), u)
                        = ApplyIncrementalUpdate(client, u)
    BY DEF Idempotent
  <2>1. PICK p \in PlainRuns, c \in PlainRuns : u = DetectChangedFields(p, c)
    BY HeadIs
  <2>2. Held(client)
    BY DEF SyncInv
  <2>3. PICK x : x = client
    OBVIOUS
  <2>4. /\ p.checklists \in Outlines /\ p.updateAt \in Nat
        /\ c.checklists \in Outlines /\ c.updateAt \in Nat
        /\ x.checklists \in Outlines /\ x.updateAt \in Nat
    BY <2>2, <2>3 DEF PlainRuns, Held
  <2>5. ApplyIncrementalUpdate(ApplyIncrementalUpdate(x, DetectChangedFields(p, c)),
                                  DetectChangedFields(p, c))
             = ApplyIncrementalUpdate(x, DetectChangedFields(p, c))
    BY <2>4, UpdatesAreIdempotent
  <2> QED BY <2>1, <2>3, <2>5
<1> QED BY <1>1, SyncInvHolds, PTL

-----------------------------------------------------------------------------
(* What the client is shown, when requests are served one at a time.       *)

(* The versions of the run the client may still be shown: the first is the *)
(* one before the message it receives next.                                *)
Version == [at : Nat, lists : {Shown(X) : X \in Outlines}, events : SUBSET Nat]

Ordered(vs) ==
    \A i, j \in DOMAIN vs : i < j => vs[i].at < vs[j].at /\ vs[i].events \subseteq vs[j].events

Versions == {vs \in Seq(Version) : Len(vs) > 0 /\ Ordered(vs)}

(* The run x shows version m, without an event that was recorded later     *)
(* perhaps.                                                                *)
ShowsNth(x, vs, m) ==
    /\ Shown(x.checklists) = vs[m].lists
    /\ vs[m].at <= x.updateAt
    /\ \A k \in DOMAIN vs : m < k => x.updateAt < vs[k].at
    /\ \/ x.events = vs[m].events
       \/ /\ m > 1 /\ x.updateAt = vs[m].at
          /\ vs[m - 1].events \subseteq x.events /\ x.events \subseteq vs[m].events

On(x, vs, t) == x.updateAt <= t /\ \E m \in DOMAIN vs : ShowsNth(x, vs, m)

Old(x, vs) == x.updateAt < vs[1].at \/ ~(vs[1].events \subseteq x.events)

Stamped(x) == x.updateAt \in Nat

LEMMA VersionsAre ==
    ASSUME NEW vs \in Versions
    PROVE  /\ vs \in Seq(Version) /\ Len(vs) \in Nat /\ Len(vs) > 0 /\ DOMAIN vs = 1 .. Len(vs)
           /\ \A k \in 1 .. Len(vs) : vs[k] \in Version /\ vs[k].at \in Nat
           /\ \A i, j \in 1 .. Len(vs) :
                i < j => vs[i].at < vs[j].at /\ vs[i].events \subseteq vs[j].events
           /\ \A i, j \in 1 .. Len(vs) :
                i <= j => vs[i].at <= vs[j].at /\ vs[i].events \subseteq vs[j].events
<1>1. vs \in Seq(Version) /\ Len(vs) > 0 /\ Ordered(vs)
  BY DEF Versions
<1>2. Len(vs) \in Nat /\ DOMAIN vs = 1 .. Len(vs) /\ \A k \in 1 .. Len(vs) : vs[k] \in Version
  BY <1>1
<1>3. \A v \in Version : v.at \in Nat
  BY DEF Version
<1>4. \A i, j \in 1 .. Len(vs) :
         i < j => vs[i].at < vs[j].at /\ vs[i].events \subseteq vs[j].events
  BY <1>1, <1>2 DEF Ordered
<1>5. ASSUME NEW i \in 1 .. Len(vs), NEW j \in 1 .. Len(vs), i <= j
      PROVE  vs[i].at <= vs[j].at /\ vs[i].events \subseteq vs[j].events
  <2>1. CASE i < j
    BY <1>2, <1>3, <1>4, <2>1
  <2>2. CASE i = j
    BY <1>2, <1>3, <2>2
  <2> QED BY <1>5, <2>1, <2>2
<1> QED BY <1>1, <1>2, <1>3, <1>4, <1>5

(* What shows a version has at least what the first one has.               *)
LEMMA OnIsNotOld ==
    ASSUME NEW vs \in Versions, NEW t \in Nat, NEW x, Stamped(x), On(x, vs, t)
    PROVE  vs[1].at <= x.updateAt /\ vs[1].events \subseteq x.events
<1>1. PICK m \in 1 .. Len(vs) : ShowsNth(x, vs, m)
  BY VersionsAre DEF On
<1>2. 1 \in 1 .. Len(vs) /\ 1 <= m /\ vs[1].at \in Nat /\ vs[m].at \in Nat /\ x.updateAt \in Nat
  BY <1>1, VersionsAre DEF Stamped
<1>3. vs[1].at <= vs[m].at /\ vs[1].events \subseteq vs[m].events
  BY <1>2, VersionsAre
<1>4. vs[m].at <= x.updateAt
  BY <1>1 DEF ShowsNth
<1>5. vs[1].events \subseteq x.events
  <2>1. CASE x.events = vs[m].events
    BY <1>3, <2>1
  <2>2. CASE m > 1 /\ vs[m - 1].events \subseteq x.events
    <3>1. m - 1 \in 1 .. Len(vs) /\ 1 <= m - 1
      BY <2>2
    <3>2. vs[1].events \subseteq vs[m - 1].events
      BY <1>2, <3>1, VersionsAre
    <3> QED BY <2>2, <3>2
  <2> QED BY <1>1, <2>1, <2>2 DEF ShowsNth
<1> QED BY <1>2, <1>3, <1>4, <1>5

(* The later versions.                                                     *)
IsRest(ws, vs, j) ==
    /\ ws \in Seq(Version) /\ Len(ws) > 0 /\ Len(vs) = Len(ws) + j
    /\ \A k \in 1 .. Len(ws) : ws[k] = vs[k + j]

LEMMA RestIsOrdered ==
    ASSUME NEW vs \in Versions, NEW j \in Nat, NEW ws, IsRest(ws, vs, j)
    PROVE  ws \in Versions
<1>1. ws \in Seq(Version) /\ Len(ws) > 0 /\ Len(vs) = Len(ws) + j /\ Len(ws) \in Nat
      /\ DOMAIN ws = 1 .. Len(ws)
      /\ \A k \in 1 .. Len(ws) : ws[k] = vs[k + j]
  BY DEF IsRest
<1>2. ASSUME NEW i \in 1 .. Len(ws), NEW k \in 1 .. Len(ws), i < k
      PROVE  ws[i].at < ws[k].at /\ ws[i].events \subseteq ws[k].events
  <2>1. i + j \in 1 .. Len(vs) /\ k + j \in 1 .. Len(vs) /\ i + j < k + j
    BY <1>1, <1>2
  <2>2. vs[i + j].at < vs[k + j].at /\ vs[i + j].events \subseteq vs[k + j].events
    BY <2>1, VersionsAre
  <2> QED BY <1>1, <2>2
<1> QED BY <1>1, <1>2 DEF Versions, Ordered

LEMMA OnRest ==
    ASSUME NEW vs \in Versions, NEW j \in Nat, NEW ws, IsRest(ws, vs, j),
           NEW t \in Nat, NEW x, Stamped(x)
    PROVE  /\ On(x, vs, t) => On(x, ws, t) \/ Old(x, ws)
           /\ Old(x, vs) => Old(x, ws)
<1>1. ws \in Seq(Version) /\ Len(ws) > 0 /\ Len(vs) = Len(ws) + j /\ Len(ws) \in Nat
      /\ DOMAIN ws = 1 .. Len(ws)
      /\ \A k \in 1 .. Len(ws) : ws[k] = vs[k + j]
  BY DEF IsRest
<1>2. ws[1] = vs[1 + j] /\ 1 + j \in 1 .. Len(vs) /\ 1 \in 1 .. Len(vs) /\ 1 <= 1 + j
  BY <1>1
<1>3. vs[1].at <= ws[1].at /\ vs[1].events \subseteq ws[1].events /\ vs[1].at \in Nat /\ ws[1].at \in Nat
      /\ x.updateAt \in Nat
  BY <1>2, VersionsAre DEF Stamped
<1>4. ASSUME Old(x, vs) PROVE Old(x, ws)
  <2>1. CASE x.updateAt < vs[1].at
    <3>1. x.updateAt < ws[1].at
      BY <1>3, <2>1
    <3> QED BY <3>1 DEF Old
  <2>2. CASE ~(vs[1].events \subseteq x.events)
    BY <1>3, <2>2 DEF Old
  <2> QED BY <1>4, <2>1, <2>2 DEF Old
<1>5. ASSUME On(x, vs, t) PROVE On(x, ws, t) \/ Old(x, ws)
  <2>1. PICK m \in 1 .. Len(vs) : ShowsNth(x, vs, m)
    BY <1>5, VersionsAre DEF On
  <2>2. /\ Shown(x.checklists) = vs[m].lists /\ vs[m].at <= x.updateAt
        /\ \A k \in 1 .. Len(vs) : m < k => x.updateAt < vs[k].at
        /\ \/ x.events = vs[m].events
           \/ /\ m > 1 /\ x.updateAt = vs[m].at
              /\ vs[m - 1].events \subseteq x.events /\ x.events \subseteq vs[m].events
    BY <2>1, VersionsAre DEF ShowsNth
  <2>3. CASE m <= j
    <3>1. x.updateAt < ws[1].at
      BY <1>2, <2>2, <2>3
    <3> QED BY <3>1 DEF Old
  <2>4. CASE m > j
    <3>1. PICK n \in 1 .. Len(ws) : m = n + j
      <4>1. m - j \in 1 .. Len(ws) /\ m = (m - j) + j
        BY <1>1, <2>4
      <4> QED BY <4>1
    <3>2. ws[n] = vs[m] /\ \A k \in 1 .. Len(ws) : n < k => x.updateAt < ws[k].at
      <4> SUFFICES ASSUME NEW k \in 1 .. Len(ws), n < k PROVE x.updateAt < ws[k].at
        BY <1>1, <3>1
      <4>1. k + j \in 1 .. Len(vs) /\ m < k + j /\ ws[k] = vs[k + j]
        BY <1>1, <3>1
      <4> QED BY <2>2, <4>1
    <3>3. CASE x.events = vs[m].events
      <4>1. ShowsNth(x, ws, n)
        BY <1>1, <2>2, <3>2, <3>3 DEF ShowsNth
      <4> QED BY <1>1, <1>5, <4>1 DEF On
    <3>4. CASE n > 1 /\ x.updateAt = vs[m].at
               /\ vs[m - 1].events \subseteq x.events /\ x.events \subseteq vs[m].events
      <4>1. ws[n - 1] = vs[m - 1]
        <5>1. n - 1 \in 1 .. Len(ws) /\ (n - 1) + j = m - 1
          BY <3>1, <3>4
        <5> QED BY <1>1, <5>1
      <4>2. ShowsNth(x, ws, n)
        BY <1>1, <2>2, <3>2, <3>4, <4>1 DEF ShowsNth
      <4> QED BY <1>1, <1>5, <4>2 DEF On
    <3>5. CASE n = 1 /\ x.events \subseteq vs[m].events /\ x.events # vs[m].events
      <4>1. ws[1] = vs[m]
        BY <3>2, <3>5
      <4> QED BY <3>5, <4>1 DEF Old
    <3>6. n = 1 \/ n > 1
      OBVIOUS
    <3> QED BY <2>2, <3>3, <3>4, <3>5, <3>6
  <2> QED BY <2>3, <2>4
<1> QED BY <1>4, <1>5

(* A version is written between the times t and s.                         *)
IsNext(ws, vs, v, t, s) ==
    /\ ws \in Versions /\ Len(ws) = Len(vs) + 1 /\ ws[Len(ws)] = v
    /\ \A k \in 1 .. Len(vs) : ws[k] = vs[k]
    /\ \A x : Stamped(x) /\ On(x, vs, t) => On(x, ws, s)
    /\ \A x : Old(x, vs) => Old(x, ws)

LEMMA OnAppend ==
    ASSUME NEW vs \in Versions, NEW t \in Nat, NEW s \in Nat, NEW v \in Version, t < v.at, v.at <= s,
           vs[Len(vs)].at < v.at, vs[Len(vs)].events \subseteq v.events,
           NEW ws, ws = Append(vs, v)
    PROVE  IsNext(ws, vs, v, t, s)
<1>1. vs \in Seq(Version) /\ Len(vs) \in Nat /\ Len(vs) > 0 /\ DOMAIN vs = 1 .. Len(vs)
  BY VersionsAre
<1>2. /\ ws \in Seq(Version) /\ Len(ws) = Len(vs) + 1 /\ ws[Len(vs) + 1] = v
      /\ \A k \in 1 .. Len(vs) : ws[k] = vs[k]
      /\ DOMAIN ws = 1 .. Len(vs) + 1
  BY <1>1
<1>3. ASSUME NEW i \in 1 .. Len(vs) + 1, NEW j \in 1 .. Len(vs) + 1, i < j
      PROVE  ws[i].at < ws[j].at /\ ws[i].events \subseteq ws[j].events
  <2>0. i \in 1 .. Len(vs) /\ ws[i] = vs[i]
    BY <1>1, <1>2, <1>3
  <2>1. CASE j \in 1 .. Len(vs)
    BY <1>2, <1>3, <2>0, <2>1, VersionsAre
  <2>2. CASE j = Len(vs) + 1
    <3>1. Len(vs) \in 1 .. Len(vs) /\ i <= Len(vs)
      BY <1>1, <2>0
    <3>2. vs[i].at <= vs[Len(vs)].at /\ vs[i].events \subseteq vs[Len(vs)].events
          /\ vs[i].at \in Nat /\ vs[Len(vs)].at \in Nat /\ v.at \in Nat
      BY <2>0, <3>1, VersionsAre DEF Version
    <3>3. vs[i].at < v.at /\ vs[i].events \subseteq v.events
      BY <3>2
    <3> QED BY <1>2, <2>0, <2>2, <3>3
  <2> QED BY <1>1, <2>1, <2>2
<1>4. ws \in Versions
  <2>1. Ordered(ws)
    BY <1>2, <1>3 DEF Ordered
  <2>2. Len(ws) > 0
    BY <1>1, <1>2
  <2> QED BY <1>2, <2>1, <2>2 DEF Versions
<1>5. ASSUME NEW x, Stamped(x), On(x, vs, t) PROVE On(x, ws, s)
  <2>1. PICK m \in 1 .. Len(vs) : ShowsNth(x, vs, m)
    BY <1>1, <1>5 DEF On
  <2>2. x.updateAt <= t /\ x.updateAt \in Nat /\ v.at \in Nat
    BY <1>5 DEF On, Stamped, Version
  <2>3. /\ Shown(x.checklists) = vs[m].lists /\ vs[m].at <= x.updateAt
        /\ \A k \in 1 .. Len(vs) : m < k => x.updateAt < vs[k].at
        /\ \/ x.events = vs[m].events
           \/ /\ m > 1 /\ x.updateAt = vs[m].at
              /\ vs[m - 1].events \subseteq x.events /\ x.events \subseteq vs[m].events
    BY <1>1, <2>1 DEF ShowsNth
  <2>4. m \in DOMAIN ws /\ ws[m] = vs[m] /\ (m > 1 => ws[m - 1] = vs[m - 1])
    <3>1. m > 1 => m - 1 \in 1 .. Len(vs)
      BY <1>1
    <3> QED BY <1>1, <1>2, <3>1
  <2>5. ASSUME NEW k \in 1 .. Len(vs) + 1, m < k PROVE x.updateAt < ws[k].at
    <3>1. CASE k \in 1 .. Len(vs)
      BY <1>2, <2>3, <2>5, <3>1
    <3>2. CASE k = Len(vs) + 1
      <4>1. x.updateAt < v.at
        BY <2>2
      <4> QED BY <1>2, <3>2, <4>1
    <3> QED BY <1>1, <3>1, <3>2
  <2>6. ShowsNth(x, ws, m)
    BY <1>2, <2>3, <2>4, <2>5 DEF ShowsNth
  <2>7. x.updateAt <= s
    BY <2>2
  <2> QED BY <2>4, <2>6, <2>7 DEF On
<1>6. ASSUME NEW x, Old(x, vs) PROVE Old(x, ws)
  <2>1. ws[1] = vs[1]
    BY <1>1, <1>2
  <2> QED BY <1>6, <2>1 DEF Old
<1>7. ws[Len(ws)] = v
  BY <1>2
<1> QED BY <1>2, <1>4, <1>5, <1>6, <1>7 DEF IsNext

(* The last version turned out to show nothing new.                        *)
IsFront(ws, vs, n) ==
    /\ ws \in Versions /\ Len(ws) = n /\ \A k \in 1 .. n : ws[k] = vs[k]
    /\ \A x, t : Stamped(x) /\ t \in Nat /\ On(x, vs, t) => On(x, ws, t)
    /\ \A x : Old(x, vs) => Old(x, ws)

LEMMA OnFront ==
    ASSUME NEW vs \in Versions, NEW n \in Nat, n > 0, Len(vs) = n + 1,
           vs[n].lists = vs[n + 1].lists, vs[n].events = vs[n + 1].events,
           NEW ws, ws = SubSeq(vs, 1, n)
    PROVE  IsFront(ws, vs, n)
<1>1. vs \in Seq(Version) /\ DOMAIN vs = 1 .. n + 1 /\ n \in 1 .. n + 1 /\ n + 1 \in 1 .. n + 1
  BY VersionsAre
<1>2. ws \in Seq(Version) /\ Len(ws) = n /\ DOMAIN ws = 1 .. n /\ \A k \in 1 .. n : ws[k] = vs[k]
  <2>1. \A k \in 1 .. n : k \in 1 .. n + 1
    OBVIOUS
  <2>2. ws = [k \in 1 .. n |-> vs[k]]
    BY <1>1
  <2>3. \A k \in 1 .. n : ws[k] \in Version
    BY <1>1, <2>1, <2>2, VersionsAre
  <2> QED BY <2>2, <2>3, IsASeq
<1>3. ASSUME NEW i \in 1 .. n, NEW j \in 1 .. n, i < j
      PROVE  ws[i].at < ws[j].at /\ ws[i].events \subseteq ws[j].events
  <2>1. i \in 1 .. n + 1 /\ j \in 1 .. n + 1
    OBVIOUS
  <2> QED BY <1>2, <1>3, <2>1, VersionsAre
<1>4. ws \in Versions
  BY <1>2, <1>3 DEF Versions, Ordered
<1>5. ASSUME NEW x, NEW t \in Nat, Stamped(x), On(x, vs, t) PROVE On(x, ws, t)
  <2>1. PICK m \in 1 .. n + 1 : ShowsNth(x, vs, m)
    BY <1>1, <1>5 DEF On
  <2>2. /\ Shown(x.checklists) = vs[m].lists /\ vs[m].at <= x.updateAt
        /\ \A k \in 1 .. n + 1 : m < k => x.updateAt < vs[k].at
        /\ \/ x.events = vs[m].events
           \/ /\ m > 1 /\ x.updateAt = vs[m].at
              /\ vs[m - 1].events \subseteq x.events /\ x.events \subseteq vs[m].events
    BY <1>1, <2>1 DEF ShowsNth
  <2>3. CASE m \in 1 .. n
    <3>1. ws[m] = vs[m] /\ (m > 1 => ws[m - 1] = vs[m - 1])
      <4>1. m > 1 => m - 1 \in 1 .. n
        BY <2>3
      <4> QED BY <1>2, <2>3, <4>1
    <3>2. \A k \in 1 .. n : m < k => x.updateAt < ws[k].at
      <4>1. \A k \in 1 .. n : k \in 1 .. n + 1
        OBVIOUS
      <4> QED BY <1>2, <2>2, <4>1
    <3>3. ShowsNth(x, ws, m)
      BY <1>2, <2>2, <3>1, <3>2 DEF ShowsNth
    <3> QED BY <1>2, <1>5, <2>3, <3>3 DEF On
  <2>4. CASE m = n + 1
    <3>1. n \in 1 .. n /\ ws[n] = vs[n] /\ m - 1 = n
      BY <1>2, <2>4
    <3>2. x.events = vs[n].events
      BY <2>2, <2>4, <3>1
    <3>3. vs[n].at <= x.updateAt
      <4>1. vs[n].at <= vs[n + 1].at /\ vs[n].at \in Nat /\ vs[n + 1].at \in Nat
        BY <1>1, VersionsAre
      <4> QED BY <1>5, <2>2, <2>4, <4>1 DEF Stamped
    <3>4. ShowsNth(x, ws, n)
      BY <1>2, <2>2, <2>4, <3>1, <3>2, <3>3 DEF ShowsNth
    <3> QED BY <1>2, <1>5, <3>1, <3>4 DEF On
  <2> QED BY <2>3, <2>4
<1>6. ASSUME NEW x, Old(x, vs) PROVE Old(x, ws)
  <2>1. ws[1] = vs[1]
    BY <1>2
  <2> QED BY <1>6, <2>1 DEF Old
<1> QED BY <1>2, <1>4, <1>5, <1>6 DEF IsFront

-----------------------------------------------------------------------------
(* The server's side: what is on the wire, and what a handler is to send.  *)

Carries(m, v, w) ==
    \E p, c \in PlainRuns :
        /\ Shown(p.checklists) = v.lists /\ Shown(c.checklists) = w.lists /\ c.updateAt = w.at
        /\ Follows(p.checklists, c.checklists)
        /\ p.events \subseteq v.events /\ c.events \subseteq w.events
        /\ w.events \subseteq v.events \cup c.events
        /\ \/ /\ m = [full |-> FALSE, update |-> DetectChangedFields(p, c)]
              /\ ~Reorders(p.checklists, c.checklists)
           \/ m = [full |-> TRUE, run |-> ClientRun(c)] /\ c.events = w.events

(* The last version shows the row.                                         *)
Shows(vs) ==
    /\ \A k \in 1 .. Len(wire) : Carries(wire[k], vs[k], vs[k + 1])
    /\ vs[Len(vs)].lists = Shown(row.checklists)
    /\ vs[Len(vs)].at <= row.updateAt

(* A handler that has not written changes the checklists there are, which  *)
(* it may have stamped, or its write will overwrite another.               *)
Reads(b) ==
    /\ b.pc = "write"
    /\ b.original.updateAt = row.updateAt =>
         Shown(b.original.checklists) = Shown(row.checklists) /\ b.original.events \subseteq row.events

Resting(vs) ==
    /\ Len(vs) = Len(wire) + 1
    /\ vs[Len(vs)].events = row.events
    /\ \A h \in Handlers : hdl[h] = Idle \/ Reads(hdl[h])

(* The handler h has written and has still to send what it wrote.          *)
Sends(b, vs) ==
    /\ b.pc # "write"
    /\ b.copy.checklists = row.checklists /\ b.copy.updateAt = row.updateAt
    /\ Follows(b.original.checklists, row.checklists)
    /\ b.copy.events \subseteq row.events
    /\ b.pc = "record" => b.event
    /\ b.pc = "publish" /\ b.last = "reread" => b.copy.events = row.events
    /\ ~b.event => row.events = vs[Len(wire) + 1].events
    /\ vs[Len(wire) + 1].lists = Shown(b.original.checklists)
    /\ b.original.events \subseteq vs[Len(wire) + 1].events
    /\ vs[Len(wire) + 1].events \subseteq row.events
    /\ vs[Len(wire) + 2].at = row.updateAt
    /\ vs[Len(wire) + 2].events = IF b.pc = "record" THEN row.events \cup {row.updateAt}
                                                     ELSE row.events

Sending(h, vs) ==
    /\ Len(vs) = Len(wire) + 2
    /\ hdl[h] # Idle /\ Sends(hdl[h], vs)
    /\ \A k \in Handlers : k # h => hdl[k] = Idle \/ Reads(hdl[k])

ServerSide(vs) == Shows(vs) /\ (Resting(vs) \/ \E h \in Handlers : Sending(h, vs))

(* The client's side.                                                      *)
Repairing(f, vs) == ~f.answered \/ On(f.run, vs, clock) \/ Rewinds(f.run)

ToCome(vs) == \E f \in ToSet(fetches) : Repairing(f, vs)

Answered(vs) ==
    \A f \in ToSet(fetches) : f.answered => On(f.run, vs, clock) \/ Old(f.run, vs)

ClientSide(vs) ==
    /\ Answered(vs)
    /\ client = NoRun => fetches = <<>> \/ ToCome(vs)
    /\ client # NoRun => On(client, vs, clock) \/ ToCome(vs)

InStep(vs) == vs \in Versions /\ ServerSide(vs) /\ ClientSide(vs)

(* While it has missed nothing, the client has a version, or is about to   *)
(* get one.                                                                *)
Following == lost = {} => \E vs : InStep(vs)

-----------------------------------------------------------------------------
LEMMA RestExists ==
    ASSUME NEW vs \in Versions, NEW j \in Nat, j < Len(vs)
    PROVE  \E ws : IsRest(ws, vs, j)
<1>1. PICK n \in Nat : n = Len(vs) - j /\ n > 0
  <2>1. Len(vs) - j \in Nat /\ Len(vs) - j > 0
    BY VersionsAre
  <2> QED BY <2>1
<1>2. PICK ws : ws = [k \in 1 .. n |-> vs[k + j]]
  OBVIOUS
<1>3. ASSUME NEW k \in 1 .. n PROVE ws[k] \in Version /\ ws[k] = vs[k + j]
  <2>1. k + j \in 1 .. Len(vs)
    BY <1>1, VersionsAre
  <2> QED BY <1>2, <2>1, VersionsAre
<1>4. ws \in Seq(Version) /\ Len(ws) = n
  BY <1>1, <1>2, <1>3, IsASeq
<1>5. Len(vs) = n + j
  BY <1>1, VersionsAre
<1> QED BY <1>1, <1>3, <1>4, <1>5 DEF IsRest

LEMMA WireIs ==
    ASSUME SyncInv
    PROVE  /\ wire \in Seq(Messages) /\ Len(wire) \in Nat /\ clock \in Nat
           /\ \A h \in Handlers : hdl[h] # Idle => Serving(hdl[h], clock)
           /\ row \in PlainRuns /\ row.updateAt \in Nat /\ row.updateAt <= clock
           /\ client # NoRun => Stamped(client)
<1>1. wire \in Seq(Messages) /\ Len(wire) \in Nat /\ clock \in Nat
  BY DEF SyncInv
<1>2. \A h \in Handlers : hdl[h] # Idle => Serving(hdl[h], clock)
  BY DEF SyncInv, AllServe
<1>3. row \in PlainRuns
  BY <1>1, RunsLast DEF SyncInv
<1>4. row.updateAt \in Nat /\ row.updateAt <= clock
  BY <1>3 DEF PlainRuns, SyncInv, Runs
<1>5. client # NoRun => Stamped(client)
  BY DEF SyncInv, Held, Stamped
<1> QED BY <1>1, <1>2, <1>3, <1>4, <1>5

(* The server's side does not notice what the client receives.             *)
LEMMA ServerRests ==
    ASSUME SyncInv, NEW vs \in Versions, ServerSide(vs), UNCHANGED <<row, hdl>>,
           NEW j \in Nat, j <= Len(wire), NEW ws, IsRest(ws, vs, j),
           NEW w, w = wire', w \in Seq(Messages), Len(wire) = Len(w) + j,
           \A k \in 1 .. Len(w) : w[k] = wire[k + j]
    PROVE  ServerSide(ws)'
<1>1. ws \in Seq(Version) /\ Len(ws) > 0 /\ Len(vs) = Len(ws) + j /\ Len(ws) \in Nat
      /\ \A k \in 1 .. Len(ws) : ws[k] = vs[k + j]
  BY DEF IsRest
<1>2. Len(wire) \in Nat /\ Len(w) \in Nat /\ row' = row /\ hdl' = hdl
  BY WireIs
<1>3. Len(wire) + 1 <= Len(vs)
  BY <1>2 DEF ServerSide, Resting, Sending
<1>4. ws[Len(ws)] = vs[Len(vs)]
  BY <1>1
<1>5. \A k \in 1 .. Len(w) : Carries(w[k], ws[k], ws[k + 1])
  <2> SUFFICES ASSUME NEW k \in 1 .. Len(w) PROVE Carries(w[k], ws[k], ws[k + 1])
    OBVIOUS
  <2>1. k + j \in 1 .. Len(wire) /\ k \in 1 .. Len(ws) /\ k + 1 \in 1 .. Len(ws)
        /\ (k + 1) + j = (k + j) + 1
    BY <1>1, <1>2, <1>3
  <2>2. Carries(wire[k + j], vs[k + j], vs[(k + j) + 1])
    BY <2>1 DEF ServerSide, Shows
  <2>3. w[k] = wire[k + j] /\ ws[k] = vs[k + j] /\ ws[k + 1] = vs[(k + j) + 1]
    BY <1>1, <2>1
  <2> QED BY <2>2, <2>3
<1>6. Shows(ws)'
  <2>1. vs[Len(vs)].lists = Shown(row.checklists) /\ vs[Len(vs)].at <= row.updateAt
    BY DEF ServerSide, Shows
  <2> QED BY <1>2, <1>4, <1>5, <2>1 DEF Shows
<1>7. CASE Resting(vs)
  <2>1. Len(ws) = Len(w) + 1
    BY <1>1, <1>2, <1>7 DEF Resting
  <2>2. Resting(ws)'
    BY <1>2, <1>4, <1>7, <2>1 DEF Resting, Reads
  <2> QED BY <1>6, <2>2 DEF ServerSide
<1>8. ASSUME NEW h \in Handlers, Sending(h, vs) PROVE ServerSide(ws)'
  <2>1. Len(vs) = Len(wire) + 2
    BY <1>8 DEF Sending
  <2>2. /\ Len(ws) = Len(w) + 2 /\ Len(w) + 1 \in 1 .. Len(ws) /\ Len(w) + 2 \in 1 .. Len(ws)
        /\ (Len(w) + 1) + j = Len(wire) + 1 /\ (Len(w) + 2) + j = Len(wire) + 2
    BY <1>1, <1>2, <2>1
  <2>3. ws[Len(w) + 1] = vs[Len(wire) + 1] /\ ws[Len(w) + 2] = vs[Len(wire) + 2]
    BY <1>1, <2>2
  <2>4. Sends(hdl[h], ws)'
    BY <1>2, <1>8, <2>3 DEF Sending, Sends
  <2>5. Sending(h, ws)'
    BY <1>2, <1>8, <2>2, <2>4 DEF Sending, Reads
  <2> QED BY <1>6, <2>5 DEF ServerSide
<1> QED BY <1>7, <1>8 DEF ServerSide

(* An answer is a run.                                                     *)
LEMMA AnswerIs ==
    ASSUME SyncInv, NEW f \in ToSet(fetches)
    PROVE  /\ f.answered \in BOOLEAN
           /\ f.answered => Held(f.run) /\ Stamped(f.run) /\ f.run # NoRun
<1>1. PICK k \in DOMAIN fetches : f = fetches[k]
  BY DEF ToSet
<1>2. ASSUME f.answered PROVE Held(f.run) /\ Stamped(f.run) /\ f.run # NoRun
  <2>1. PICK c \in PlainRuns : f.run = ClientRun(c)
    BY <1>1, <1>2, AskedOrAnswered
  <2>2. Held(f.run)
    BY <2>1, ClientRunIs
  <2>3. f.run # NoRun
    <3>1. "events" \in DOMAIN ClientRun(c) /\ "events" \notin DOMAIN NoRun
      BY DEF ClientRun, NoRun
    <3> QED BY <2>1, <3>1
  <2> QED BY <2>2, <2>3 DEF Held, Stamped
<1> QED BY <1>1, <1>2, AskedOrAnswered

LEMMA Removed ==
    ASSUME NEW S, NEW s \in Seq(S), NEW k \in DOMAIN s
    PROVE  ToSet(RemoveAt(s, k)) \subseteq ToSet(s) /\ ToSet(s) \ {s[k]} \subseteq ToSet(RemoveAt(s, k))
<1>1. PICK r : r = RemoveAt(s, k)
  OBVIOUS
<1>2. k \in 1 .. Len(s) /\ DOMAIN s = 1 .. Len(s) /\ Len(s) \in Nat
  OBVIOUS
<1>3. /\ r \in Seq(S) /\ Len(r) = Len(s) - 1
      /\ \A n \in 1 .. Len(s) - 1 : r[n] = IF n < k THEN s[n] ELSE s[n + 1]
  BY <1>1, <1>2, RemoveAtIs
<1>4. DOMAIN r = 1 .. Len(s) - 1
  BY <1>2, <1>3
<1>5. ASSUME NEW p \in 1 .. Len(s), p # k PROVE s[p] \in ToSet(r)
  <2>1. CASE p < k
    <3>1. p \in 1 .. Len(s) - 1 /\ r[p] = s[p]
      BY <1>2, <1>3, <2>1
    <3> QED BY <1>4, <3>1 DEF ToSet
  <2>2. CASE ~(p < k)
    <3>1. p - 1 \in 1 .. Len(s) - 1 /\ ~(p - 1 < k) /\ (p - 1) + 1 = p
      BY <1>2, <1>5, <2>2
    <3>2. r[p - 1] = s[p]
      BY <1>3, <3>1
    <3> QED BY <1>4, <3>1, <3>2 DEF ToSet
  <2> QED BY <2>1, <2>2
<1>6. ToSet(s) \ {s[k]} \subseteq ToSet(r)
  BY <1>2, <1>5 DEF ToSet
<1>7. ToSet(r) \subseteq ToSet(s)
  BY <1>1, <1>2, TakenOut
<1> QED BY <1>1, <1>6, <1>7

LEMMA Appended ==
    ASSUME NEW S, NEW s \in Seq(S), NEW e
    PROVE  ToSet(Append(s, e)) = ToSet(s) \cup {e}
<1>1. PICK r : r = Append(s, e)
  OBVIOUS
<1>2. Len(s) \in Nat /\ DOMAIN s = 1 .. Len(s) /\ DOMAIN r = 1 .. Len(s) + 1
      /\ r[Len(s) + 1] = e /\ \A k \in 1 .. Len(s) : r[k] = s[k]
  BY <1>1
<1>3. ToSet(r) = {r[k] : k \in 1 .. Len(s) + 1}
  BY <1>2 DEF ToSet
<1>4. ToSet(s) = {s[k] : k \in 1 .. Len(s)}
  BY <1>2 DEF ToSet
<1>5. /\ Len(s) + 1 \in 1 .. Len(s) + 1
      /\ \A k \in 1 .. Len(s) + 1 : k \in 1 .. Len(s) \/ k = Len(s) + 1
      /\ \A k \in 1 .. Len(s) : k \in 1 .. Len(s) + 1
  BY <1>2
<1>6. ToSet(r) \subseteq ToSet(s) \cup {e}
  BY <1>2, <1>3, <1>4, <1>5
<1>7. ToSet(s) \cup {e} \subseteq ToSet(r)
  BY <1>2, <1>3, <1>4, <1>5
<1> QED BY <1>1, <1>6, <1>7

-----------------------------------------------------------------------------
(* The steps of the client, while it misses nothing.                       *)

LEMMA AnsweredRests ==
    ASSUME SyncInv, NEW vs \in Versions, Answered(vs), clock' = clock,
           NEW j \in Nat, NEW ws, IsRest(ws, vs, j),
           \A f \in ToSet(fetches') : f \in ToSet(fetches) \/ ~f.answered
    PROVE  Answered(ws)'
<1>1. ASSUME NEW f \in ToSet(fetches'), f.answered PROVE On(f.run, ws, clock) \/ Old(f.run, ws)
  <2>1. f \in ToSet(fetches) /\ Stamped(f.run) /\ clock \in Nat
    BY <1>1, AnswerIs, WireIs
  <2>2. On(f.run, vs, clock) \/ Old(f.run, vs)
    BY <1>1, <2>1 DEF Answered
  <2> QED BY <2>1, <2>2, OnRest
<1> QED BY <1>1 DEF Answered

(* The next message is received: the versions after it remain.             *)
LEMMA MessageGone ==
    ASSUME SyncInv, NEW vs, InStep(vs), wire # <<>>, wire' = Tail(wire), UNCHANGED <<row, hdl>>
    PROVE  /\ Len(vs) >= 2 /\ 1 \in 1 .. Len(vs) /\ 2 \in 1 .. Len(vs)
           /\ vs \in Versions /\ Carries(Head(wire), vs[1], vs[2])
           /\ vs[2].at <= clock
           /\ \E ws : IsRest(ws, vs, 1) /\ ws \in Versions /\ ServerSide(ws)' /\ ws[1] = vs[2]
<1>1. vs \in Versions /\ ServerSide(vs)
  BY DEF InStep
<1>2. wire \in Seq(Messages) /\ Len(wire) \in Nat /\ Len(wire) > 0 /\ Head(wire) = wire[1]
      /\ Tail(wire) \in Seq(Messages) /\ Len(wire) = Len(Tail(wire)) + 1
      /\ \A k \in 1 .. Len(Tail(wire)) : Tail(wire)[k] = wire[k + 1]
  BY WireIs
<1>3. Len(vs) >= 2 /\ Len(vs) \in Nat
  BY <1>1, <1>2, VersionsAre DEF ServerSide, Resting, Sending
<1>4. 1 \in 1 .. Len(vs) /\ 2 \in 1 .. Len(vs) /\ 1 + 1 = 2 /\ 1 < Len(vs) /\ 1 \in 1 .. Len(wire)
  BY <1>2, <1>3
<1>5. Carries(Head(wire), vs[1], vs[2])
  <2>1. Carries(wire[1], vs[1], vs[1 + 1])
    BY <1>1, <1>4 DEF ServerSide, Shows
  <2> QED BY <1>2, <1>4, <2>1
<1>6. vs[2].at <= clock
  <2>1. vs[2].at <= vs[Len(vs)].at /\ vs[2].at \in Nat /\ vs[Len(vs)].at \in Nat
    BY <1>1, <1>3, <1>4, VersionsAre
  <2>2. vs[Len(vs)].at <= row.updateAt /\ row.updateAt <= clock /\ row.updateAt \in Nat /\ clock \in Nat
    BY <1>1, WireIs DEF ServerSide, Shows
  <2> QED BY <2>1, <2>2
<1>7. PICK ws : IsRest(ws, vs, 1)
  BY <1>1, <1>4, RestExists
<1>8. ws \in Versions
  BY <1>1, <1>7, RestIsOrdered
<1>9. ws[1] = vs[2]
  <2>1. 1 \in 1 .. Len(ws)
    BY <1>8, VersionsAre
  <2> QED BY <1>4, <1>7, <2>1 DEF IsRest
<1>10. ServerSide(ws)'
  <2>1. PICK w : w = wire'
    OBVIOUS
  <2>2. w \in Seq(Messages) /\ Len(wire) = Len(w) + 1 /\ 1 <= Len(wire)
        /\ \A k \in 1 .. Len(w) : w[k] = wire[k + 1]
    BY <1>2, <2>1
  <2> QED BY <1>1, <1>7, <2>1, <2>2, ServerRests
<1> QED BY <1>1, <1>3, <1>4, <1>5, <1>6, <1>7, <1>8, <1>9, <1>10

LEMMA ReceiveRunFollows ==
    ASSUME SyncInv, NEW vs, InStep(vs), ReceiveRun
    PROVE  \E ws : InStep(ws)'
<1>1. /\ wire # <<>> /\ Head(wire).full /\ client' = Head(wire).run /\ wire' = Tail(wire)
      /\ UNCHANGED <<clock, row, hdl, fetches>>
  BY DEF ReceiveRun
<1>2. PICK ws : IsRest(ws, vs, 1) /\ ws \in Versions /\ ServerSide(ws)' /\ ws[1] = vs[2]
  BY <1>1, MessageGone
<1>3. PICK p \in PlainRuns, c \in PlainRuns :
        /\ Shown(c.checklists) = ws[1].lists /\ c.updateAt = ws[1].at
        /\ \/ Head(wire) = [full |-> FALSE, update |-> DetectChangedFields(p, c)]
           \/ Head(wire) = [full |-> TRUE, run |-> ClientRun(c)] /\ c.events = ws[1].events
  BY <1>1, <1>2, MessageGone DEF Carries
<1>4. Head(wire) = [full |-> TRUE, run |-> ClientRun(c)] /\ c.events = ws[1].events
  <2>1. PICK u : u = DetectChangedFields(p, c)
    OBVIOUS
  <2>2. [full |-> FALSE, update |-> u].full = FALSE
    OBVIOUS
  <2> QED BY <1>1, <1>3, <2>1, <2>2
<1>5. client' = ClientRun(c)
  <2>1. PICK y : y = ClientRun(c)
    OBVIOUS
  <2>2. [full |-> TRUE, run |-> y].run = y
    OBVIOUS
  <2> QED BY <1>1, <1>4, <2>1, <2>2
<1>6. On(client', ws, clock)
  <2>1. PICK y : y = ClientRun(c)
    OBVIOUS
  <2>2. y.updateAt = c.updateAt /\ y.checklists = c.checklists /\ y.events = c.events
    BY <2>1, ClientRunIs
  <2>3. \A k \in DOMAIN ws : 1 < k => y.updateAt < ws[k].at
    <3> SUFFICES ASSUME NEW k \in 1 .. Len(ws), 1 < k PROVE ws[1].at < ws[k].at
      BY <1>2, <1>3, <2>2, VersionsAre
    <3>1. 1 \in 1 .. Len(ws)
      BY <1>2, VersionsAre
    <3> QED BY <1>2, <3>1, VersionsAre
  <2>4. ws[1].at <= y.updateAt /\ 1 \in DOMAIN ws
    <3>1. 1 \in 1 .. Len(ws) /\ DOMAIN ws = 1 .. Len(ws)
      BY <1>2, VersionsAre
    <3> QED BY <1>2, <1>3, <2>2, <3>1, VersionsAre
  <2>5. y.updateAt <= clock
    BY <1>1, <1>2, <1>3, <2>2, MessageGone
  <2>6. ShowsNth(y, ws, 1)
    BY <1>3, <1>4, <2>2, <2>3, <2>4 DEF ShowsNth
  <2> QED BY <1>5, <2>1, <2>4, <2>5, <2>6 DEF On
<1>7. Answered(ws)'
  BY <1>1, <1>2, AnsweredRests, MessageGone DEF InStep, ClientSide
<1>8. client' # NoRun
  <2>1. "events" \in DOMAIN ClientRun(c) /\ "events" \notin DOMAIN NoRun
    BY DEF ClientRun, NoRun
  <2> QED BY <1>5, <2>1
<1>9. ClientSide(ws)'
  BY <1>1, <1>6, <1>7, <1>8 DEF ClientSide
<1> QED BY <1>2, <1>9 DEF InStep

LEMMA FetchMissingFollows ==
    ASSUME SyncInv, NEW vs, InStep(vs), FetchMissingRun
    PROVE  \E ws : InStep(ws)'
<1>1. /\ wire # <<>> /\ client = NoRun /\ wire' = Tail(wire) /\ fetches' = Append(fetches, Asked)
      /\ UNCHANGED <<clock, row, hdl, client>>
  BY DEF FetchMissingRun
<1>2. PICK ws : IsRest(ws, vs, 1) /\ ws \in Versions /\ ServerSide(ws)'
  BY <1>1, MessageGone
<1>3. ToSet(fetches') = ToSet(fetches) \cup {Asked} /\ ~Asked.answered
  BY <1>1, AskedOrAnswered, Appended
<1>4. Answered(ws)'
  BY <1>1, <1>2, <1>3, AnsweredRests, MessageGone DEF InStep, ClientSide
<1>5. ToCome(ws)'
  BY <1>3 DEF ToCome, Repairing
<1>6. ClientSide(ws)'
  BY <1>4, <1>5 DEF ClientSide
<1> QED BY <1>2, <1>6 DEF InStep

(* An update of the first version to the second.                           *)
LEMMA Applied ==
    ASSUME NEW p \in PlainRuns, NEW c \in PlainRuns, Follows(p.checklists, c.checklists),
           ~Reorders(p.checklists, c.checklists),
           NEW x, Held(x), Shown(x.checklists) \in {Shown(p.checklists), Shown(c.checklists)},
           NEW y, y = ApplyChangedFields(x, DetectChangedFields(p, c))
    PROVE  /\ Shown(y.checklists) = Shown(c.checklists) /\ y.updateAt = c.updateAt
           /\ y.events = x.events \cup (c.events \ p.events)
<1>1. PICK u : u = DetectChangedFields(p, c)
  OBVIOUS
<1>2. /\ u.deletes = IDs(p.checklists) \ IDs(c.checklists) /\ u.updateAt = c.updateAt
      /\ u.checklists = GetChecklistUpdates(p.checklists, c.checklists)
      /\ u.events = c.events \ p.events
  BY <1>1 DEF DetectChangedFields
<1>3. /\ y.checklists = ApplyChecklistUpdates(Without(x.checklists, u.deletes), u.checklists)
      /\ y.events = x.events \cup u.events /\ y.updateAt = u.updateAt
  BY <1>1 DEF ApplyChangedFields
<1>4. p.checklists \in Outlines /\ c.checklists \in Outlines /\ x.checklists \in Outlines
  BY DEF PlainRuns, Held
<1>5. Shown(y.checklists) = Shown(c.checklists)
  <2>1. PICK P, C, X, Y : P = p.checklists /\ C = c.checklists /\ X = x.checklists /\ Y = y.checklists
    OBVIOUS
  <2>2. P \in Outlines /\ C \in Outlines /\ X \in Outlines /\ Follows(P, C) /\ ~Reorders(P, C)
        /\ Y = ApplyChecklistUpdates(Without(X, IDs(P) \ IDs(C)), GetChecklistUpdates(P, C))
        /\ (Shown(X) = Shown(P) \/ Shown(X) = Shown(C))
    BY <1>2, <1>3, <1>4, <2>1
  <2>3. Shown(Y) = Shown(C)
    BY <2>2, ShownAfter
  <2> QED BY <2>1, <2>3
<1> QED BY <1>2, <1>3, <1>5

(* What shows a version before the update shows one after it.              *)
LEMMA OnUpdated ==
    ASSUME NEW vs \in Versions, Len(vs) >= 2, NEW ws, IsRest(ws, vs, 1), NEW t \in Nat, vs[2].at <= t,
           NEW p \in PlainRuns, NEW c \in PlainRuns,
           Shown(p.checklists) = vs[1].lists, Shown(c.checklists) = vs[2].lists, c.updateAt = vs[2].at,
           Follows(p.checklists, c.checklists), ~Reorders(p.checklists, c.checklists),
           p.events \subseteq vs[1].events, c.events \subseteq vs[2].events,
           vs[2].events \subseteq vs[1].events \cup c.events,
           NEW x, Held(x), On(x, vs, t),
           NEW y, y = ApplyIncrementalUpdate(x, DetectChangedFields(p, c))
    PROVE  On(y, ws, t)
<1>1. ws \in Versions /\ Len(vs) = Len(ws) + 1 /\ Len(ws) \in Nat /\ Len(ws) > 0 /\ DOMAIN ws = 1 .. Len(ws)
      /\ \A k \in 1 .. Len(ws) : ws[k] = vs[k + 1]
  BY RestIsOrdered, VersionsAre DEF IsRest
<1>2. 1 \in 1 .. Len(vs) /\ 2 \in 1 .. Len(vs) /\ 1 \in 1 .. Len(ws) /\ ws[1] = vs[2]
      /\ vs[1].at < vs[2].at /\ vs[1].events \subseteq vs[2].events /\ vs[1].at \in Nat /\ vs[2].at \in Nat
  BY <1>1, VersionsAre
<1>3. x.updateAt \in Nat /\ Stamped(x) /\ x.updateAt <= t
  BY DEF Held, Stamped, On
<1>4. PICK m \in 1 .. Len(vs) : ShowsNth(x, vs, m)
  BY VersionsAre DEF On
<1>5. /\ Shown(x.checklists) = vs[m].lists /\ vs[m].at <= x.updateAt
      /\ \A k \in 1 .. Len(vs) : m < k => x.updateAt < vs[k].at
      /\ \/ x.events = vs[m].events
         \/ /\ m > 1 /\ x.updateAt = vs[m].at
            /\ vs[m - 1].events \subseteq x.events /\ x.events \subseteq vs[m].events
  BY <1>4, VersionsAre DEF ShowsNth
<1>6. PICK u : u = DetectChangedFields(p, c) /\ u.updateAt = vs[2].at
  BY DEF DetectChangedFields
<1>7. CASE x.updateAt > vs[2].at
  <2>1. y = x
    BY <1>6, <1>7 DEF ApplyIncrementalUpdate, IsOlder
  <2>2. m >= 2 /\ (m = 2 => x.events = vs[2].events)
    <3>1. m # 1
      BY <1>2, <1>3, <1>5, <1>7
    <3>2. m = 2 => x.events = vs[2].events
      BY <1>2, <1>3, <1>5, <1>7
    <3> QED BY <3>1, <3>2
  <2>3. On(x, ws, t) \/ Old(x, ws)
    BY <1>3, OnRest
  <2>4. ~Old(x, ws)
    <3>1. ~(x.updateAt < ws[1].at)
      BY <1>2, <1>3, <1>7
    <3>2. vs[2].events \subseteq x.events
      <4>1. CASE m = 2
        BY <2>2, <4>1
      <4>2. CASE m > 2
        <5>1. m - 1 \in 1 .. Len(vs) /\ 2 <= m - 1 /\ 2 <= m
          BY <4>2
        <5>2. vs[2].events \subseteq vs[m - 1].events /\ vs[2].events \subseteq vs[m].events
          BY <1>2, <5>1, VersionsAre
        <5> QED BY <1>5, <5>2
      <4> QED BY <2>2, <4>1, <4>2
    <3> QED BY <1>2, <3>1, <3>2 DEF Old
  <2> QED BY <2>1, <2>3, <2>4
<1>8. CASE ~(x.updateAt > vs[2].at)
  <2>1. y = ApplyChangedFields(x, DetectChangedFields(p, c))
    BY <1>6, <1>8 DEF ApplyIncrementalUpdate, IsOlder
  <2>2. m \in {1, 2}
    <3> SUFFICES ASSUME m > 2 PROVE FALSE
      OBVIOUS
    <3>1. vs[2].at < vs[m].at /\ vs[m].at \in Nat
      BY <1>2, VersionsAre
    <3> QED BY <1>2, <1>3, <1>5, <1>8, <3>1
  <2>3. Shown(x.checklists) \in {Shown(p.checklists), Shown(c.checklists)}
    BY <1>5, <2>2
  <2>4. Shown(y.checklists) = Shown(c.checklists) /\ y.updateAt = c.updateAt
        /\ y.events = x.events \cup (c.events \ p.events)
    BY <2>1, <2>3, Applied
  <2>5. vs[1].events \subseteq x.events /\ x.events \subseteq vs[2].events
    <3>1. CASE m = 1
      BY <1>2, <1>5, <3>1
    <3>2. CASE m = 2
      <4>1. m - 1 = 1
        BY <3>2
      <4> QED BY <1>2, <1>5, <3>2, <4>1
    <3> QED BY <2>2, <3>1, <3>2
  <2>6. y.events = vs[2].events
    BY <2>4, <2>5
  <2>7. \A k \in 1 .. Len(ws) : 1 < k => y.updateAt < ws[k].at
    BY <1>1, <1>2, <2>4, VersionsAre
  <2>8. ShowsNth(y, ws, 1)
    BY <1>1, <1>2, <2>4, <2>6, <2>7 DEF ShowsNth
  <2> QED BY <1>1, <1>2, <2>4, <2>8 DEF On
<1> QED BY <1>7, <1>8

(* An answer of the second version that lacks an event of it.              *)
LEMMA LateAnswer ==
    ASSUME NEW vs \in Versions, Len(vs) >= 2, NEW ws, ws[1] = vs[2], NEW t \in Nat,
           NEW z, Stamped(z), On(z, vs, t), Old(z, ws)
    PROVE  z.updateAt < vs[2].at \/ (z.updateAt = vs[2].at /\ ~(vs[2].events \subseteq z.events))
<1> SUFFICES ASSUME ~(z.updateAt < vs[2].at)
             PROVE  z.updateAt = vs[2].at /\ ~(vs[2].events \subseteq z.events)
  OBVIOUS
<1>1. 1 \in 1 .. Len(vs) /\ 2 \in 1 .. Len(vs) /\ vs[2].at \in Nat /\ z.updateAt \in Nat
  BY VersionsAre DEF Stamped
<1>2. ~(vs[2].events \subseteq z.events)
  BY <1>1 DEF Old
<1>3. PICK m \in 1 .. Len(vs) : ShowsNth(z, vs, m)
  BY VersionsAre DEF On
<1>4. /\ vs[m].at <= z.updateAt /\ \A k \in 1 .. Len(vs) : m < k => z.updateAt < vs[k].at
      /\ \/ z.events = vs[m].events
         \/ /\ m > 1 /\ z.updateAt = vs[m].at
            /\ vs[m - 1].events \subseteq z.events /\ z.events \subseteq vs[m].events
  BY <1>3, VersionsAre DEF ShowsNth
<1>5. m >= 2
  BY <1>1, <1>4
<1>6. ~(m > 2)
  <2> SUFFICES ASSUME m > 2 PROVE FALSE
    OBVIOUS
  <2>1. m - 1 \in 1 .. Len(vs) /\ 2 <= m - 1 /\ 2 <= m
    BY <1>5
  <2>2. vs[2].events \subseteq vs[m - 1].events /\ vs[2].events \subseteq vs[m].events
    BY <1>1, <2>1, VersionsAre
  <2> QED BY <1>2, <1>4, <2>2
<1>7. m = 2
  BY <1>5, <1>6
<1> QED BY <1>2, <1>4, <1>7

LEMMA ReceiveUpdateFollows ==
    ASSUME SyncInv, NEW vs, InStep(vs), ReceiveUpdate
    PROVE  \E ws : InStep(ws)'
<1>1. /\ wire # <<>> /\ ~Head(wire).full /\ client # NoRun
      /\ client' = ApplyIncrementalUpdate(client, Head(wire).update) /\ wire' = Tail(wire)
      /\ UNCHANGED <<clock, row, hdl, fetches>>
  BY DEF ReceiveUpdate
<1>2. /\ Len(vs) >= 2 /\ vs \in Versions /\ vs[2].at <= clock /\ clock \in Nat
      /\ 1 \in 1 .. Len(vs) /\ 2 \in 1 .. Len(vs) /\ vs[2].at \in Nat /\ vs[1].at < vs[2].at /\ vs[1].at \in Nat
  BY <1>1, MessageGone, WireIs, VersionsAre
<1>3. PICK ws : IsRest(ws, vs, 1) /\ ws \in Versions /\ ServerSide(ws)' /\ ws[1] = vs[2]
  BY <1>1, MessageGone
<1>4. PICK p \in PlainRuns, c \in PlainRuns :
        /\ Shown(p.checklists) = vs[1].lists /\ Shown(c.checklists) = vs[2].lists /\ c.updateAt = vs[2].at
        /\ Follows(p.checklists, c.checklists)
        /\ p.events \subseteq vs[1].events /\ c.events \subseteq vs[2].events
        /\ vs[2].events \subseteq vs[1].events \cup c.events
        /\ \/ /\ Head(wire) = [full |-> FALSE, update |-> DetectChangedFields(p, c)]
              /\ ~Reorders(p.checklists, c.checklists)
           \/ Head(wire) = [full |-> TRUE, run |-> ClientRun(c)]
  BY <1>1, MessageGone DEF Carries
<1>5. PICK u : u = DetectChangedFields(p, c)
  OBVIOUS
<1>6. Head(wire).update = u /\ ~Reorders(p.checklists, c.checklists)
  <2>1. [full |-> FALSE, update |-> u].update = u /\ [full |-> TRUE, run |-> ClientRun(c)].full = TRUE
    OBVIOUS
  <2> QED BY <1>1, <1>4, <1>5, <2>1
<1>7. Held(client) /\ Stamped(client) /\ client.updateAt \in Nat
  BY <1>1 DEF SyncInv, Held, Stamped
<1>8. u.updateAt = vs[2].at /\ u.events = c.events \ p.events
  BY <1>4, <1>5 DEF DetectChangedFields
<1>9. \/ client' = client /\ client.updateAt > vs[2].at
      \/ /\ client' = ApplyChangedFields(client, u) /\ client.updateAt <= vs[2].at
         /\ client'.updateAt = vs[2].at /\ client'.events = client.events \cup (c.events \ p.events)
  <2>1. CASE client.updateAt > vs[2].at
    BY <1>1, <1>6, <1>8, <2>1 DEF ApplyIncrementalUpdate, IsOlder
  <2>2. CASE ~(client.updateAt > vs[2].at)
    <3>1. client' = ApplyChangedFields(client, u)
      BY <1>1, <1>6, <1>8, <2>2 DEF ApplyIncrementalUpdate, IsOlder
    <3>2. client'.updateAt = u.updateAt /\ client'.events = client.events \cup u.events
      BY <3>1 DEF ApplyChangedFields
    <3> QED BY <1>2, <1>7, <1>8, <2>2, <3>1, <3>2
  <2> QED BY <2>1, <2>2
<1>10. /\ client'.updateAt \in Nat /\ client'.updateAt >= client.updateAt /\ client'.updateAt >= vs[2].at
       /\ client.events \subseteq client'.events /\ client' # NoRun
  <2>1. client' # NoRun
    <3>1. client'.updateAt # 0
      BY <1>2, <1>7, <1>9
    <3> QED BY <3>1 DEF NoRun
  <2> QED BY <1>2, <1>7, <1>9, <2>1
<1>11. Answered(ws)'
  BY <1>1, <1>2, <1>3, AnsweredRests DEF InStep, ClientSide
<1>12. CASE On(client, vs, clock)
  <2>1. On(client', ws, clock)
    <3>1. PICK x, y : x = client /\ y = client'
      OBVIOUS
    <3>2. y = ApplyIncrementalUpdate(x, DetectChangedFields(p, c)) /\ Held(x) /\ On(x, vs, clock)
      BY <1>1, <1>5, <1>6, <1>7, <1>12, <3>1
    <3>3. On(y, ws, clock)
      BY <1>2, <1>3, <1>4, <1>6, <3>2, OnUpdated
    <3> QED BY <3>1, <3>3
  <2>2. ClientSide(ws)'
    BY <1>1, <1>10, <1>11, <2>1 DEF ClientSide
  <2> QED BY <1>3, <2>2 DEF InStep
<1>13. ASSUME NEW f \in ToSet(fetches), Repairing(f, vs) PROVE Repairing(f, ws)'
  <2>1. CASE ~f.answered
    BY <2>1 DEF Repairing
  <2>2. CASE f.answered
    <3>1. PICK z : z = f.run
      OBVIOUS
    <3>2. Stamped(z) /\ z.updateAt \in Nat
      BY <2>2, <3>1, AnswerIs DEF Stamped
    <3>3. CASE On(z, vs, clock)
      <4>1. On(z, ws, clock) \/ Old(z, ws)
        BY <1>2, <1>3, <3>2, <3>3, OnRest
      <4>2. CASE On(z, ws, clock)
        BY <1>1, <3>1, <4>2 DEF Repairing
      <4>3. CASE Old(z, ws)
        <5>1. z.updateAt < vs[2].at \/ (z.updateAt = vs[2].at /\ ~(vs[2].events \subseteq z.events))
          BY <1>2, <1>3, <3>2, <3>3, <4>3, LateAnswer
        <5>2. vs[1].events \subseteq z.events
          BY <1>2, <3>2, <3>3, OnIsNotOld
        <5>3. client'.updateAt > z.updateAt \/ ~(client'.events \subseteq z.events)
          <6>1. CASE z.updateAt < vs[2].at
            BY <1>2, <1>10, <3>2, <6>1
          <6>2. CASE z.updateAt = vs[2].at /\ client.updateAt > vs[2].at
            BY <1>2, <1>7, <1>10, <3>2, <6>2
          <6>3. CASE /\ ~(vs[2].events \subseteq z.events)
                     /\ client'.events = client.events \cup (c.events \ p.events)
            BY <1>4, <5>2, <6>3
          <6> QED BY <1>9, <5>1, <6>1, <6>2, <6>3
        <5> QED BY <1>10, <3>1, <5>3 DEF Repairing, Rewinds
      <4> QED BY <4>1, <4>2, <4>3
    <3>4. CASE Rewinds(z)
      <4>1. client'.updateAt > z.updateAt \/ ~(client'.events \subseteq z.events)
        <5>1. CASE client.updateAt > z.updateAt
          BY <1>7, <1>10, <3>2, <5>1
        <5>2. CASE ~(client.events \subseteq z.events)
          BY <1>10, <5>2
        <5> QED BY <3>4, <5>1, <5>2 DEF Rewinds
      <4> QED BY <1>10, <3>1, <4>1 DEF Repairing, Rewinds
    <3> QED BY <1>13, <2>2, <3>1, <3>3, <3>4 DEF Repairing
  <2>3. f.answered \in BOOLEAN
    BY AnswerIs
  <2> QED BY <2>1, <2>2
<1>14. CASE ToCome(vs)
  <2>1. ToCome(ws)'
    BY <1>1, <1>13, <1>14 DEF ToCome
  <2>2. ClientSide(ws)'
    BY <1>1, <1>10, <1>11, <2>1 DEF ClientSide
  <2> QED BY <1>3, <2>2 DEF InStep
<1> QED BY <1>1, <1>12, <1>14 DEF InStep, ClientSide

LEMMA SameRest ==
    ASSUME NEW vs \in Versions
    PROVE  IsRest(vs, vs, 0)
<1>1. vs \in Seq(Version) /\ Len(vs) > 0 /\ Len(vs) \in Nat
  BY VersionsAre
<1>2. \A k \in 1 .. Len(vs) : k + 0 = k
  BY <1>1
<1> QED BY <1>1, <1>2 DEF IsRest

(* Nothing changes on the server's side.                                   *)
LEMMA ServerStays ==
    ASSUME SyncInv, NEW vs, InStep(vs), UNCHANGED <<row, hdl, wire>>
    PROVE  vs \in Versions /\ ServerSide(vs)'
BY DEF InStep, ServerSide, Shows, Resting, Sending, Sends, Reads

LEMMA OpenFollows ==
    ASSUME SyncInv, NEW vs, InStep(vs), OpenRun \/ Reconnect
    PROVE  \E ws : InStep(ws)'
<1>1. /\ fetches' = Append(fetches, Asked) /\ UNCHANGED <<clock, row, hdl, client>>
      /\ wire' = wire \/ wire' = <<>>
  BY DEF OpenRun, Reconnect
<1>2. vs \in Versions /\ ServerSide(vs)
  BY DEF InStep
<1>3. \E j \in Nat : \E ws : IsRest(ws, vs, j) /\ ServerSide(ws)'
  <2>1. CASE wire' = wire
    BY <1>1, <1>2, <2>1, SameRest, ServerStays
  <2>2. CASE wire' = <<>>
    <3>1. Len(wire) \in Nat /\ Len(wire) < Len(vs)
      BY <1>2, WireIs DEF ServerSide, Resting, Sending
    <3>2. PICK ws : IsRest(ws, vs, Len(wire))
      BY <1>2, <3>1, RestExists
    <3>3. PICK w : w = wire'
      OBVIOUS
    <3>4. w \in Seq(Messages) /\ Len(wire) = Len(w) + Len(wire) /\ \A k \in 1 .. Len(w) : w[k] = wire[k + Len(wire)]
      BY <2>2, <3>1, <3>3
    <3>5. ServerSide(ws)'
      BY <1>1, <1>2, <3>1, <3>2, <3>3, <3>4, ServerRests
    <3> QED BY <3>1, <3>2, <3>5
  <2> QED BY <1>1, <2>1, <2>2
<1>4. PICK j \in Nat : \E ws : IsRest(ws, vs, j) /\ ServerSide(ws)'
  BY <1>3
<1>5. PICK ws : IsRest(ws, vs, j) /\ ServerSide(ws)'
  BY <1>4
<1>6. ToSet(fetches') = ToSet(fetches) \cup {Asked} /\ ~Asked.answered
  BY <1>1, AskedOrAnswered, Appended
<1>7. ws \in Versions
  BY <1>2, <1>5, RestIsOrdered
<1>8. Answered(ws)'
  BY <1>1, <1>2, <1>5, <1>6, AnsweredRests DEF InStep, ClientSide
<1>9. ToCome(ws)'
  BY <1>6 DEF ToCome, Repairing
<1>10. ClientSide(ws)'
  BY <1>8, <1>9 DEF ClientSide
<1> QED BY <1>5, <1>7, <1>10 DEF InStep

(* An answer read now shows the last version, or lacks its event yet.      *)
LEMMA RowIsOn ==
    ASSUME SyncInv, NEW vs, InStep(vs)
    PROVE  On(ClientRun(row), vs, clock)
<1>1. vs \in Versions /\ Shows(vs)
  BY DEF InStep, ServerSide
<1>2. PICK n \in Nat : n = Len(vs) /\ n > 0
  BY <1>1, VersionsAre
<1>3. PICK x : x = ClientRun(row)
  OBVIOUS
<1>4. x.updateAt = row.updateAt /\ x.checklists = row.checklists /\ x.events = row.events
      /\ row.updateAt <= clock
  BY <1>3, WireIs, ClientRunIs
<1>5. n \in DOMAIN vs /\ \A k \in DOMAIN vs : ~(n < k)
  BY <1>1, <1>2, VersionsAre
<1>6. Shown(x.checklists) = vs[n].lists /\ vs[n].at <= x.updateAt
  BY <1>1, <1>2, <1>4 DEF Shows
<1>7. \/ x.events = vs[n].events
      \/ /\ n > 1 /\ x.updateAt = vs[n].at
         /\ vs[n - 1].events \subseteq x.events /\ x.events \subseteq vs[n].events
  <2>1. CASE Resting(vs)
    BY <1>2, <1>4, <2>1 DEF Resting
  <2>2. ASSUME NEW h \in Handlers, Sending(h, vs)
        PROVE  /\ n > 1 /\ x.updateAt = vs[n].at
               /\ vs[n - 1].events \subseteq x.events /\ x.events \subseteq vs[n].events
    <3>1. n = Len(wire) + 2 /\ n - 1 = Len(wire) + 1 /\ Len(wire) \in Nat
      BY <1>2, <2>2, WireIs DEF Sending
    <3>2. Sends(hdl[h], vs)
      BY <2>2 DEF Sending
    <3>3. vs[n].at = row.updateAt /\ row.events \subseteq vs[n].events
      BY <3>1, <3>2 DEF Sends
    <3>4. vs[n - 1].events \subseteq row.events
      BY <3>1, <3>2 DEF Sends
    <3> QED BY <1>4, <3>1, <3>3, <3>4
  <2> QED BY <2>1, <2>2 DEF InStep, ServerSide
<1>8. ShowsNth(x, vs, n)
  BY <1>5, <1>6, <1>7 DEF ShowsNth
<1> QED BY <1>3, <1>4, <1>5, <1>8 DEF On

LEMMA AnswerFollows ==
    ASSUME SyncInv, NEW vs, InStep(vs), NEW k \in DOMAIN fetches, AnswerFetch(k)
    PROVE  \E ws : InStep(ws)'
<1>1. /\ ~fetches[k].answered
      /\ fetches' = [fetches EXCEPT ![k] = [answered |-> TRUE, run |-> ClientRun(row)]]
      /\ UNCHANGED <<row, clock, hdl, wire, client>>
  BY DEF AnswerFetch
<1>2. PICK a, x : x = ClientRun(row) /\ a = [answered |-> TRUE, run |-> x]
  OBVIOUS
<1>3. a.answered = TRUE /\ a.run = x /\ On(x, vs, clock)
  BY <1>2, RowIsOn
<1>4. vs \in Versions /\ ServerSide(vs)'
  BY <1>1, ServerStays
<1>5. DOMAIN fetches' = DOMAIN fetches /\ fetches'[k] = a
      /\ \A n \in DOMAIN fetches : n # k => fetches'[n] = fetches[n]
  BY <1>1, <1>2, AskedOrAnswered
<1>6. \A f \in ToSet(fetches') : f \in ToSet(fetches) \/ f = a
  BY <1>5 DEF ToSet
<1>7. a \in ToSet(fetches') /\ \A f \in ToSet(fetches) : f \in ToSet(fetches') \/ f = fetches[k]
  BY <1>5 DEF ToSet
<1>8. Answered(vs)'
  BY <1>1, <1>3, <1>6 DEF InStep, ClientSide, Answered
<1>9. ToCome(vs)'
  BY <1>1, <1>3, <1>7 DEF ToCome, Repairing
<1>10. ClientSide(vs)'
  BY <1>8, <1>9 DEF ClientSide
<1> QED BY <1>4, <1>10 DEF InStep

LEMMA ReceiveAnswerFollows ==
    ASSUME SyncInv, NEW vs, InStep(vs), NEW k \in DOMAIN fetches, ReceiveAnswer(k), lost' = {}
    PROVE  \E ws : InStep(ws)'
<1>1. /\ fetches[k].answered /\ client' = fetches[k].run /\ fetches' = RemoveAt(fetches, k)
      /\ ~Rewinds(fetches[k].run)
      /\ UNCHANGED <<row, clock, hdl, wire>>
  BY DEF ReceiveAnswer, LostBySetting
<1>2. PICK g, z : g = fetches[k] /\ z = g.run
  OBVIOUS
<1>3. g \in ToSet(fetches) /\ Stamped(z) /\ z.updateAt \in Nat /\ z # NoRun /\ client' = z
  <2>1. g \in ToSet(fetches)
    BY <1>2 DEF ToSet
  <2> QED BY <1>1, <1>2, <2>1, AnswerIs DEF Stamped
<1>4. vs \in Versions /\ ServerSide(vs)' /\ clock \in Nat
  BY <1>1, ServerStays, WireIs
<1>5. ToSet(fetches') \subseteq ToSet(fetches) /\ ToSet(fetches) \ {g} \subseteq ToSet(fetches')
  BY <1>1, <1>2, AskedOrAnswered, Removed
<1>6. Answered(vs)'
  BY <1>1, <1>5 DEF InStep, ClientSide, Answered
<1>7. CASE On(z, vs, clock)
  BY <1>1, <1>3, <1>4, <1>6, <1>7 DEF InStep, ClientSide
<1>8. CASE ~On(z, vs, clock)
  <2>1. Old(z, vs)
    BY <1>1, <1>2, <1>3, <1>8 DEF InStep, ClientSide, Answered
  <2>2. ~Repairing(g, vs)
    BY <1>1, <1>2, <1>8 DEF Repairing
  <2>3. client # NoRun => ~On(client, vs, clock)
    <3> SUFFICES ASSUME client # NoRun, On(client, vs, clock) PROVE FALSE
      OBVIOUS
    <3>1. Stamped(client) /\ client.updateAt \in Nat
      BY WireIs DEF Stamped
    <3>2. vs[1].at <= client.updateAt /\ vs[1].events \subseteq client.events
      BY <1>4, <3>1, OnIsNotOld
    <3>3. ~(client.updateAt > z.updateAt) /\ client.events \subseteq z.events
      BY <1>1, <1>2 DEF Rewinds
    <3>4. vs[1].at \in Nat
      BY <1>4, VersionsAre
    <3> QED BY <1>3, <2>1, <3>1, <3>2, <3>3, <3>4 DEF Old
  <2>4. fetches # <<>>
    BY AskedOrAnswered
  <2>5. PICK f \in ToSet(fetches) : Repairing(f, vs)
    BY <2>3, <2>4 DEF InStep, ClientSide, ToCome
  <2>6. f \in ToSet(fetches')
    BY <1>5, <2>2, <2>5
  <2>7. Repairing(f, vs)'
    <3>1. CASE Rewinds(f.run) /\ f.answered
      <4>1. PICK y : y = f.run
        OBVIOUS
      <4>2. Stamped(y) /\ y.updateAt \in Nat
        BY <2>5, <3>1, <4>1, AnswerIs DEF Stamped
      <4>3. client # NoRun /\ (client.updateAt > y.updateAt \/ ~(client.events \subseteq y.events))
        BY <3>1, <4>1 DEF Rewinds
      <4>4. client.updateAt \in Nat
        BY <4>3, WireIs DEF Stamped
      <4>5. ~(client.updateAt > z.updateAt) /\ client.events \subseteq z.events
        BY <1>1, <1>2, <4>3 DEF Rewinds
      <4>6. client'.updateAt > y.updateAt \/ ~(client'.events \subseteq y.events)
        BY <1>3, <4>2, <4>3, <4>4, <4>5
      <4> QED BY <1>3, <4>1, <4>6 DEF Repairing, Rewinds
    <3> QED BY <1>1, <2>5, <3>1 DEF Repairing
  <2>8. ToCome(vs)'
    BY <2>6, <2>7 DEF ToCome
  <2>9. ClientSide(vs)'
    BY <1>3, <1>6, <2>8 DEF ClientSide
  <2> QED BY <1>4, <2>9 DEF InStep
<1> QED BY <1>7, <1>8

(* A whole run that is the one in the database, with nothing on its way.   *)
LEMMA RepairFollows ==
    ASSUME SyncInv, lost # {}, lost' = {}, ReceiveRun \/ \E k \in DOMAIN fetches : ReceiveAnswer(k)
    PROVE  \E ws : InStep(ws)'
<1>1. PICK run : /\ client' = run /\ run = ClientRun(row)
                 /\ wire' = <<>> /\ fetches' = <<>> /\ \A h \in Handlers : hdl[h] = Idle
                 /\ UNCHANGED <<row, clock, hdl>>
  <2>1. CASE ReceiveRun
    <3>1. /\ wire # <<>> /\ client' = Head(wire).run /\ wire' = Tail(wire)
          /\ Repairs(Head(wire).run, Tail(wire) \o fetches)
          /\ UNCHANGED <<row, clock, hdl, fetches>>
      BY <2>1 DEF ReceiveRun, LostBySetting
    <3>2. Tail(wire) \o fetches = <<>> /\ Head(wire).run = ClientRun(row) /\ \A h \in Handlers : hdl[h] = Idle
      BY <3>1 DEF Repairs
    <3>3. Tail(wire) = <<>> /\ fetches = <<>>
      <4>1. PICK a, b : a = Tail(wire) /\ b = fetches
        OBVIOUS
      <4>2. a \in Seq(Messages) /\ b \in Seq({Asked} \cup Answers)
        BY <3>1, <4>1, HeadIs, AskedOrAnswered
      <4>3. Len(a \o b) = Len(a) + Len(b) /\ Len(a) \in Nat /\ Len(b) \in Nat
        BY <4>2
      <4>4. Len(a \o b) = 0
        BY <3>2, <4>1
      <4>5. Len(a) = 0 /\ Len(b) = 0
        BY <4>3, <4>4
      <4> QED BY <4>1, <4>2, <4>5
    <3> QED BY <3>1, <3>2, <3>3
  <2>2. ASSUME NEW k \in DOMAIN fetches, ReceiveAnswer(k)
        PROVE  /\ client' = ClientRun(row) /\ wire' = <<>> /\ fetches' = <<>>
               /\ \A h \in Handlers : hdl[h] = Idle
               /\ UNCHANGED <<row, clock, hdl>>
    <3>1. /\ client' = fetches[k].run /\ fetches' = RemoveAt(fetches, k)
          /\ Repairs(fetches[k].run, wire \o RemoveAt(fetches, k))
          /\ UNCHANGED <<row, clock, hdl, wire>>
      BY <2>2 DEF ReceiveAnswer, LostBySetting
    <3>2. wire \o RemoveAt(fetches, k) = <<>> /\ fetches[k].run = ClientRun(row)
          /\ \A h \in Handlers : hdl[h] = Idle
      BY <3>1 DEF Repairs
    <3>3. wire = <<>> /\ RemoveAt(fetches, k) = <<>>
      <4>1. PICK a, b : a = wire /\ b = RemoveAt(fetches, k)
        OBVIOUS
      <4>2. a \in Seq(Messages) /\ b \in Seq({Asked} \cup Answers)
        <5>1. fetches \in Seq({Asked} \cup Answers) /\ k \in 1 .. Len(fetches)
          BY AskedOrAnswered
        <5> QED BY <4>1, <5>1, WireIs, RemoveAtIs
      <4>3. Len(a \o b) = Len(a) + Len(b) /\ Len(a) \in Nat /\ Len(b) \in Nat
        BY <4>2
      <4>4. Len(a \o b) = 0
        BY <3>2, <4>1
      <4>5. Len(a) = 0 /\ Len(b) = 0
        BY <4>3, <4>4
      <4> QED BY <4>1, <4>2, <4>5
    <3> QED BY <3>1, <3>2, <3>3
  <2> QED BY <2>1, <2>2
<1>2. PICK v, ws : /\ v = [at |-> row.updateAt, lists |-> Shown(row.checklists), events |-> row.events]
                   /\ ws = <<v>>
  OBVIOUS
<1>3. v.at = row.updateAt /\ v.lists = Shown(row.checklists) /\ v.events = row.events
  BY <1>2
<1>4. v \in Version
  <2>1. row \in PlainRuns
    BY WireIs
  <2> QED BY <1>2, <2>1 DEF PlainRuns, Version
<1>5. ws \in Seq(Version) /\ Len(ws) = 1 /\ ws[1] = v /\ DOMAIN ws = {1}
  BY <1>2, <1>4
<1>6. ws \in Versions
  <2>1. Ordered(ws)
    BY <1>5 DEF Ordered
  <2> QED BY <1>5, <2>1 DEF Versions
<1>7. Shows(ws)'
  <2>1. Len(wire') = 0 /\ row.updateAt \in Nat
    BY <1>1, WireIs
  <2>2. 1 .. Len(wire') = {}
    BY <2>1
  <2> QED BY <1>1, <1>3, <1>5, <2>1, <2>2 DEF Shows
<1>8. Resting(ws)'
  <2>1. Len(wire') = 0
    BY <1>1
  <2> QED BY <1>1, <1>3, <1>5, <2>1 DEF Resting
<1>9. On(client', ws, clock')
  <2>1. PICK x : x = ClientRun(row)
    OBVIOUS
  <2>2. x.updateAt = row.updateAt /\ x.checklists = row.checklists /\ x.events = row.events
        /\ row.updateAt <= clock /\ row.updateAt \in Nat
    BY <2>1, WireIs, ClientRunIs
  <2>3. ShowsNth(x, ws, 1)
    BY <1>3, <1>5, <2>2 DEF ShowsNth
  <2> QED BY <1>1, <1>5, <2>1, <2>2, <2>3 DEF On
<1>10. client' # NoRun
  <2>1. "events" \in DOMAIN ClientRun(row) /\ "events" \notin DOMAIN NoRun
    BY DEF ClientRun, NoRun
  <2> QED BY <1>1, <2>1
<1>11. ToSet(fetches') = {}
  BY <1>1 DEF ToSet
<1>12. ClientSide(ws)'
  BY <1>9, <1>10, <1>11 DEF ClientSide, Answered
<1> QED BY <1>6, <1>7, <1>8, <1>12 DEF InStep, ServerSide

-----------------------------------------------------------------------------
(* The steps of the handlers.                                              *)

(* No two handlers are between their write and their message.              *)
Unsent(h) == hdl[h] # Idle /\ hdl[h].pc # "write"

OneSends == \A h, k \in Handlers : Unsent(h) /\ Unsent(k) => h = k

LEMMA ClientStays ==
    ASSUME SyncInv, NEW vs, ClientSide(vs), UNCHANGED <<fetches, client>>, NEW ws, NEW s, s = clock',
           \A x : Stamped(x) /\ On(x, vs, clock) => On(x, ws, s),
           \A x : Old(x, vs) => Old(x, ws)
    PROVE  ClientSide(ws)'
<1>1. ASSUME NEW f \in ToSet(fetches), f.answered
      PROVE  /\ On(f.run, vs, clock) => On(f.run, ws, s)
             /\ Old(f.run, vs) => Old(f.run, ws)
  BY <1>1, AnswerIs
<1>2. Answered(ws)'
  BY <1>1 DEF ClientSide, Answered
<1>3. ASSUME NEW f \in ToSet(fetches), Repairing(f, vs) PROVE Repairing(f, ws)'
  <2>1. CASE ~f.answered
    BY <2>1 DEF Repairing
  <2>2. CASE f.answered
    BY <1>1, <1>3, <2>2 DEF Repairing, Rewinds
  <2>3. f.answered \in BOOLEAN
    BY AnswerIs
  <2> QED BY <2>1, <2>2
<1>4. ToCome(vs) => ToCome(ws)'
  BY <1>3 DEF ToCome
<1>5. client # NoRun /\ On(client, vs, clock) => On(client, ws, s)
  BY WireIs
<1> QED BY <1>2, <1>4, <1>5 DEF ClientSide

LEMMA RequestFollows ==
    ASSUME SyncInv, NEW vs, InStep(vs), NEW h \in Handlers, Request(h)
    PROVE  \E ws : InStep(ws)'
<1>0. PICK O, N : \E event \in BOOLEAN, last \in {"publish", "reread"} :
        Shown(O) = Shown(row.checklists) /\ O \in Seq(Draft) /\ BeginFrom(h, O, N, event, last)
  BY DEF Request, Lists, Compared, Written, Drafted
<1>1. PICK event \in BOOLEAN, last \in {"publish", "reread"} :
        Shown(O) = Shown(row.checklists) /\ BeginFrom(h, O, N, event, last)
  BY <1>0
<1>2. /\ hdl[h] = Idle /\ clock' = Now /\ UNCHANGED <<row, wire, fetches, client>>
      /\ hdl' = [hdl EXCEPT ![h] =
                  [ pc       |-> "write",
                    original |-> [row EXCEPT !.checklists = O],
                    copy     |-> [row EXCEPT !.checklists = N],
                    event    |-> event,
                    last     |-> last ]]
  BY <1>1 DEF BeginFrom
<1>3. PICK b : b = [ pc       |-> "write",
                    original |-> [row EXCEPT !.checklists = O],
                    copy     |-> [row EXCEPT !.checklists = N],
                    event    |-> event,
                    last     |-> last ]
  OBVIOUS
<1>4. b.pc = "write" /\ b.original.checklists = O /\ b.original.events = row.events
  <2>1. row \in Copies
    BY RunsLast DEF SyncInv
  <2> QED BY <1>3, <2>1 DEF Copies
<1>5. hdl'[h] = b /\ \A k \in Handlers : k # h => hdl'[k] = hdl[k]
  <2>1. hdl' = [hdl EXCEPT ![h] = b]
    BY <1>2, <1>3
  <2>2. AllServe(hdl, clock)
    BY DEF SyncInv
  <2> QED BY <2>1, <2>2, HandlerIs
<1>6. vs \in Versions /\ Shows(vs) /\ row' = row /\ wire' = wire
  BY <1>2 DEF InStep, ServerSide
<1>7. \A k \in Handlers : (hdl[k] = Idle \/ Reads(hdl[k])) => hdl'[k] = Idle \/ Reads(hdl[k])'
  BY <1>1, <1>4, <1>5, <1>6 DEF Reads
<1>8. Shows(vs)'
  BY <1>6 DEF Shows
<1>9. Resting(vs) => Resting(vs)'
  BY <1>6, <1>7 DEF Resting
<1>10. ASSUME NEW k \in Handlers, Sending(k, vs) PROVE Sending(k, vs)'
  <2>1. k # h
    BY <1>2, <1>10 DEF Sending
  <2>2. hdl'[k] = hdl[k]
    BY <1>5, <2>1
  <2>3. Sends(hdl[k], vs)'
    BY <1>6, <1>10, <2>2 DEF Sending, Sends
  <2> QED BY <1>6, <1>7, <1>10, <2>2, <2>3 DEF Sending
<1>11. PICK s : s = clock'
  OBVIOUS
<1>12. \A x : Stamped(x) /\ On(x, vs, clock) => On(x, vs, s)
  <2>1. clock \in Nat /\ s = clock + 1
    BY <1>2, <1>11, WireIs DEF Now
  <2> QED BY <2>1 DEF On, Stamped
<1>13. ClientSide(vs)'
  BY <1>2, <1>11, <1>12, ClientStays DEF InStep
<1> QED BY <1>6, <1>8, <1>9, <1>10, <1>13 DEF InStep, ServerSide

(* The row after a write comes right after the one before it.              *)
LEMMA WrittenFollows ==
    ASSUME NEW u \in Nat, NEW t \in Nat, u <= t, NEW L, NEW N, Compared(L, N, u),
           NEW C, C = PopulateChecklistIDs(N, t + 1)
    PROVE  Follows(L, C)
<1>1. Drafted(N, t)
  <2>1. Drafted(N, u)
    BY DEF Compared
  <2> QED BY <2>1, LaterToo
<1>2. PICK s : s = t + 1
  OBVIOUS
<1>3. s \in Nat /\ t < s /\ C = PopulateChecklistIDs(N, s)
  BY <1>2
<1>4. /\ Written(C, s) /\ DOMAIN C = DOMAIN N
      /\ \A c \in DOMAIN N :
                /\ C[c].title = N[c].title /\ C[c].updateAt = N[c].updateAt
                /\ N[c].id # NoID => C[c].id = N[c].id
                /\ N[c].id = NoID => C[c].id[1] = s
                /\ IDs(N[c].items) \ {NoID} \subseteq IDs(C[c].items)
  BY <1>1, <1>3, Populated
<1>5. /\ L \in Seq(Draft) /\ \A id : HasID(L, id) <=> id \in IDs(L)
      /\ \A y \in ToSet(L) : /\ y \in Draft /\ y.id[1] <= u /\ y.id[1] \in Nat
                             /\ NoID \notin IDs(y.items)
  <2>1. Written(L, u)
    BY DEF Compared
  <2>2. L \in Seq(Draft)
    BY <2>1, RowIs
  <2> QED BY <2>1, <2>2, RowIs, IDsAre
<1>6. N \in Seq(Draft)
  BY <1>1 DEF Drafted
<1>7. ASSUME NEW c \in ToSet(C)
      PROVE  /\ c.title # 0
             /\ HasID(L, c.id) /\ RemovedOf(ByID(L, c.id).items, c.items) # {}
                  => c.updateAt # 0 /\ c.updateAt # ByID(L, c.id).updateAt
  <2>1. PICK k \in DOMAIN N : c = C[k]
    BY <1>4 DEF ToSet
  <2>2. N[k] \in Draft /\ N[k] \in ToSet(N)
    BY <1>6 DEF ToSet
  <2>3. c.title # 0
    BY <1>4, <2>1, <2>2 DEF Draft
  <2>4. ASSUME HasID(L, c.id), RemovedOf(ByID(L, c.id).items, c.items) # {}
        PROVE  c.updateAt # 0 /\ c.updateAt # ByID(L, c.id).updateAt
    <3>1. PICK y \in ToSet(L) : y = ByID(L, c.id) /\ y.id = c.id
      BY <1>5, <2>4, ByIDIs
    <3>2. N[k].id # NoID
      <4> SUFFICES ASSUME N[k].id = NoID PROVE FALSE
        OBVIOUS
      <4>1. y.id[1] = s
        BY <1>4, <2>1, <3>1
      <4> QED BY <1>3, <1>5, <4>1
    <3>3. N[k].id = y.id
      BY <1>4, <2>1, <3>1, <3>2
    <3>4. IDs(y.items) \subseteq IDs(N[k].items) \/ (N[k].updateAt = u /\ y.updateAt # u)
      BY <2>2, <3>3 DEF Compared
    <3>5. CASE IDs(y.items) \subseteq IDs(N[k].items)
      <4>1. IDs(y.items) \subseteq IDs(c.items)
        BY <1>4, <1>5, <2>1, <3>5
      <4> QED BY <2>4, <3>1, <4>1 DEF RemovedOf
    <3>6. CASE N[k].updateAt = u /\ y.updateAt # u
      <4>1. c.updateAt = u /\ u # 0
        BY <1>4, <2>1, <3>6 DEF Compared
      <4> QED BY <3>1, <3>6, <4>1
    <3> QED BY <3>4, <3>5, <3>6
  <2> QED BY <2>3, <2>4
<1> QED BY <1>7 DEF Follows

LEMMA WriteFollows ==
    ASSUME SyncInv, NEW vs, InStep(vs), OneSends', NEW h \in Handlers, WriteRun(h), lost' = {}
    PROVE  \E ws : InStep(ws)'
<1>1. PICK b, w, s : b = hdl[h] /\ w = WrittenCopy(h) /\ s = clock'
  OBVIOUS
<1>2. PICK n : n = [pc |-> IF b.event THEN "record" ELSE b.last, original |-> b.original,
                    copy |-> w, event |-> b.event, last |-> b.last]
  OBVIOUS
<1>3. /\ s = clock + 1 /\ Serving(b, clock) /\ b.pc = "write"
      /\ w.updateAt = s /\ w.events = b.copy.events
      /\ w.checklists = PopulateChecklistIDs(b.copy.checklists, s)
      /\ row' \in Runs(s) /\ row'.updateAt = s /\ row'.events = row.events
      /\ row'.checklists = w.checklists
      /\ hdl' = [hdl EXCEPT ![h] = n]
  BY <1>1, <1>2, WriteIs
<1>4. UNCHANGED <<wire, fetches, client>>
  BY DEF WriteRun
<1>5. b # Idle /\ b.event \in BOOLEAN /\ b.last \in {"publish", "reread"}
  BY <1>3, ServingIs
<1>6. \A k \in Handlers : k # h => hdl[k] = hdl'[k] /\ (hdl[k] = Idle \/ hdl[k].pc = "write")
  <2>1. AllServe(hdl, clock)
    BY DEF SyncInv
  <2>2. /\ [hdl EXCEPT ![h] = n][h] = n
        /\ \A k \in Handlers : k # h => [hdl EXCEPT ![h] = n][k] = hdl[k]
    BY <2>1, HandlerIs
  <2>3. n.pc \in {"record", "publish", "reread"}
    BY <1>2, <1>5
  <2>4. n # Idle /\ n.pc # "write"
    BY <2>3 DEF Idle
  <2>5. Unsent(h)'
    BY <1>3, <2>2, <2>4 DEF Unsent
  <2>6. \A k \in Handlers : k # h => ~Unsent(k)'
    BY <2>5 DEF OneSends
  <2> QED BY <1>3, <2>2, <2>6 DEF Unsent
<1>7. vs \in Versions /\ Shows(vs) /\ ClientSide(vs) /\ Resting(vs)
  <2>1. \A k \in Handlers : ~Sending(k, vs)
    <3> SUFFICES ASSUME NEW k \in Handlers, Sending(k, vs) PROVE FALSE
      OBVIOUS
    <3>1. hdl[k].pc = "write"
      BY <1>1, <1>3, <1>6 DEF Sending
    <3> QED BY <3>1 DEF Sending, Sends
  <2> QED BY <2>1 DEF InStep, ServerSide
<1>8. Shown(b.original.checklists) = Shown(row.checklists) /\ b.original.events \subseteq row.events
  <2>1. b.original.updateAt = row.updateAt
    BY <1>1 DEF WriteRun
  <2>2. Reads(b)
    BY <1>1, <1>5, <1>7 DEF Resting
  <2> QED BY <2>1, <2>2 DEF Reads
<1>9. clock \in Nat /\ s \in Nat /\ row.updateAt \in Nat /\ row.updateAt <= clock
      /\ Len(wire) \in Nat /\ row'.updateAt \in Nat
  BY <1>3, WireIs
<1>10. row' \in PlainRuns
  BY <1>3, <1>9, RunsLast
<1>11. PICK v : v = [at |-> s, lists |-> Shown(row'.checklists),
                     events |-> IF n.pc = "record" THEN row.events \cup {s} ELSE row.events]
  OBVIOUS
<1>12. /\ v.at = s /\ v.lists = Shown(row'.checklists)
       /\ v.events = IF n.pc = "record" THEN row.events \cup {s} ELSE row.events
  BY <1>11
<1>13. v \in Version
  <2>1. row.events \in SUBSET Nat
    BY WireIs DEF PlainRuns
  <2>2. row.events \cup {s} \in SUBSET Nat
    BY <1>9, <2>1
  <2>3. Shown(row'.checklists) \in {Shown(X) : X \in Outlines}
    BY <1>10 DEF PlainRuns
  <2>4. v.events \in SUBSET Nat
    BY <1>12, <2>1, <2>2
  <2> QED BY <1>9, <1>11, <2>1, <2>2, <2>3, <2>4 DEF Version
<1>14. PICK m \in Nat : m = Len(vs) /\ m > 0 /\ m = Len(wire) + 1
  BY <1>7, VersionsAre DEF Resting
<1>15. vs[m].lists = Shown(row.checklists) /\ vs[m].events = row.events /\ vs[m].at <= row.updateAt
       /\ vs[m].at \in Nat
  BY <1>7, <1>14, VersionsAre DEF Shows, Resting
<1>16. PICK ws : ws = Append(vs, v)
  OBVIOUS
<1>17. /\ ws \in Versions /\ Len(ws) = m + 1 /\ ws[m + 1] = v
       /\ \A k \in 1 .. m : ws[k] = vs[k]
       /\ \A x : Stamped(x) /\ On(x, vs, clock) => On(x, ws, s)
       /\ \A x : Old(x, vs) => Old(x, ws)
  <2>1. clock < v.at /\ v.at <= s /\ vs[Len(vs)].at < v.at /\ vs[Len(vs)].events \subseteq v.events
    BY <1>3, <1>9, <1>12, <1>14, <1>15
  <2>2. PICK t : t = clock
    OBVIOUS
  <2>3. /\ t \in Nat /\ s \in Nat /\ t < v.at /\ v.at <= s /\ vs \in Versions /\ v \in Version
        /\ vs[Len(vs)].at < v.at /\ vs[Len(vs)].events \subseteq v.events /\ ws = Append(vs, v)
    BY <1>7, <1>9, <1>13, <1>16, <2>1, <2>2
  <2>4. IsNext(ws, vs, v, t, s)
    BY <2>3, OnAppend
  <2>5. Len(ws) = m + 1 /\ ws[m + 1] = v /\ \A k \in 1 .. m : ws[k] = vs[k]
    BY <1>14, <2>4 DEF IsNext
  <2> QED BY <2>2, <2>4, <2>5 DEF IsNext
<1>18. Shows(ws)'
  <2>1. \A k \in 1 .. Len(wire) : Carries(wire[k], ws[k], ws[k + 1])
    <3> SUFFICES ASSUME NEW k \in 1 .. Len(wire) PROVE Carries(wire[k], ws[k], ws[k + 1])
      OBVIOUS
    <3>1. k \in 1 .. m /\ k + 1 \in 1 .. m
      BY <1>14
    <3>2. ws[k] = vs[k] /\ ws[k + 1] = vs[k + 1]
      BY <1>17, <3>1
    <3>3. Carries(wire[k], vs[k], vs[k + 1])
      BY <1>7 DEF Shows
    <3> QED BY <3>2, <3>3
  <2> QED BY <1>3, <1>4, <1>9, <1>12, <1>17, <2>1 DEF Shows
<1>19. hdl'[h] = n
  <2>1. AllServe(hdl, clock)
    BY DEF SyncInv
  <2>2. [hdl EXCEPT ![h] = n][h] = n
    BY <2>1, HandlerIs
  <2> QED BY <1>3, <2>2
<1>20. /\ n.pc = (IF b.event THEN "record" ELSE b.last) /\ n.original = b.original /\ n.copy = w
       /\ n.event = b.event /\ n.last = b.last
  BY <1>2
<1>21. Follows(b.original.checklists, row'.checklists)
  <2>1. PICK u \in Nat : u <= clock /\ Compared(b.original.checklists, b.copy.checklists, u)
    BY <1>3 DEF Serving
  <2>2. PICK L, N, C : L = b.original.checklists /\ N = b.copy.checklists /\ C = row'.checklists
    OBVIOUS
  <2>3. Compared(L, N, u) /\ C = PopulateChecklistIDs(N, clock + 1)
    BY <1>3, <2>1, <2>2 DEF Runs
  <2> QED BY <1>9, <2>1, <2>2, <2>3, WrittenFollows
<1>22. w.events = b.original.events /\ w.events \subseteq row.events
  BY <1>3, <1>8 DEF Serving
<1>23. Sends(n, ws)'
  <2>1. Len(wire') + 1 = m /\ Len(wire') + 2 = m + 1 /\ m \in 1 .. m
    BY <1>4, <1>14, <1>9
  <2>2. ws[m] = vs[m] /\ ws[m + 1] = v
    BY <1>17, <2>1
  <2>3. n.pc # "write" /\ (n.pc = "record" => n.event)
    BY <1>5, <1>20
  <2>4. /\ n.copy.checklists = row'.checklists /\ n.copy.updateAt = row'.updateAt
        /\ Shown(n.original.checklists) = Shown(row.checklists)
        /\ n.copy.events \subseteq row'.events
        /\ n.pc = "publish" /\ n.last = "reread" => FALSE
    BY <1>3, <1>5, <1>8, <1>20, <1>22
  <2>5. /\ ws[Len(wire') + 1].lists = Shown(n.original.checklists)
        /\ n.original.events \subseteq ws[Len(wire') + 1].events
        /\ row'.events = ws[Len(wire') + 1].events
    BY <1>3, <1>8, <1>15, <1>20, <2>1, <2>2, <2>4
  <2>6. ws[Len(wire') + 2].at = row'.updateAt
        /\ ws[Len(wire') + 2].events = IF n.pc = "record" THEN row'.events \cup {row'.updateAt} ELSE row'.events
    BY <1>3, <1>12, <2>1, <2>2
  <2>7. Follows(n.original.checklists, row'.checklists)
    BY <1>20, <1>21
  <2> QED BY <2>3, <2>4, <2>5, <2>6, <2>7 DEF Sends
<1>24. n # Idle
  <2>1. n.pc \in {"record", "publish", "reread"}
    BY <1>5, <1>20
  <2> QED BY <2>1 DEF Idle
<1>25. Sending(h, ws)'
  <2>1. Len(ws) = Len(wire') + 2
    BY <1>4, <1>9, <1>14, <1>17
  <2>2. ASSUME NEW k \in Handlers, k # h PROVE hdl'[k] = Idle \/ Reads(hdl[k])'
    <3>1. CASE hdl[k] = Idle
      BY <1>6, <2>2, <3>1
    <3>2. CASE hdl[k] # Idle
      <4>1. Serving(hdl[k], clock)
        BY <3>2, WireIs
      <4>2. hdl[k].original.updateAt <= clock /\ hdl[k].original.updateAt \in Nat
        BY <4>1 DEF Serving, Runs
      <4>3. hdl[k].original.updateAt # row'.updateAt
        BY <1>3, <1>9, <4>2
      <4> QED BY <1>6, <2>2, <3>2, <4>3 DEF Reads
    <3> QED BY <3>1, <3>2
  <2> QED BY <1>19, <1>23, <1>24, <2>1, <2>2 DEF Sending
<1>26. ClientSide(ws)'
  BY <1>1, <1>4, <1>7, <1>17, ClientStays
<1> QED BY <1>17, <1>18, <1>25, <1>26 DEF InStep, ServerSide

LEMMA SendingIs ==
    ASSUME SyncInv, NEW vs, InStep(vs), NEW h \in Handlers, NEW b, b = hdl[h],
           Serving(b, clock), b.pc # "write"
    PROVE  /\ Sending(h, vs) /\ Sends(b, vs)
           /\ Len(wire) \in Nat /\ Len(vs) = Len(wire) + 2 /\ vs \in Versions
           /\ \A k \in Handlers : k # h => hdl[k] = Idle \/ Reads(hdl[k])
<1>1. b # Idle
  BY ServingIs
<1>2. PICK k \in Handlers : Sending(k, vs)
  BY <1>1 DEF InStep, ServerSide, Resting, Reads
<1>3. k = h
  BY <1>1, <1>2 DEF Sending, Reads
<1> QED BY <1>2, <1>3, WireIs DEF InStep, Sending

LEMMA TimeStays ==
    ASSUME SyncInv, NEW vs, ClientSide(vs), UNCHANGED <<clock, fetches, client>>
    PROVE  ClientSide(vs)'
<1>1. PICK s : s = clock'
  OBVIOUS
<1> QED BY <1>1, ClientStays

LEMMA RecordFollows ==
    ASSUME SyncInv, NEW vs, InStep(vs), NEW h \in Handlers, RecordEvent(h)
    PROVE  \E ws : InStep(ws)'
<1>1. PICK b, n : b = hdl[h] /\ n = [b EXCEPT !.pc = b.last]
  OBVIOUS
<1>2. /\ Serving(b, clock) /\ b.pc = "record" /\ AllServe(hdl, clock)
      /\ row' = [row EXCEPT !.events = @ \cup {b.copy.updateAt}]
      /\ hdl' = [hdl EXCEPT ![h] = n]
      /\ UNCHANGED <<clock, wire, fetches, client>>
  BY <1>1, RecordHolds DEF RecordEvent, SyncInv
<1>3. /\ Sends(b, vs) /\ Len(wire) \in Nat /\ Len(vs) = Len(wire) + 2 /\ vs \in Versions
      /\ \A k \in Handlers : k # h => hdl[k] = Idle \/ Reads(hdl[k])
  BY <1>1, <1>2, SendingIs
<1>4. /\ n.pc = b.last /\ n.original = b.original /\ n.copy = b.copy /\ n.event = b.event /\ n.last = b.last
      /\ b.last \in {"publish", "reread"}
  BY <1>1, <1>2 DEF Serving
<1>5. /\ row'.checklists = row.checklists /\ row'.updateAt = row.updateAt
      /\ row'.events = row.events \cup {row.updateAt}
  <2>1. row \in PlainRuns /\ b.copy.updateAt = row.updateAt
    BY <1>3, WireIs DEF Sends
  <2> QED BY <1>2, <2>1 DEF PlainRuns
<1>6. hdl'[h] = n /\ \A k \in Handlers : k # h => hdl'[k] = hdl[k]
  <2>1. /\ [hdl EXCEPT ![h] = n][h] = n
        /\ \A k \in Handlers : k # h => [hdl EXCEPT ![h] = n][k] = hdl[k]
    BY <1>2, HandlerIs
  <2> QED BY <1>2, <2>1
<1>7. n # Idle
  BY <1>4 DEF Idle
<1>8. Sends(n, vs)'
  BY <1>2, <1>3, <1>4, <1>5 DEF Sends
<1>9. Sending(h, vs)'
  <2>1. \A k \in Handlers : k # h => hdl'[k] = Idle \/ Reads(hdl[k])'
    BY <1>3, <1>5, <1>6 DEF Reads
  <2> QED BY <1>2, <1>3, <1>6, <1>7, <1>8, <2>1 DEF Sending
<1>10. Shows(vs)'
  BY <1>2, <1>5 DEF Shows, InStep, ServerSide
<1>11. ClientSide(vs)'
  BY <1>2, TimeStays DEF InStep
<1> QED BY <1>3, <1>9, <1>10, <1>11 DEF InStep, ServerSide

LEMMA RereadFollows ==
    ASSUME SyncInv, NEW vs, InStep(vs), NEW h \in Handlers, RereadRun(h)
    PROVE  \E ws : InStep(ws)'
<1>1. PICK b, n : b = hdl[h] /\ n = [[b EXCEPT !.copy = row] EXCEPT !.pc = "publish"]
  OBVIOUS
<1>2. /\ Serving(b, clock) /\ b.pc = "reread" /\ AllServe(hdl, clock)
      /\ hdl' = [hdl EXCEPT ![h] = n]
      /\ UNCHANGED <<row, clock, wire, fetches, client>>
  BY <1>1, RereadHolds DEF RereadRun, SyncInv
<1>3. /\ Sends(b, vs) /\ Len(wire) \in Nat /\ Len(vs) = Len(wire) + 2 /\ vs \in Versions
      /\ \A k \in Handlers : k # h => hdl[k] = Idle \/ Reads(hdl[k])
  BY <1>1, <1>2, SendingIs
<1>4. /\ n.pc = "publish" /\ n.original = b.original /\ n.copy = row /\ n.event = b.event /\ n.last = b.last
  BY <1>1, <1>2 DEF Serving
<1>5. hdl'[h] = n /\ \A k \in Handlers : k # h => hdl'[k] = hdl[k]
  <2>1. /\ [hdl EXCEPT ![h] = n][h] = n
        /\ \A k \in Handlers : k # h => [hdl EXCEPT ![h] = n][k] = hdl[k]
    BY <1>2, HandlerIs
  <2> QED BY <1>2, <2>1
<1>6. n # Idle
  BY <1>4 DEF Idle
<1>7. Sends(n, vs)'
  BY <1>2, <1>3, <1>4 DEF Sends
<1>8. Sending(h, vs)'
  <2>1. \A k \in Handlers : k # h => hdl'[k] = Idle \/ Reads(hdl[k])'
    BY <1>2, <1>3, <1>5 DEF Reads
  <2> QED BY <1>2, <1>3, <1>5, <1>6, <1>7, <2>1 DEF Sending
<1>9. Shows(vs)'
  BY <1>2 DEF Shows, InStep, ServerSide
<1>10. ClientSide(vs)'
  BY <1>2, TimeStays DEF InStep
<1> QED BY <1>3, <1>8, <1>9, <1>10 DEF InStep, ServerSide

(* An update without changes is one between versions that show the same.   *)
LEMMA NothingNew ==
    ASSUME NEW p \in PlainRuns, NEW c \in PlainRuns, Follows(p.checklists, c.checklists),
           NothingChanged(DetectChangedFields(p, c))
    PROVE  Shown(p.checklists) = Shown(c.checklists) /\ c.events \subseteq p.events
<1>1. PICK u : u = DetectChangedFields(p, c)
  OBVIOUS
<1>2. PICK P, C, U, D : /\ P = p.checklists /\ C = c.checklists /\ U = GetChecklistUpdates(P, C)
                        /\ D = IDs(P) \ IDs(C)
  OBVIOUS
<1>3. u.deletes = D /\ u.checklists = U /\ u.events = c.events \ p.events
  BY <1>1, <1>2 DEF DetectChangedFields
<1>4. D = {} /\ U = <<>> /\ c.events \subseteq p.events
  BY <1>1, <1>3 DEF NothingChanged
<1>5. P \in Outlines /\ C \in Outlines /\ Follows(P, C)
  BY <1>2 DEF PlainRuns
<1>6. PICK Y : Y = ApplyChecklistUpdates(Without(P, D), U)
  OBVIOUS
<1>7. Views(Y) = Views(C)
  BY <1>2, <1>5, <1>6, OutlineReached
<1>8. Without(P, D) = P
  BY <1>4, <1>5, WithoutIs DEF Outlines
<1>9. AreUpdates(U)
  BY <1>2, <1>5, MessageIs
<1>10. ToSet(Y) = {OneAfter(x, U) : x \in ToSet(P)}
                    \cup {CreateNewChecklist(e) : e \in {d \in ToSet(U) : d.id \notin IDs(P)}}
  BY <1>5, <1>6, <1>8, <1>9, OutlineAfter
<1>11. ToSet(U) = {}
  BY <1>4 DEF ToSet
<1>12. \A x : OneAfter(x, U) = x
  BY <1>4 DEF OneAfter, HasID
<1>13. ToSet(Y) = ToSet(P)
  BY <1>10, <1>11, <1>12
<1>14. Views(Y) = Views(P)
  BY <1>13 DEF Views
<1>15. ChecklistsOrder(P) = ChecklistsOrder(C)
  <2>1. ChecklistsOrder(P) = ChecklistsOrder(C) \/ ChecklistsOrder(C) = <<>>
    BY <1>1, <1>2 DEF NothingChanged, DetectChangedFields
  <2>2. ASSUME ChecklistsOrder(C) = <<>> PROVE P = <<>> /\ C = <<>>
    <3>1. DOMAIN ChecklistsOrder(C) = DOMAIN C /\ DOMAIN <<>> = {}
      BY DEF ChecklistsOrder
    <3>2. IDs(C) = {} /\ DOMAIN C = {}
      BY <2>2, <3>1 DEF IDs
    <3>3. IDs(P) = {}
      BY <1>2, <1>4, <3>2
    <3>4. DOMAIN P = {}
      BY <3>3 DEF IDs
    <3> QED BY <1>5, <3>2, <3>4, EmptySeq DEF Outlines
  <2> QED BY <2>1, <2>2
<1>16. Shown(P) = Shown(C)
  BY <1>5, <1>7, <1>14, <1>15, ShownIs
<1> QED BY <1>2, <1>4, <1>16

LEMMA PublishFollows ==
    ASSUME SyncInv, NEW vs, InStep(vs), NEW h \in Handlers, PublishRun(h), lost' = {}
    PROVE  \E ws : InStep(ws)'
<1>1. PICK b, p, c : b = hdl[h] /\ p = b.original /\ c = b.copy
  OBVIOUS
<1>2. Serving(b, clock) /\ b.pc = "publish" /\ AllServe(hdl, clock) /\ clock \in Nat
  BY <1>1, PublishHolds DEF SyncInv
<1>3. /\ Sends(b, vs) /\ Len(wire) \in Nat /\ Len(vs) = Len(wire) + 2 /\ vs \in Versions
      /\ \A k \in Handlers : k # h => hdl[k] = Idle \/ Reads(hdl[k])
  BY <1>1, <1>2, SendingIs
<1>4. PICK u, m : /\ u = DetectChangedFields(p, c)
                  /\ m = IF incremental THEN [full |-> FALSE, update |-> u]
                                        ELSE [full |-> TRUE, run |-> ClientRun(c)]
  OBVIOUS
<1>5. /\ wire' = IF incremental /\ NothingChanged(u) THEN wire ELSE Append(wire, m)
      /\ ~(IF incremental THEN b.event /\ b.last = "publish" ELSE c.events # row.events)
      /\ ~(incremental /\ Reorders(p.checklists, c.checklists))
      /\ hdl' = [hdl EXCEPT ![h] = Idle]
      /\ UNCHANGED <<row, clock, fetches, client>>
  BY <1>1, <1>4 DEF PublishRun
<1>6. /\ p \in PlainRuns /\ c \in PlainRuns /\ b.last \in {"publish", "reread"} /\ b.event \in BOOLEAN
  BY <1>1, <1>2, RunsLast DEF Serving
<1>7. /\ c.checklists = row.checklists /\ c.updateAt = row.updateAt
      /\ Follows(p.checklists, c.checklists)
      /\ p.events \subseteq vs[Len(wire) + 1].events /\ vs[Len(wire) + 1].events \subseteq row.events
      /\ c.events \subseteq row.events /\ (~incremental => c.events = row.events)
  BY <1>1, <1>3, <1>5 DEF Sends
<1>8. PICK n \in Nat : n = Len(wire) + 1 /\ n > 0 /\ Len(vs) = n + 1
  <2>1. Len(wire) + 1 \in Nat /\ Len(wire) + 1 > 0 /\ Len(wire) + 2 = (Len(wire) + 1) + 1
    BY <1>3
  <2> QED BY <1>3, <2>1
<1>9. /\ vs[n].lists = Shown(p.checklists)
      /\ p.events \subseteq vs[n].events /\ vs[n].events \subseteq row.events
      /\ row.events \subseteq vs[n].events \cup c.events
      /\ vs[n + 1].lists = Shown(c.checklists) /\ vs[n + 1].events = row.events /\ vs[n + 1].at = c.updateAt
  <2>1. n = Len(wire) + 1 /\ n + 1 = Len(wire) + 2 /\ Len(vs) = n + 1
    BY <1>3, <1>8
  <2>2. vs[n + 1].lists = Shown(row.checklists)
    BY <2>1 DEF InStep, ServerSide, Shows
  <2>3. vs[n].lists = Shown(p.checklists) /\ vs[n + 1].at = c.updateAt /\ vs[n + 1].events = row.events
    BY <1>1, <1>2, <1>3, <1>7, <2>1 DEF Sends
  <2>4. row.events \subseteq vs[n].events \cup c.events
    <3>1. CASE ~incremental
      BY <1>7, <3>1
    <3>2. CASE incremental /\ b.last = "reread"
      BY <1>1, <1>2, <1>3, <3>2 DEF Sends
    <3>3. CASE incremental /\ ~b.event
      BY <1>3, <2>1, <3>3 DEF Sends
    <3> QED BY <1>5, <1>6, <3>1, <3>2, <3>3
  <2> QED BY <1>7, <2>1, <2>2, <2>3, <2>4
<1>10. \A k \in Handlers : hdl'[k] = Idle \/ Reads(hdl[k])'
  <2>1. /\ [hdl EXCEPT ![h] = Idle][h] = Idle
        /\ \A k \in Handlers : k # h => [hdl EXCEPT ![h] = Idle][k] = hdl[k]
    BY <1>2, HandlerIs
  <2> QED BY <1>3, <1>5, <2>1 DEF Reads
<1>11. \A k \in 1 .. Len(wire) : Carries(wire[k], vs[k], vs[k + 1])
  BY DEF InStep, ServerSide, Shows
<1>12. CASE wire' = wire /\ NothingChanged(u)
  <2>1. vs[n].lists = vs[n + 1].lists /\ vs[n].events = vs[n + 1].events
    <3>1. Shown(p.checklists) = Shown(c.checklists) /\ c.events \subseteq p.events
      BY <1>4, <1>6, <1>7, <1>12, NothingNew
    <3> QED BY <1>9, <3>1
  <2>2. PICK ws : ws = SubSeq(vs, 1, n)
    OBVIOUS
  <2>3. IsFront(ws, vs, n)
    BY <1>3, <1>8, <2>1, <2>2, OnFront
  <2>4. ws \in Versions /\ Len(ws) = n /\ \A k \in 1 .. n : ws[k] = vs[k]
    BY <2>3 DEF IsFront
  <2>5. ASSUME NEW k \in 1 .. Len(wire) PROVE Carries(wire[k], ws[k], ws[k + 1])
    <3>1. k \in 1 .. n /\ k + 1 \in 1 .. n
      BY <1>3, <1>8
    <3>2. ws[k] = vs[k] /\ ws[k + 1] = vs[k + 1]
      BY <2>4, <3>1
    <3> QED BY <1>11, <3>2
  <2>6. ws[n] = vs[n] /\ ws[n].at <= row.updateAt
    <3>1. n \in 1 .. n /\ n \in 1 .. Len(vs) /\ n + 1 \in 1 .. Len(vs) /\ n < n + 1
      BY <1>8
    <3>2. vs[n].at < vs[n + 1].at /\ vs[n].at \in Nat /\ vs[n + 1].at \in Nat
      BY <1>3, <3>1, VersionsAre
    <3>3. vs[n].at <= vs[n + 1].at
      BY <3>2
    <3> QED BY <1>7, <1>9, <2>4, <3>1, <3>3
  <2>7. ws[n].lists = Shown(row.checklists) /\ ws[n].events = row.events
    BY <1>7, <1>9, <2>1, <2>6
  <2>8. Shows(ws)'
    BY <1>5, <1>12, <2>4, <2>5, <2>6, <2>7 DEF Shows
  <2>9. Resting(ws)'
    BY <1>5, <1>8, <1>10, <1>12, <2>4, <2>7 DEF Resting
  <2>10. ClientSide(ws)'
    <3>1. PICK s : s = clock'
      OBVIOUS
    <3>2. s = clock /\ s \in Nat
      BY <1>2, <1>5, <3>1
    <3>3. /\ \A x : Stamped(x) /\ On(x, vs, clock) => On(x, ws, s)
          /\ \A x : Old(x, vs) => Old(x, ws)
      BY <1>2, <2>3, <3>2 DEF IsFront
    <3>4. ClientSide(vs)
      BY DEF InStep
    <3> QED BY <1>5, <3>1, <3>3, <3>4, ClientStays
  <2> QED BY <2>4, <2>8, <2>9, <2>10 DEF InStep, ServerSide
<1>13. CASE wire' = Append(wire, m)
  <2>1. PICK w : w = wire'
    OBVIOUS
  <2>2. Len(w) = n /\ w[n] = m /\ \A k \in 1 .. Len(wire) : w[k] = wire[k]
    <3>1. wire \in Seq(Messages)
      BY WireIs
    <3> QED BY <1>8, <1>13, <2>1, <3>1
  <2>3. Carries(m, vs[n], vs[n + 1])
    <3>1. \/ /\ m = [full |-> FALSE, update |-> DetectChangedFields(p, c)]
             /\ ~Reorders(p.checklists, c.checklists)
          \/ m = [full |-> TRUE, run |-> ClientRun(c)]
      BY <1>4, <1>5
    <3>2. c.events \subseteq vs[n + 1].events /\ vs[n + 1].events \subseteq vs[n].events \cup c.events
          /\ m = [full |-> TRUE, run |-> ClientRun(c)] => c.events = vs[n + 1].events
      BY <1>4, <1>7, <1>9
    <3> QED BY <1>6, <1>7, <1>9, <3>1, <3>2 DEF Carries
  <2>4. ASSUME NEW k \in 1 .. n PROVE Carries(w[k], vs[k], vs[k + 1])
    <3>1. CASE k = n
      BY <2>2, <2>3, <3>1
    <3>2. CASE k # n
      <4>1. k \in 1 .. Len(wire)
        BY <1>3, <1>8, <3>2
      <4> QED BY <1>11, <2>2, <4>1
    <3> QED BY <3>1, <3>2
  <2>5. vs[Len(vs)].lists = Shown(row.checklists) /\ vs[Len(vs)].events = row.events
        /\ vs[Len(vs)].at <= row.updateAt
    <3>1. row.updateAt \in Nat
      BY WireIs
    <3> QED BY <1>7, <1>8, <1>9, <3>1
  <2>6. Shows(vs)'
    BY <1>5, <2>1, <2>2, <2>4, <2>5 DEF Shows
  <2>7. Resting(vs)'
    BY <1>5, <1>8, <1>10, <2>1, <2>2, <2>5 DEF Resting
  <2>8. ClientSide(vs)'
    BY <1>5, TimeStays DEF InStep
  <2> QED BY <1>3, <2>6, <2>7, <2>8 DEF InStep, ServerSide
<1> QED BY <1>5, <1>12, <1>13

LEMMA InitFollows ==
    ASSUME Init
    PROVE  Following
<1>1. SyncInv
  BY InitHolds
<1>2. PICK v, ws : /\ v = [at |-> row.updateAt, lists |-> Shown(row.checklists), events |-> row.events]
                   /\ ws = <<v>>
  OBVIOUS
<1>3. v.at = row.updateAt /\ v.lists = Shown(row.checklists) /\ v.events = row.events
  BY <1>2
<1>4. v \in Version
  <2>1. row \in PlainRuns
    BY <1>1, WireIs
  <2> QED BY <1>2, <2>1 DEF PlainRuns, Version
<1>5. ws \in Seq(Version) /\ Len(ws) = 1 /\ ws[1] = v /\ DOMAIN ws = {1}
  BY <1>2, <1>4
<1>6. ws \in Versions
  <2>1. Ordered(ws)
    BY <1>5 DEF Ordered
  <2> QED BY <1>5, <2>1 DEF Versions
<1>7. /\ row = InitialRun /\ wire = <<>> /\ fetches = <<>>
      /\ \A h \in Handlers : hdl[h] = Idle
      /\ client = NoRun \/ client = ClientRun(row)
  BY DEF Init
<1>8. Shows(ws)
  <2>1. Len(wire) = 0 /\ row.updateAt \in Nat /\ 1 .. Len(wire) = {}
    BY <1>1, <1>7, WireIs
  <2> QED BY <1>3, <1>5, <2>1 DEF Shows
<1>9. Resting(ws)
  <2>1. Len(wire) = 0
    BY <1>7
  <2> QED BY <1>3, <1>5, <1>7, <2>1 DEF Resting
<1>10. On(ClientRun(row), ws, clock)
  <2>1. PICK x : x = ClientRun(row)
    OBVIOUS
  <2>2. x.updateAt = row.updateAt /\ x.checklists = row.checklists /\ x.events = row.events
        /\ row.updateAt <= clock /\ row.updateAt \in Nat
    BY <1>1, <2>1, WireIs, ClientRunIs
  <2>3. ShowsNth(x, ws, 1)
    BY <1>3, <1>5, <2>2 DEF ShowsNth
  <2> QED BY <1>5, <2>1, <2>2, <2>3 DEF On
<1>11. ToSet(fetches) = {}
  BY <1>7 DEF ToSet
<1>12. ClientSide(ws)
  BY <1>7, <1>10, <1>11 DEF ClientSide, Answered
<1> QED BY <1>6, <1>8, <1>9, <1>12 DEF Following, InStep, ServerSide

LEMMA StepFollows ==
    ASSUME SyncInv, OneSends', Following, [Next]_vars
    PROVE  Following'
<1> SUFFICES ASSUME lost' = {} PROVE \E ws : InStep(ws)'
  BY DEF Following
<1>1. CASE UNCHANGED vars
  <2>1. PICK vs : InStep(vs)
    BY <1>1 DEF Following, vars
  <2>2. UNCHANGED <<row, hdl, wire, clock, fetches, client>>
    BY <1>1 DEF vars
  <2>3. vs \in Versions /\ ServerSide(vs)' /\ ClientSide(vs)'
    BY <2>1, <2>2, ServerStays, TimeStays DEF InStep
  <2> QED BY <2>3 DEF InStep
<1>2. CASE Next /\ lost # {}
  <2>1. ReceiveRun \/ \E k \in DOMAIN fetches : ReceiveAnswer(k)
    <3>1. \A h \in Handlers : ~Serve(h)
      <4> SUFFICES ASSUME NEW h \in Handlers, Serve(h) PROVE lost' # {}
        OBVIOUS
      <4>1. \A O, N, e, l : BeginFrom(h, O, N, e, l) => lost' = lost
        BY DEF BeginFrom
      <4>2. Request(h) => lost' = lost
        BY <4>1 DEF Request
      <4>3. WriteRun(h) \/ RecordEvent(h) \/ RereadRun(h) \/ PublishRun(h) => lost \subseteq lost'
        BY DEF WriteRun, RecordEvent, RereadRun, PublishRun
      <4>4. clock \in Nat /\ Written(row.checklists, clock)
        BY RunsLast DEF SyncInv, Runs
      <4> QED BY <1>2, <4>2, <4>3, <4>4, ItemRequestIs, ListRequestIs, AddListIs DEF Serve
    <3>2. \A k \in DOMAIN fetches : AnswerFetch(k) \/ FetchFails(k) => lost \subseteq lost'
      BY DEF AnswerFetch, FetchFails
    <3>3. FetchMissingRun \/ ReceiveUpdate \/ OpenRun \/ Reconnect => lost \subseteq lost'
      BY DEF FetchMissingRun, ReceiveUpdate, OpenRun, Reconnect
    <3> QED BY <1>2, <3>1, <3>2, <3>3 DEF Next, Follow
  <2> QED BY <1>2, <2>1, RepairFollows
<1>3. CASE Next /\ lost = {}
  <2>1. PICK vs : InStep(vs)
    BY <1>3 DEF Following
  <2>2. ASSUME NEW h \in Handlers, Serve(h) PROVE \E ws : InStep(ws)'
    <3>1. clock \in Nat /\ Written(row.checklists, clock)
      BY RunsLast DEF SyncInv, Runs
    <3>2. Request(h) \/ WriteRun(h) \/ RecordEvent(h) \/ RereadRun(h) \/ PublishRun(h)
      BY <2>2, <3>1, ItemRequestIs, ListRequestIs, AddListIs DEF Serve
    <3> QED BY <2>1, <3>2, RequestFollows, WriteFollows, RecordFollows, RereadFollows, PublishFollows
  <2>3. ASSUME NEW k \in DOMAIN fetches, AnswerFetch(k) \/ ReceiveAnswer(k) \/ FetchFails(k)
        PROVE  \E ws : InStep(ws)'
    <3>1. ~FetchFails(k)
      BY DEF FetchFails
    <3> QED BY <2>1, <2>3, <3>1, AnswerFollows, ReceiveAnswerFollows
  <2> QED BY <1>3, <2>1, <2>2, <2>3, ReceiveRunFollows, FetchMissingFollows, ReceiveUpdateFollows,
             OpenFollows DEF Next, Follow
<1> QED BY <1>1, <1>2, <1>3

LEMMA FollowingShows ==
    ASSUME SyncInv, Following
    PROVE  InSync
<1> SUFFICES ASSUME Quiet, lost = {}, client # NoRun PROVE Seen(client) = Seen(row)
  BY DEF InSync
<1>1. PICK vs : InStep(vs)
  BY DEF Following
<1>2. wire = <<>> /\ fetches = <<>> /\ \A h \in Handlers : hdl[h] = Idle
  BY DEF Quiet
<1>3. vs \in Versions /\ Shows(vs) /\ Resting(vs)
  BY <1>1, <1>2 DEF InStep, ServerSide, Sending
<1>4. Len(vs) = 1
  <2>1. Len(wire) = 0
    BY <1>2
  <2> QED BY <1>3, <2>1 DEF Resting
<1>5. ~ToCome(vs)
  BY <1>2 DEF ToCome, ToSet
<1>6. On(client, vs, clock)
  BY <1>1, <1>5 DEF InStep, ClientSide
<1>7. PICK m \in 1 .. Len(vs) : ShowsNth(client, vs, m)
  BY <1>3, <1>6, VersionsAre DEF On
<1>8. m = 1
  BY <1>4
<1>9. Shown(client.checklists) = Shown(row.checklists) /\ client.events = row.events
  <2>1. ~(1 > 1)
    OBVIOUS
  <2>2. Shown(client.checklists) = vs[1].lists /\ client.events = vs[1].events
    BY <1>7, <1>8, <2>1 DEF ShowsNth
  <2>3. vs[1].lists = Shown(row.checklists)
    BY <1>3, <1>4 DEF Shows
  <2>4. vs[1].events = row.events
    BY <1>3, <1>4 DEF Resting
  <2> QED BY <2>2, <2>3, <2>4
<1> QED BY <1>9, SeenIs

(* While no two handlers are between their write and their message, a     *)
(* client that has missed nothing in one of the named ways shows the run   *)
(* in the database as soon as everything is quiet, however many requests   *)
(* read the run at once and whatever the reconnections and fetches were.   *)
THEOREM InSyncHolds == Spec /\ []OneSends => []InSync
<1>1. Init => Following
  BY InitFollows
<1>2. SyncInv /\ OneSends' /\ Following /\ [Next]_vars => Following'
  BY StepFollows
<1>3. SyncInv /\ Following => InSync
  BY FollowingShows
<1> QED BY <1>1, <1>2, <1>3, SyncInvHolds, PTL DEF Spec
=============================================================================
