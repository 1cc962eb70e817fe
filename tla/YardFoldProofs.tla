--------------------------- MODULE YardFoldProofs ---------------------------
(***************************************************************************)
(* Proofs about the three readers of the store and the page.  What they    *)
(* say is a function of the state, so an invariant needs no more of the    *)
(* state than Filed; the work is in what the sorts, the first record of a  *)
(* list and the winner of a subject are, for any number of files.          *)
(***************************************************************************)
EXTENDS Render, FunctionTheorems, FiniteSetTheorems, WellFoundedInduction, TLAPS

\* The store holds finitely many files of those there may be, and the clock, the names
\* and the shop's data are what the program may find.
Filed ==
    /\ store \subseteq Pool \cup Damaged /\ IsFiniteSet(store)
    /\ now \in 0..MaxTime
    /\ naming \in Namings /\ shop \in Shops

LEMMA InitFiled == Init => Filed
  BY FoldAssumption, FS_EmptySet DEF Init, Filed

LEMMA NextFiled ==
    ASSUME Filed, [Next]_vars
    PROVE  Filed'
<1>1. CASE Tick
  BY <1>1, FoldAssumption DEF Filed, Tick
<1>2. ASSUME NEW f \in Pool \cup Damaged, Arrive(f) PROVE Filed'
  BY <1>2, FS_AddElement DEF Filed, Arrive
<1>3. CASE UNCHANGED vars
  BY <1>3 DEF Filed, vars
<1>4. QED
  BY <1>1, <1>2, <1>3 DEF Next

LEMMA AlwaysFiled == Spec => []Filed
<1>1. Init => Filed
  BY InitFiled
<1>2. Filed /\ [Next]_vars => Filed'
  BY NextFiled
<1>3. QED
  BY <1>1, <1>2, PTL DEF Spec

-----------------------------------------------------------------------------
(* The order of the paths is a total order.                                *)

LEMMA PlaceOf ==
    ASSUME Filed, NEW f \in Pool \cup Damaged
    PROVE  Place(f) \in Nat /\ Place(f) \in DOMAIN naming /\ naming[Place(f)] = f
<1>1. naming \in Seq(Pool \cup Damaged) /\ ToSet(naming) = Pool \cup Damaged
  BY FoldAssumption DEF Filed
<1>2. \E i \in DOMAIN naming : naming[i] = f
  BY <1>1 DEF ToSet
<1>3. Place(f) \in DOMAIN naming /\ naming[Place(f)] = f
  BY <1>2, Zenon DEF Place
<1>4. DOMAIN naming \subseteq Nat
  BY <1>1
<1>5. QED
  BY <1>3, <1>4

LEMMA BeforeIsTotal ==
    ASSUME Filed, NEW f \in Pool \cup Damaged, NEW g \in Pool \cup Damaged
    PROVE  /\ Before(f, g) => ~Before(g, f)
           /\ f # g => Before(f, g) \/ Before(g, f)
           /\ \A h \in Pool \cup Damaged : Before(f, g) /\ Before(g, h) => Before(f, h)
<1>1. Place(f) \in Nat /\ Place(g) \in Nat /\ \A h \in Pool \cup Damaged : Place(h) \in Nat
  BY PlaceOf
<1>2. Place(f) = Place(g) => f = g
  BY PlaceOf
<1>3. QED
  BY <1>1, <1>2 DEF Before

-----------------------------------------------------------------------------
(* The sorts: where ahead is an order by some key, a sorted list holds     *)
(* every record once, each in the place its rank gives it.                 *)

ByKey(S, ahead) ==
    \A r, q, x \in S :
        /\ <<r, q>> \in ahead => <<q, r>> \notin ahead
        /\ <<r, q>> \in ahead => <<r, x>> \in ahead \/ <<x, q>> \in ahead

LEMMA PrecedesIsTotal ==
    ASSUME Filed, NEW S \in SUBSET (Pool \cup Damaged), NEW ahead, ByKey(S, ahead),
           NEW r \in S, NEW q \in S
    PROVE  /\ Precedes(r, q, ahead) => ~Precedes(q, r, ahead)
           /\ r # q => Precedes(r, q, ahead) \/ Precedes(q, r, ahead)
           /\ \A x \in S : Precedes(r, q, ahead) /\ Precedes(q, x, ahead) => Precedes(r, x, ahead)
<1>1. \A x, y \in S : /\ Before(x, y) => ~Before(y, x)
                      /\ x # y => Before(x, y) \/ Before(y, x)
                      /\ \A z \in S : Before(x, y) /\ Before(y, z) => Before(x, z)
  BY BeforeIsTotal
<1>2. QED
  BY <1>1 DEF ByKey, Precedes

LEMMA RankOrders ==
    ASSUME Filed, NEW S \in SUBSET (Pool \cup Damaged), IsFiniteSet(S), NEW ahead, ByKey(S, ahead),
           NEW r \in S
    PROVE  /\ Rank(r, S, ahead) \in 1..Cardinality(S)
           /\ \A q \in S : Precedes(q, r, ahead) => Rank(q, S, ahead) < Rank(r, S, ahead)
<1> DEFINE Earlier(x) == {q \in S : Precedes(q, x, ahead)}
<1>1. Cardinality(S) \in Nat
  BY FS_CardinalityType
<1>2. \A x \in S : IsFiniteSet(Earlier(x)) /\ Cardinality(Earlier(x)) \in Nat /\ x \notin Earlier(x)
  <2> TAKE x \in S
  <2>1. IsFiniteSet(Earlier(x))
    BY FS_Subset
  <2>2. x \notin Earlier(x)
    BY PrecedesIsTotal
  <2>3. QED
    BY <2>1, <2>2, FS_CardinalityType
<1>3. Cardinality(Earlier(r)) < Cardinality(S)
  <2>1. Cardinality(Earlier(r)) <= Cardinality(S) /\ (Cardinality(S) = Cardinality(Earlier(r)) => S = Earlier(r))
    BY FS_Subset
  <2>2. QED
    BY <1>1, <1>2, <2>1
<1>4. ASSUME NEW q \in S, Precedes(q, r, ahead)
      PROVE  Cardinality(Earlier(q)) < Cardinality(Earlier(r))
  <2>1. Earlier(q) \subseteq Earlier(r)
    BY <1>4, PrecedesIsTotal
  <2>2. q \in Earlier(r) /\ q \notin Earlier(q)
    BY <1>2, <1>4
  <2>3. Cardinality(Earlier(q)) <= Cardinality(Earlier(r))
        /\ (Cardinality(Earlier(r)) = Cardinality(Earlier(q)) => Earlier(r) = Earlier(q))
    BY <1>2, <2>1, FS_Subset
  <2>4. Cardinality(Earlier(q)) \in Nat /\ Cardinality(Earlier(r)) \in Nat
    BY <1>2
  <2>5. Earlier(r) # Earlier(q)
    BY <2>2
  <2> HIDE DEF Earlier
  <2>6. QED
    BY <2>3, <2>4, <2>5
<1>5. \A x \in S : Rank(x, S, ahead) = Cardinality(Earlier(x)) + 1
  BY DEF Rank
<1> HIDE DEF Earlier
<1>6. QED
  BY <1>1, <1>2, <1>3, <1>4, <1>5

LEMMA RanksAreDistinct ==
    ASSUME Filed, NEW S \in SUBSET (Pool \cup Damaged), IsFiniteSet(S), NEW ahead, ByKey(S, ahead),
           NEW r \in S, NEW q \in S, Rank(r, S, ahead) = Rank(q, S, ahead)
    PROVE  r = q
<1>1. Rank(r, S, ahead) \in Nat /\ Rank(q, S, ahead) \in Nat
  BY RankOrders, FS_CardinalityType
<1>2. SUFFICES ASSUME r # q PROVE FALSE
  OBVIOUS
<1>3. Precedes(r, q, ahead) \/ Precedes(q, r, ahead)
  BY <1>2, PrecedesIsTotal
<1>4. QED
  BY <1>1, <1>3, RankOrders

\* A sorted list is a permutation: every place has a record, and every record its place.
LEMMA SortIsPermutation ==
    ASSUME Filed, NEW S \in SUBSET (Pool \cup Damaged), IsFiniteSet(S), NEW ahead, ByKey(S, ahead)
    PROVE  /\ \A r \in S : Rank(r, S, ahead) \in DOMAIN StableSort(S, ahead)
                           /\ StableSort(S, ahead)[Rank(r, S, ahead)] = r
           /\ \A k \in DOMAIN StableSort(S, ahead) :
                  /\ StableSort(S, ahead)[k] \in S
                  /\ Rank(StableSort(S, ahead)[k], S, ahead) = k
<1> DEFINE n == Cardinality(S)
           place == [r \in S |-> Rank(r, S, ahead)]
<1>1. n \in Nat /\ IsFiniteSet(1..n) /\ Cardinality(1..n) = n
  BY FS_CardinalityType, FS_Interval
<1>2. place \in Injection(S, 1..n)
  <2>1. place \in [S -> 1..n]
    BY RankOrders
  <2>2. \A r, q \in S : place[r] = place[q] => r = q
    BY RanksAreDistinct
  <2>3. QED
    BY <2>1, <2>2, Fun_IsInj
<1>3. place \in Surjection(S, 1..n)
  BY <1>1, <1>2, FS_Injection
<1>4. \A k \in 1..n : \E r \in S : Rank(r, S, ahead) = k
  <2>1. \A k \in 1..n : \E r \in S : place[r] = k
    BY <1>3, Zenon DEF Surjection
  <2>2. QED
    BY <2>1
<1>5. \A k \in 1..n : StableSort(S, ahead)[k] = CHOOSE r \in S : Rank(r, S, ahead) = k
  BY DEF StableSort
<1>6. DOMAIN StableSort(S, ahead) = 1..n
  BY DEF StableSort
<1>7. ASSUME NEW k \in 1..n
      PROVE  StableSort(S, ahead)[k] \in S /\ Rank(StableSort(S, ahead)[k], S, ahead) = k
  BY <1>4, <1>5, Zenon
<1>8. ASSUME NEW r \in S
      PROVE  Rank(r, S, ahead) \in 1..n /\ StableSort(S, ahead)[Rank(r, S, ahead)] = r
  <2>1. Rank(r, S, ahead) \in 1..n
    BY RankOrders
  <2>2. QED
    BY <1>7, <2>1, RanksAreDistinct
<1>9. QED
  BY <1>6, <1>7, <1>8

\* Nothing is ahead of the head of a sorted list.
LEMMA SortHead ==
    ASSUME Filed, NEW S \in SUBSET (Pool \cup Damaged), IsFiniteSet(S), NEW ahead, ByKey(S, ahead), S # {}
    PROVE  /\ StableSort(S, ahead)[1] \in S
           /\ \A q \in S : <<q, StableSort(S, ahead)[1]>> \notin ahead
<1> DEFINE w == StableSort(S, ahead)[1]
<1>1. Cardinality(S) \in Nat /\ Cardinality(S) # 0
  BY FS_CardinalityType, FS_EmptySet
<1>2. 1 \in DOMAIN StableSort(S, ahead)
  BY <1>1 DEF StableSort
<1>3. w \in S /\ Rank(w, S, ahead) = 1
  BY <1>2, SortIsPermutation
<1>4. ASSUME NEW q \in S, <<q, w>> \in ahead PROVE FALSE
  <2>1. Precedes(q, w, ahead)
    BY <1>4 DEF Precedes
  <2>2. Rank(q, S, ahead) < Rank(w, S, ahead)
    BY <1>3, <2>1, RankOrders
  <2>3. Rank(q, S, ahead) \in 1..Cardinality(S)
    BY RankOrders
  <2>4. QED
    BY <1>1, <1>3, <2>2, <2>3
<1>5. QED
  BY <1>3, <1>4

-----------------------------------------------------------------------------
(* The winner of a subject.                                                *)

\* The records that speak of s, the two orders, and the record that wins.
Own(s) == OfSubject(Kept, s, DispatchKinds)
OwnIntents(s) == OfSubject(Kept, s, {"intent"})
AheadIn(S) == {p \in S \X S : Ahead(p[1], p[2])}
LaterIn(S) == {p \in S \X S : Later(p[1], p[2])}
Winner(s) == StableSort(Own(s), AheadIn(Own(s)))[1]
Manifested(s) == StableSort(OwnIntents(s), LaterIn(OwnIntents(s)))[1]

LEMMA KeptIsFinite ==
    ASSUME Filed
    PROVE  Kept \subseteq Pool /\ Kept \subseteq store /\ IsFiniteSet(Kept)
           /\ \A r \in Kept : r.at \in Nat /\ r.at <= now /\ now \in Nat /\ r.budget \in Int \cup {Nil}
<1>1. Kept \subseteq Pool /\ Kept \subseteq store
  BY DEF Filed, Kept, Survives
<1>2. IsFiniteSet(Kept)
  BY <1>1, FS_Subset DEF Filed
<1>3. \A r \in Kept : r.at <= now
  BY DEF Kept, Survives
<1>4. now \in Nat /\ \A r \in Pool : r.at \in Nat /\ r.budget \in Int \cup {Nil}
  BY FoldAssumption DEF Filed
<1>5. QED
  BY <1>1, <1>2, <1>3, <1>4

LEMMA PrecedenceIsNat == \A k : precedence(k) \in 1..3
  BY DEF precedence

LEMMA OrdersAreByKey ==
    ASSUME Filed, NEW S \in SUBSET Kept
    PROVE  /\ ByKey(S, AheadIn(S)) /\ ByKey(S, LaterIn(S))
           /\ S \in SUBSET (Pool \cup Damaged) /\ IsFiniteSet(S)
<1>1. \A r \in S : r.at \in Nat /\ precedence(r.kind) \in Nat
  BY KeptIsFinite, PrecedenceIsNat
<1>2. \A r, q \in S : (<<r, q>> \in AheadIn(S) <=> Ahead(r, q)) /\ (<<r, q>> \in LaterIn(S) <=> Later(r, q))
  BY DEF AheadIn, LaterIn
<1>3. ByKey(S, LaterIn(S))
  BY <1>1, <1>2 DEF ByKey, Later
<1>4. ByKey(S, AheadIn(S))
  BY <1>1, <1>2 DEF ByKey, Ahead, Later
<1>5. QED
  BY <1>3, <1>4, KeptIsFinite, FS_Subset

LEMMA DispatchedSubjects ==
    \A s : s \in DOMAIN Dispatches(Kept) <=> s # "" /\ Own(s) # {}
  BY DEF Dispatches, Subjects, Own, OfSubject

LEMMA WinnerIsAhead ==
    ASSUME Filed, NEW s, Own(s) # {}
    PROVE  /\ Winner(s) \in Own(s) /\ Winner(s) \in Kept
           /\ \A q \in Own(s) : ~Ahead(q, Winner(s))
<1>1. Own(s) \in SUBSET Kept
  BY DEF Own, OfSubject
<1>2. ByKey(Own(s), AheadIn(Own(s))) /\ Own(s) \in SUBSET (Pool \cup Damaged) /\ IsFiniteSet(Own(s))
  BY <1>1, OrdersAreByKey
<1>3. Winner(s) \in Own(s) /\ \A q \in Own(s) : <<q, Winner(s)>> \notin AheadIn(Own(s))
  BY <1>2, SortHead DEF Winner
<1>4. QED
  BY <1>1, <1>3 DEF AheadIn

LEMMA ManifestedIsNewest ==
    ASSUME Filed, NEW s, OwnIntents(s) # {}
    PROVE  /\ Manifested(s) \in OwnIntents(s) /\ Manifested(s) \in Kept
           /\ \A q \in OwnIntents(s) : q.at <= Manifested(s).at
<1>1. OwnIntents(s) \in SUBSET Kept
  BY DEF OwnIntents, OfSubject
<1>2. /\ ByKey(OwnIntents(s), LaterIn(OwnIntents(s)))
      /\ OwnIntents(s) \in SUBSET (Pool \cup Damaged) /\ IsFiniteSet(OwnIntents(s))
  BY <1>1, OrdersAreByKey
<1>3. /\ Manifested(s) \in OwnIntents(s)
      /\ \A q \in OwnIntents(s) : <<q, Manifested(s)>> \notin LaterIn(OwnIntents(s))
  BY <1>2, SortHead DEF Manifested
<1>4. \A q \in OwnIntents(s) : ~Later(q, Manifested(s))
  BY <1>3 DEF LaterIn
<1>5. QED
  BY <1>1, <1>3, <1>4, KeptIsFinite DEF Later

\* What the fold says of a subject, it says of its winner.
LEMMA EntryIsOfWinner ==
    ASSUME NEW s \in DOMAIN Dispatches(Kept)
    PROVE  LET d == Dispatches(Kept)[s]
               w == Winner(s)
           IN  /\ d.state = IF w.kind = "dispatched" /\ isOverdue(w) THEN "overdue" ELSE w.kind
               /\ d.at = AtString(w)
               /\ d.outcome = IF w.kind = "returned" THEN w.outcome ELSE Nil
               /\ d.elapsed = IF w.kind = "dispatched" THEN now - w.at ELSE Nil
               /\ d.budget = IF w.kind = "dispatched" THEN budgetOf(w) ELSE Nil
               /\ d.budgetSource = IF w.kind # "dispatched" \/ budgetOf(w) = Nil THEN Nil
                                   ELSE IF w.budget # Nil THEN "record" ELSE "default"
               /\ d.superseded = [k \in 1..(Cardinality(Own(s)) - 1) |->
                                     LET r == StableSort(Own(s), AheadIn(Own(s)))[k + 1]
                                     IN  [kind |-> r.kind, at |-> AtString(r)]]
<1>1. Dispatches(Kept)[s] = foldDispatchSubject(Own(s))
  BY DEF Dispatches, Own
<1>2. QED
  BY <1>1 DEF foldDispatchSubject, Winner, AheadIn

LEMMA IntentIsOfManifested ==
    ASSUME NEW s \in DOMAIN Out.intents
    PROVE  /\ Out.intents[s].at = AtString(Manifested(s))
           /\ Out.intents[s].superseded =
                  [k \in 1..(Cardinality(OwnIntents(s)) - 1) |->
                      AtString(StableSort(OwnIntents(s), LaterIn(OwnIntents(s)))[k + 1])]
<1>1. Out.intents[s] = foldIntentSubject(OwnIntents(s))
  BY DEF Out, Fold, Scan, OwnIntents
<1>2. QED
  BY <1>1 DEF foldIntentSubject, Manifested, LaterIn

LEMMA OutIs ==
    /\ Out.dispatches = Dispatches(Kept)
    /\ \A s : s \in DOMAIN Out.intents <=> s # "" /\ OwnIntents(s) # {}
    /\ Out.faults = emptyVocabFiles
    /\ Out.discoveries = IF emptyVocabFiles = {} THEN Discoveries(Kept) ELSE {}
  BY DEF Out, Fold, Scan, Subjects, OwnIntents, OfSubject

LEMMA OwnByKind ==
    /\ \A s : \A k \in DispatchKinds : InStore(s, k) = {r \in Own(s) : r.kind = k}
    /\ \A s : InStore(s, "intent") = OwnIntents(s)
    /\ \A s : \A r \in Own(s) : r.kind \in {"dispatched", "returned", "presumed-lost"} /\ r.subject = s
  BY DEF InStore, Own, OwnIntents, OfSubject, Kept, DispatchKinds

-----------------------------------------------------------------------------
(* The fold is what its reference says.                                    *)

LEMMA WinnerByStage ==
    ASSUME Filed, NEW s, Own(s) # {}
    PROVE  /\ InStore(s, "returned") # {} =>
                  Winner(s).kind = "returned" /\ Winner(s) \in Newest(InStore(s, "returned"))
           /\ InStore(s, "returned") = {} /\ InStore(s, "presumed-lost") # {} =>
                  Winner(s).kind = "presumed-lost"
           /\ InStore(s, "returned") = {} /\ InStore(s, "presumed-lost") = {} =>
                  Winner(s).kind = "dispatched" /\ Winner(s) \in Newest(InStore(s, "dispatched"))
<1> DEFINE w == Winner(s)
<1>1. w \in Own(s) /\ \A q \in Own(s) : ~Ahead(q, w)
  BY WinnerIsAhead
<1>2. \A q \in Own(s) : q.at \in Nat
  BY KeptIsFinite DEF Own, OfSubject
<1>3. w.kind \in {"dispatched", "returned", "presumed-lost"}
  BY <1>1, OwnByKind
<1> HIDE DEF w
<1>4. \A k \in DispatchKinds : InStore(s, k) = {r \in Own(s) : r.kind = k}
  BY OwnByKind
<1>5. \A q \in Own(s) : q.kind = w.kind => q.at <= w.at
  BY <1>1, <1>2, PrecedenceIsNat DEF Ahead, Later
<1>6. w \in Newest(InStore(s, w.kind))
  BY <1>1, <1>3, <1>4, <1>5 DEF Newest, DispatchKinds
<1>7. ASSUME NEW q \in Own(s) PROVE precedence(q.kind) <= precedence(w.kind)
  BY <1>1, PrecedenceIsNat DEF Ahead
<1>8. InStore(s, "returned") # {} => w.kind = "returned"
  BY <1>3, <1>4, <1>7 DEF precedence, DispatchKinds
<1>9. InStore(s, "presumed-lost") # {} => w.kind # "dispatched"
  BY <1>3, <1>4, <1>7 DEF precedence, DispatchKinds
<1>10. InStore(s, w.kind) # {}
  BY <1>6 DEF Newest
<1>11. QED
  BY <1>3, <1>6, <1>8, <1>9, <1>10 DEF w

LEMMA FiledIsReference ==
    ASSUME Filed
    PROVE  FoldIsReference
<1>1. SUFFICES ASSUME NEW s \in DOMAIN Dispatches(Kept)
               PROVE  LET d == Dispatches(Kept)[s]
                      IN  IF InStore(s, "returned") # {}
                          THEN /\ d.state = "returned"
                               /\ \E r \in Newest(InStore(s, "returned")) : d.outcome = r.outcome /\ d.at = AtString(r)
                          ELSE IF InStore(s, "presumed-lost") # {} THEN d.state = "presumed-lost"
                          ELSE \E r \in Newest(InStore(s, "dispatched")) :
                                  d.state = IF r.at + Patience(r) < now THEN "overdue" ELSE "dispatched"
  BY OutIs DEF FoldIsReference
<1> DEFINE d == Dispatches(Kept)[s]
           w == Winner(s)
<1>2. Own(s) # {}
  BY DispatchedSubjects
<1>3. /\ d.state = IF w.kind = "dispatched" /\ isOverdue(w) THEN "overdue" ELSE w.kind
      /\ d.at = AtString(w)
      /\ d.outcome = IF w.kind = "returned" THEN w.outcome ELSE Nil
  BY EntryIsOfWinner
<1>4. w \in Kept
  BY <1>2, WinnerIsAhead
<1>5. isOverdue(w) <=> w.at + Patience(w) < now
  <2>1. w.at \in Nat /\ now \in Nat /\ now <= MaxTime /\ w.budget \in Int \cup {Nil} /\ MaxTime \in Nat
    BY <1>4, KeptIsFinite, FoldAssumption DEF Filed
  <2>2. shop.defaults \in Int \cup {Unreadable, Keyless}
    BY FoldAssumption DEF Filed
  <2> HIDE DEF w
  <2>3. CASE w.budget # Nil
    BY <2>1, <2>3 DEF isOverdue, budgetOf, Patience
  <2>4. CASE w.budget = Nil /\ shop.defaults = Unreadable
    <3>1. LoadDefaultBudget = Nil
      BY <2>4, NilAssumption DEF LoadDefaultBudget
    <3>2. Patience(w) = MaxTime
      BY <2>4, NilAssumption DEF Patience
    <3>3. budgetOf(w) = Nil
      BY <2>4, <3>1 DEF budgetOf
    <3>4. QED
      BY <2>1, <3>2, <3>3 DEF isOverdue
  <2>5. CASE w.budget = Nil /\ shop.defaults = Keyless
    <3>1. LoadDefaultBudget = 0
      BY <2>5, NilAssumption DEF LoadDefaultBudget
    <3>2. Patience(w) = 0
      BY <2>5, NilAssumption DEF Patience
    <3>3. budgetOf(w) = 0
      BY <2>5, <3>1 DEF budgetOf
    <3>4. Nil # 0
      <4>1. 0 \in Int
        OBVIOUS
      <4>2. QED
        BY <4>1, NilAssumption, Zenon
    <3>5. QED
      BY <2>1, <3>2, <3>3, <3>4 DEF isOverdue
  <2>6. CASE w.budget = Nil /\ shop.defaults \in Int
    <3>1. shop.defaults # Unreadable /\ shop.defaults # Keyless /\ shop.defaults # Nil
      BY <2>6, NilAssumption
    <3>2. LoadDefaultBudget = shop.defaults
      BY <3>1 DEF LoadDefaultBudget
    <3>3. Patience(w) = shop.defaults
      BY <2>6, <3>1 DEF Patience
    <3>4. budgetOf(w) = shop.defaults
      BY <2>6, <3>2 DEF budgetOf
    <3>5. QED
      BY <2>1, <2>6, <3>1, <3>3, <3>4 DEF isOverdue
  <2>7. QED
    BY <2>2, <2>3, <2>4, <2>5, <2>6, Zenon
<1>6. /\ InStore(s, "returned") # {} => w.kind = "returned" /\ w \in Newest(InStore(s, "returned"))
      /\ InStore(s, "returned") = {} /\ InStore(s, "presumed-lost") # {} => w.kind = "presumed-lost"
      /\ InStore(s, "returned") = {} /\ InStore(s, "presumed-lost") = {} =>
             w.kind = "dispatched" /\ w \in Newest(InStore(s, "dispatched"))
  BY <1>2, WinnerByStage
<1> HIDE DEF d, w
<1>7. CASE InStore(s, "returned") # {}
  BY <1>3, <1>6, <1>7 DEF d
<1>8. CASE InStore(s, "returned") = {} /\ InStore(s, "presumed-lost") # {}
  BY <1>3, <1>6, <1>8 DEF d
<1>9. CASE InStore(s, "returned") = {} /\ InStore(s, "presumed-lost") = {}
  BY <1>3, <1>5, <1>6, <1>9 DEF d
<1>10. QED
  BY <1>7, <1>8, <1>9

\* The state of a subject is what a definition without an order of the records says, for
\* any number of files, records that tie, clocks and budgets.
THEOREM FoldMeetsReference == Spec => []FoldIsReference
<1>1. Filed => FoldIsReference
  BY FiledIsReference
<1>2. QED
  BY <1>1, AlwaysFiled, PTL

-----------------------------------------------------------------------------
(* No subject goes back.                                                   *)

\* What an entry says, said of some winner, so that it can be primed.
Winners ==
    /\ \A s : s \in DOMAIN Dispatches(Kept) <=> s # "" /\ Own(s) # {}
    /\ \A s \in DOMAIN Dispatches(Kept) : \E w \in Own(s) :
           /\ \A q \in Own(s) : ~Ahead(q, w)
           /\ Dispatches(Kept)[s].state = IF w.kind = "dispatched" /\ isOverdue(w) THEN "overdue" ELSE w.kind
           /\ Dispatches(Kept)[s].at = AtString(w)
           /\ w.kind = "dispatched" => Dispatches(Kept)[s].budget = budgetOf(w)

LEMMA FiledHasWinners == Filed => Winners
<1> SUFFICES ASSUME Filed PROVE Winners
  OBVIOUS
<1>1. ASSUME NEW s \in DOMAIN Dispatches(Kept)
      PROVE  \E w \in Own(s) :
                 /\ \A q \in Own(s) : ~Ahead(q, w)
                 /\ Dispatches(Kept)[s].state = IF w.kind = "dispatched" /\ isOverdue(w) THEN "overdue" ELSE w.kind
                 /\ Dispatches(Kept)[s].at = AtString(w)
                 /\ w.kind = "dispatched" => Dispatches(Kept)[s].budget = budgetOf(w)
  <2>1. Own(s) # {}
    BY DispatchedSubjects
  <2>2. Winner(s) \in Own(s) /\ \A q \in Own(s) : ~Ahead(q, Winner(s))
    BY <2>1, WinnerIsAhead
  <2>3. QED
    BY <2>2, EntryIsOfWinner
<1>2. QED
  BY <1>1, DispatchedSubjects DEF Winners

LEMMA StoreOnlyGrows ==
    ASSUME Filed, [Next]_vars
    PROVE  /\ Filed' /\ naming' = naming /\ shop' = shop
           /\ now \in Nat /\ now' \in Nat /\ now <= now'
           /\ store \subseteq store' /\ Kept \subseteq Kept'
           /\ \A s : Own(s) \subseteq Own(s)'
<1>1. naming' = naming /\ shop' = shop /\ store \subseteq store' /\ (now' = now \/ now' = now + 1)
  BY DEF Next, Tick, Arrive, vars
<1>2. now \in Nat
  BY FoldAssumption DEF Filed
<1>3. Filed'
  BY NextFiled
<1>4. ASSUME NEW r \in Kept PROVE r \in Kept'
  <2>1. r \in Pool /\ r.at \in Nat /\ r.at <= now
    BY KeptIsFinite
  <2>2. QED
    BY <1>1, <1>2, <2>1, FoldAssumption DEF Kept, Survives
<1>5. \A s : Own(s) \subseteq Own(s)'
  BY <1>4 DEF Own, OfSubject
<1>6. QED
  BY <1>1, <1>2, <1>3, <1>4, <1>5

NoneBack ==
    \A before \in {Dispatches(Kept)}, after \in {Dispatches(Kept)'} :
        \A s \in DOMAIN before :
            /\ s \in DOMAIN after
            /\ Stage(after[s].state) >= Stage(before[s].state)
            /\ before[s].state = "overdue" /\ after[s].state = "dispatched" =>
                   /\ after[s].at[1] >= before[s].at[1]
                   /\ after[s].at # before[s].at \/ after[s].budget # before[s].budget

LEMMA StepTakesNothingBack ==
    ASSUME Filed, [Next]_vars
    PROVE  NoneBack
<1> DEFINE before == Dispatches(Kept)
           after == Dispatches(Kept)'
<1>1. SUFFICES ASSUME NEW s \in DOMAIN before
               PROVE  /\ s \in DOMAIN after
                      /\ Stage(after[s].state) >= Stage(before[s].state)
                      /\ before[s].state = "overdue" /\ after[s].state = "dispatched" =>
                             /\ after[s].at[1] >= before[s].at[1]
                             /\ after[s].at # before[s].at \/ after[s].budget # before[s].budget
  BY DEF NoneBack
<1>2. Winners /\ Winners'
  <2>1. Filed'
    BY StoreOnlyGrows
  <2>2. Filed' => Winners'
    BY FiledHasWinners, PTL
  <2>3. QED
    BY <2>1, <2>2, FiledHasWinners
<1>3. s # "" /\ Own(s) # {} /\ Own(s) \subseteq Own(s)'
  BY <1>2, StoreOnlyGrows DEF Winners
<1>4. s \in DOMAIN after
  BY <1>2, <1>3 DEF Winners
<1>5. PICK w \in Own(s) :
          /\ \A q \in Own(s) : ~Ahead(q, w)
          /\ before[s].state = IF w.kind = "dispatched" /\ isOverdue(w) THEN "overdue" ELSE w.kind
          /\ before[s].at = AtString(w)
          /\ w.kind = "dispatched" => before[s].budget = budgetOf(w)
  BY <1>2 DEF Winners
<1>6. PICK v \in Own(s)' :
          /\ \A q \in Own(s)' : ~Ahead(q, v)
          /\ after[s].state = IF v.kind = "dispatched" /\ isOverdue(v)' THEN "overdue" ELSE v.kind
          /\ after[s].at = AtString(v)
          /\ v.kind = "dispatched" => after[s].budget = budgetOf(v)'
  BY <1>2, <1>4 DEF Winners
<1>7. /\ w.kind \in {"dispatched", "returned", "presumed-lost"} /\ w.at \in Nat
      /\ v.kind \in {"dispatched", "returned", "presumed-lost"} /\ v.at \in Nat
      /\ w.budget \in Int \cup {Nil}
  <2>1. w \in Pool /\ v \in Pool
    <3>1. Kept' \subseteq Pool
      <4>1. Filed' => (Kept \subseteq Pool)'
        BY KeptIsFinite, PTL
      <4>2. QED
        BY <4>1, StoreOnlyGrows
    <3>2. QED
      BY <3>1, KeptIsFinite DEF Own, OfSubject
  <2>2. w.kind \in DispatchKinds /\ v.kind \in DispatchKinds
    BY DEF Own, OfSubject
  <2>3. QED
    BY <2>1, <2>2, FoldAssumption DEF DispatchKinds
<1>8. ~Ahead(w, v)
  BY <1>3, <1>6
<1> HIDE DEF before, after
<1>9. precedence(w.kind) <= precedence(v.kind)
  BY <1>8, PrecedenceIsNat DEF Ahead
<1>10. Stage(before[s].state) = precedence(w.kind) /\ Stage(after[s].state) = precedence(v.kind)
  BY <1>5, <1>6, <1>7 DEF Stage, precedence
<1>11. ASSUME before[s].state = "overdue", after[s].state = "dispatched"
       PROVE  /\ after[s].at[1] >= before[s].at[1]
              /\ after[s].at # before[s].at \/ after[s].budget # before[s].budget
  <2>1. w.kind = "dispatched" /\ isOverdue(w) /\ v.kind = "dispatched" /\ ~isOverdue(v)'
    BY <1>5, <1>6, <1>7, <1>11
  <2>2. v.at >= w.at
    BY <1>7, <1>8, <2>1 DEF Ahead, Later
  <2>3. ASSUME v.at = w.at, budgetOf(v)' = budgetOf(w) PROVE FALSE
    <3>1. budgetOf(w) # Nil /\ now - w.at > budgetOf(w)
      BY <2>1 DEF isOverdue
    <3>2. ~(budgetOf(v)' # Nil /\ now' - v.at > budgetOf(v)')
      BY <2>1 DEF isOverdue
    <3>3. budgetOf(w) \in Int
      <4>1. shop.defaults \in Int \cup {Unreadable, Keyless}
        BY FoldAssumption DEF Filed
      <4>2. LoadDefaultBudget \in Int \cup {Nil}
        <5>1. CASE shop.defaults = Unreadable
          BY <5>1, NilAssumption DEF LoadDefaultBudget
        <5>2. CASE shop.defaults = Keyless
          <6>1. LoadDefaultBudget = 0
            BY <5>2, NilAssumption DEF LoadDefaultBudget
          <6>2. QED
            BY <6>1
        <5>3. CASE shop.defaults \in Int
          <6>1. shop.defaults # Unreadable /\ shop.defaults # Keyless
            BY <5>3, NilAssumption
          <6>2. QED
            BY <5>3, <6>1 DEF LoadDefaultBudget
        <5>4. QED
          BY <4>1, <5>1, <5>2, <5>3
      <4>3. QED
        BY <1>7, <3>1, <4>2 DEF budgetOf
    <3>4. now \in Nat /\ now' \in Nat /\ now <= now'
      BY StoreOnlyGrows
    <3>5. QED
      BY <1>7, <2>3, <3>1, <3>2, <3>3, <3>4
  <2>4. after[s].at = <<v.at, v.zone>> /\ before[s].at = <<w.at, w.zone>>
    BY <1>5, <1>6 DEF AtString
  <2>5. after[s].budget = budgetOf(v)' /\ before[s].budget = budgetOf(w)
    BY <1>5, <1>6, <2>1
  <2>6. QED
    BY <2>2, <2>3, <2>4, <2>5
<1>12. QED
  BY <1>4, <1>9, <1>10, <1>11, PrecedenceIsNat DEF before, after

\* A subject that has returned or was given up stays so, whatever files turn up and
\* however late, and an overdue mark goes only with another dispatch.
THEOREM FoldNeverGoesBack == Spec => NeverBack
<1>1. Filed /\ [Next]_vars => [NoneBack]_vars
  BY StepTakesNothingBack
<1>2. QED
  BY <1>1, AlwaysFiled, PTL DEF Spec, NeverBack, NoneBack

-----------------------------------------------------------------------------
(* The lanes.                                                              *)

\* The first of a list of records is one of them.
LEMMA FirstIsListed ==
    ASSUME Filed, NEW S \in SUBSET (Pool \cup Damaged), S # {}
    PROVE  FirstListed(S) \in S
<1> DEFINE places == {Place(r) : r \in S}
<1>1. \A r \in S : Place(r) \in Nat
  BY PlaceOf
<1>2. PICK p \in places : \A o \in places : ~(<<o, p>> \in OpToRel(<, Nat))
  <2>1. places \subseteq Nat /\ places # {}
    BY <1>1
  <2>2. IsWellFoundedOn(OpToRel(<, Nat), Nat)
    BY NatLessThanWellFounded
  <2> HIDE DEF places
  <2>3. QED
    BY <2>1, <2>2, WFMin
<1>3. PICK r \in S : p = Place(r)
  OBVIOUS
<1>4. ASSUME NEW q \in S \ {r} PROVE Before(r, q)
  <2>1. Place(q) \in places /\ Place(q) \in Nat /\ p \in Nat
    BY <1>1, <1>3
  <2>2. ~(Place(q) < p)
    BY <1>2, <2>1 DEF OpToRel
  <2>3. Place(q) # Place(r)
    BY <1>3, <1>4, PlaceOf
  <2>4. QED
    BY <1>3, <2>1, <2>2, <2>3 DEF Before
<1>5. \E x \in S : \A q \in S \ {x} : Before(x, q)
  BY <1>4
<1>6. QED
  BY <1>5, Zenon DEF FirstListed

\* What assemble.go makes of the fold, part by part.
Manifests == DOMAIN Out.intents \cap Trains
Raw(t) == findRawIntentRecord(Kept, t, Out.intents[t].at)
Chosen(t) == FirstListed(Raw(t))
Readable == {t \in Manifests : Chosen(t).members # Nil}
Members(t) == manifestPayload(Chosen(t))
Assigned == UNION {{m.subject : m \in ToSet(Members(t))} : t \in Readable}
Cars(t) == Train(Members(t), Dispatches(Kept)).cars
Gates == UNION {{c \in ToSet(Cars(t)) : c.role = "gate" /\ c.state = "returned"} : t \in Readable}
Claimed == [t \in Readable |-> Members(t)]

\* The record of a manifest is always found, and it is the newest, or one as new.
LEMMA ManifestIsFound ==
    ASSUME Filed, NEW t \in Manifests
    PROVE  /\ Raw(t) # {} /\ Chosen(t) \in Raw(t)
           /\ Chosen(t) \in Newest(InStore(t, "intent"))
<1>1. OwnIntents(t) # {}
  BY OutIs DEF Manifests
<1>2. Raw(t) = {r \in OwnIntents(t) : AtString(r) = AtString(Manifested(t))}
  BY IntentIsOfManifested DEF Raw, findRawIntentRecord, OwnIntents, Manifests
<1>3. Manifested(t) \in Raw(t)
  BY <1>1, <1>2, ManifestedIsNewest
<1>4. Raw(t) \in SUBSET (Pool \cup Damaged)
  BY <1>2, KeptIsFinite DEF OwnIntents, OfSubject
<1>5. Chosen(t) \in Raw(t)
  BY <1>3, <1>4, FirstIsListed DEF Chosen
<1>6. Chosen(t) \in OwnIntents(t) /\ Chosen(t).at = Manifested(t).at
  BY <1>2, <1>5 DEF AtString
<1>7. \A q \in OwnIntents(t) : q.at <= Chosen(t).at
  BY <1>1, <1>6, ManifestedIsNewest
<1>8. QED
  BY <1>3, <1>5, <1>6, <1>7, OwnByKind DEF Newest

LEMMA LanesAre ==
    ASSUME Filed
    PROVE  /\ Assemble(Kept, Out).trains = [t \in Readable |-> Train(Members(t), Dispatches(Kept))]
           /\ Assemble(Kept, Out).gates = {[subject |-> g.subject, outcome |-> g.outcome] : g \in Gates}
           /\ Assemble(Kept, Out).dispatches =
                  [s \in DOMAIN Dispatches(Kept) |-> [entry |-> Dispatches(Kept)[s], assigned |-> s \in Assigned]]
           /\ Assemble(Kept, Out).conditions =
                  {<<"subject-namespace-collision", s>> : s \in DOMAIN Dispatches(Kept) \cap DOMAIN Out.intents}
                  \cup {<<"manifest-payload-unreadable", t>> : t \in Manifests \ Readable}
                  \cup {<<"manifest-membership-collision", s>> :
                            s \in {m \in Assigned : Cardinality(Claims(Claimed, m)) > 1}}
<1> DEFINE manifests == DOMAIN Out.intents \cap Trains
           raw       == [t \in manifests |-> findRawIntentRecord(Kept, t, Out.intents[t].at)]
           found     == {t \in manifests : raw[t] # {}}
           readable  == {t \in found : FirstListed(raw[t]).members # Nil}
           members   == [t \in readable |-> manifestPayload(FirstListed(raw[t]))]
           assigned  == UNION {{m.subject : m \in ToSet(members[t])} : t \in readable}
           trains    == [t \in readable |-> Train(members[t], Out.dispatches)]
           gates     == UNION {{c \in ToSet(trains[t].cars) : c.role = "gate" /\ c.state = "returned"} : t \in readable}
<1>1. manifests = Manifests /\ \A t \in Manifests : raw[t] = Raw(t)
  BY DEF Manifests, Raw
<1>2. found = Manifests
  BY <1>1, ManifestIsFound
<1>3. readable = Readable
  BY <1>1, <1>2 DEF Readable, Chosen
<1>4. members = Claimed /\ \A t \in Readable : members[t] = Members(t)
  BY <1>1, <1>2, <1>3 DEF Members, Chosen, Claimed, Readable
<1>5. assigned = Assigned
  BY <1>3, <1>4 DEF Assigned
<1>6. /\ trains = [t \in Readable |-> Train(Members(t), Dispatches(Kept))]
      /\ \A t \in Readable : trains[t].cars = Cars(t)
  BY <1>3, <1>4, OutIs DEF Cars
<1>7. gates = Gates
  <2>1. gates = UNION {{c \in ToSet(trains[t].cars) : c.role = "gate" /\ c.state = "returned"} : t \in Readable}
    BY <1>3
  <2> HIDE DEF trains, gates
  <2>2. \A c : c \in gates <=> \E t \in Readable : c \in ToSet(trains[t].cars) /\ c.role = "gate" /\ c.state = "returned"
    BY <2>1
  <2>3. \A c : c \in Gates <=> \E t \in Readable : c \in ToSet(Cars(t)) /\ c.role = "gate" /\ c.state = "returned"
    BY DEF Gates
  <2>4. QED
    BY <1>6, <2>2, <2>3
<1>8. Assemble(Kept, Out) =
        [conditions |->
             {<<"subject-namespace-collision", s>> : s \in DOMAIN Out.dispatches \cap DOMAIN Out.intents}
             \cup {<<"manifest-record-not-found", t>> : t \in manifests \ found}
             \cup {<<"manifest-payload-unreadable", t>> : t \in found \ readable}
             \cup {<<"manifest-membership-collision", s>> :
                       s \in {m \in assigned : Cardinality(Claims(members, m)) > 1}},
         trains     |-> trains,
         gates      |-> {[subject |-> g.subject, outcome |-> g.outcome] : g \in gates},
         dispatches |-> [s \in DOMAIN Out.dispatches |->
                            [entry |-> Out.dispatches[s], assigned |-> s \in assigned]]]
  BY Zenon DEF Assemble
<1> HIDE DEF manifests, raw, found, readable, members, assigned, trains, gates
<1> DEFINE a == Assemble(Kept, Out)
<1>9. a.trains = [t \in Readable |-> Train(Members(t), Dispatches(Kept))]
  BY <1>6, <1>8
<1>10. a.gates = {[subject |-> g.subject, outcome |-> g.outcome] : g \in Gates}
  BY <1>7, <1>8
<1>11. a.dispatches = [s \in DOMAIN Dispatches(Kept) |-> [entry |-> Dispatches(Kept)[s], assigned |-> s \in Assigned]]
  <2>1. a.dispatches = [s \in DOMAIN Out.dispatches |-> [entry |-> Out.dispatches[s], assigned |-> s \in assigned]]
    BY <1>8
  <2>2. Out.dispatches = Dispatches(Kept)
    BY OutIs
  <2> HIDE DEF a
  <2>3. QED
    BY <1>5, <2>1, <2>2, Zenon
<1>12. a.conditions =
           {<<"subject-namespace-collision", s>> : s \in DOMAIN Dispatches(Kept) \cap DOMAIN Out.intents}
           \cup {<<"manifest-record-not-found", t>> : t \in {}}
           \cup {<<"manifest-payload-unreadable", t>> : t \in Manifests \ Readable}
           \cup {<<"manifest-membership-collision", s>> :
                     s \in {m \in Assigned : Cardinality(Claims(Claimed, m)) > 1}}
  <2>1. manifests \ found = {} /\ found \ readable = Manifests \ Readable
    BY <1>1, <1>2, <1>3
  <2>2. a.conditions =
           {<<"subject-namespace-collision", s>> : s \in DOMAIN Out.dispatches \cap DOMAIN Out.intents}
             \cup {<<"manifest-record-not-found", t>> : t \in manifests \ found}
             \cup {<<"manifest-payload-unreadable", t>> : t \in found \ readable}
             \cup {<<"manifest-membership-collision", s>> :
                       s \in {m \in assigned : Cardinality(Claims(members, m)) > 1}}
    BY <1>8
  <2>3. QED
    BY <1>4, <1>5, <2>1, <2>2, OutIs
<1>13. {<<"manifest-record-not-found", t>> : t \in {}} = {}
  OBVIOUS
<1> HIDE DEF a
<1>14. QED
  BY <1>9, <1>10, <1>11, <1>12, <1>13 DEF a

LEMMA BoardIs ==
    /\ Board.trains = Assemble(Kept, Out).trains
    /\ Board.gates = Assemble(Kept, Out).gates
    /\ Board.dispatches = Assemble(Kept, Out).dispatches
    /\ Board.conditions =
           Assemble(Kept, Out).conditions \cup StartConditions \cup Scan.conditions
           \cup {<<"fold-fault", fs>> : fs \in {Out.faults} \ {{}}}
           \cup {<<"discovery", d>> : d \in Out.discoveries}
<1>1. Scan.records = Kept /\ Out = Fold(Kept)
  BY DEF Scan, Out
<1>2. Board = [Assemble(Kept, Out) EXCEPT !.conditions =
                  @ \cup StartConditions \cup Scan.conditions
                    \cup {<<"fold-fault", fs>> : fs \in {Out.faults} \ {{}}}
                    \cup {<<"discovery", d>> : d \in Out.discoveries}]
  BY <1>1, Zenon DEF Board
<1>3. \E c, t, g, d : Assemble(Kept, Out) = [conditions |-> c, trains |-> t, gates |-> g, dispatches |-> d]
  BY Zenon DEF Assemble
<1> DEFINE more == StartConditions \cup Scan.conditions
                   \cup {<<"fold-fault", fs>> : fs \in {Out.faults} \ {{}}}
                   \cup {<<"discovery", d>> : d \in Out.discoveries}
<1>4. QED
  BY <1>2, <1>3

LEMMA BoardConditions ==
    ASSUME Filed
    PROVE  /\ \A f \in store : ~Survives(f) => <<"record-quarantined", f>> \in Board.conditions
           /\ \A f \in store : Survives(f) /\ f.extra => <<"record-unrecognised-fields", f>> \in Board.conditions
           /\ \A d \in Out.discoveries : <<"discovery", d>> \in Board.conditions
           /\ Out.faults # {} => <<"fold-fault", Out.faults>> \in Board.conditions
           /\ \A t : <<"manifest-payload-unreadable", t>> \in Board.conditions <=> t \in Manifests \ Readable
           /\ \A s : <<"manifest-membership-collision", s>> \in Board.conditions <=>
                         s \in Assigned /\ Cardinality(Claims(Claimed, s)) > 1
           /\ \A s \in DOMAIN Dispatches(Kept) \cap DOMAIN Out.intents :
                  <<"subject-namespace-collision", s>> \in Board.conditions
<1> DEFINE Fromlanes == Assemble(Kept, Out).conditions
           Fromfold  == {<<"fold-fault", fs>> : fs \in {Out.faults} \ {{}}} \cup {<<"discovery", d>> : d \in Out.discoveries}
<1>1. Board.conditions = Fromlanes \cup StartConditions \cup Scan.conditions \cup Fromfold
  BY BoardIs
<1>2. /\ \A f \in store : ~Survives(f) => <<"record-quarantined", f>> \in Scan.conditions
      /\ \A f \in store : Survives(f) /\ f.extra => <<"record-unrecognised-fields", f>> \in Scan.conditions
      /\ \A c \in Scan.conditions :
             c[1] \in {"record-quarantined", "record-unrecognised-fields", "all-records-quarantined"}
  BY DEF Scan
<1>3. \A c \in StartConditions : c[1] \in {"recognition-vocabulary-unreadable", "shop-default-budget-unreadable"}
  BY DEF StartConditions
<1>4. \A c \in Fromfold : c[1] \in {"fold-fault", "discovery"}
  OBVIOUS
<1>5. /\ \A d \in Out.discoveries : <<"discovery", d>> \in Fromfold
      /\ Out.faults # {} => <<"fold-fault", Out.faults>> \in Fromfold
  OBVIOUS
<1>6. Fromlanes = {<<"subject-namespace-collision", s>> : s \in DOMAIN Dispatches(Kept) \cap DOMAIN Out.intents}
                  \cup {<<"manifest-payload-unreadable", t>> : t \in Manifests \ Readable}
                  \cup {<<"manifest-membership-collision", s>> :
                            s \in {m \in Assigned : Cardinality(Claims(Claimed, m)) > 1}}
  BY LanesAre
<1> HIDE DEF Fromlanes, Fromfold
<1>7. \A t : <<"manifest-payload-unreadable", t>> \in Fromlanes <=> t \in Manifests \ Readable
  BY <1>6
<1>8. \A s : <<"manifest-membership-collision", s>> \in Fromlanes <=>
                 s \in Assigned /\ Cardinality(Claims(Claimed, s)) > 1
  BY <1>6
<1>11. \A s \in DOMAIN Dispatches(Kept) \cap DOMAIN Out.intents : <<"subject-namespace-collision", s>> \in Fromlanes
  BY <1>6
<1>9. /\ \A t : <<"manifest-payload-unreadable", t>> \in Board.conditions <=>
                    <<"manifest-payload-unreadable", t>> \in Fromlanes
      /\ \A s : <<"manifest-membership-collision", s>> \in Board.conditions <=>
                    <<"manifest-membership-collision", s>> \in Fromlanes
  BY <1>1, <1>2, <1>3, <1>4
<1>10. QED
  BY <1>1, <1>2, <1>5, <1>7, <1>8, <1>9, <1>11

LEMMA EntriesAre ==
    ASSUME Filed
    PROVE  /\ DOMAIN Board.dispatches = DOMAIN Dispatches(Kept)
           /\ \A s \in DOMAIN Dispatches(Kept) :
                  /\ Board.dispatches[s].entry = Dispatches(Kept)[s]
                  /\ Board.dispatches[s].assigned <=> s \in Assigned
<1> DEFINE D == Dispatches(Kept)
<1>1. Board.dispatches = [s \in DOMAIN D |-> [entry |-> D[s], assigned |-> s \in Assigned]]
  BY BoardIs, LanesAre
<1> HIDE DEF D
<1>2. DOMAIN Board.dispatches = DOMAIN D
  BY <1>1
<1>3. ASSUME NEW s \in DOMAIN D
      PROVE  Board.dispatches[s].entry = D[s] /\ (Board.dispatches[s].assigned <=> s \in Assigned)
  <2> DEFINE b == s \in Assigned
  <2>1. Board.dispatches[s] = [entry |-> D[s], assigned |-> b]
    BY <1>1, <1>3, Zenon
  <2> HIDE DEF b
  <2>2. Board.dispatches[s].entry = D[s] /\ Board.dispatches[s].assigned = b
    BY <2>1
  <2>3. QED
    BY <2>2, Zenon DEF b
<1>4. QED
  BY <1>2, <1>3 DEF D

\* A train's cars and its members not observed share the places of the manifest.
LEMMA TrainsAre ==
    ASSUME Filed
    PROVE  /\ DOMAIN Board.trains = Readable
           /\ \A t \in Readable :
                  /\ Board.trains[t].cars = Cars(t)
                  /\ DOMAIN Cars(t) = {i \in DOMAIN Members(t) : Members(t)[i].subject \in DOMAIN Dispatches(Kept)}
                  /\ \A i \in DOMAIN Cars(t) :
                         /\ Cars(t)[i].subject = Members(t)[i].subject /\ Cars(t)[i].role = Members(t)[i].role
                         /\ Cars(t)[i].state = Dispatches(Kept)[Members(t)[i].subject].state
                         /\ Cars(t)[i].outcome = Dispatches(Kept)[Members(t)[i].subject].outcome
                  /\ Board.trains[t].declaredNotObserved =
                         [i \in DOMAIN Members(t) \ DOMAIN Cars(t) |-> Members(t)[i]]
<1>1. Board.trains = [t \in Readable |-> Train(Members(t), Dispatches(Kept))]
  BY BoardIs, LanesAre
<1>2. DOMAIN Board.trains = Readable
  BY <1>1
<1>3. ASSUME NEW t \in Readable
      PROVE  /\ Board.trains[t].cars = Cars(t)
             /\ DOMAIN Cars(t) = {i \in DOMAIN Members(t) : Members(t)[i].subject \in DOMAIN Dispatches(Kept)}
             /\ \A i \in DOMAIN Cars(t) :
                    /\ Cars(t)[i].subject = Members(t)[i].subject /\ Cars(t)[i].role = Members(t)[i].role
                    /\ Cars(t)[i].state = Dispatches(Kept)[Members(t)[i].subject].state
                    /\ Cars(t)[i].outcome = Dispatches(Kept)[Members(t)[i].subject].outcome
             /\ Board.trains[t].declaredNotObserved =
                    [i \in DOMAIN Members(t) \ DOMAIN Cars(t) |-> Members(t)[i]]
  <2> DEFINE M == Members(t)
             D == Dispatches(Kept)
             seen == {i \in DOMAIN M : M[i].subject \in DOMAIN D}
  <2>1. Board.trains[t] = Train(M, D)
    BY <1>1
  <2>2. Cars(t) = Train(M, D).cars
    BY DEF Cars
  <2> HIDE DEF M, D
  <2>3. Train(M, D) = [cars |-> [i \in seen |-> Car(M[i], D)],
                       declaredNotObserved |-> [i \in DOMAIN M \ seen |-> M[i]]]
    BY Zenon DEF Train
  <2>4. Cars(t) = [i \in seen |-> Car(M[i], D)] /\ DOMAIN Cars(t) = seen
    BY <2>2, <2>3
  <2>5. \A i \in seen :
           /\ Cars(t)[i].subject = M[i].subject /\ Cars(t)[i].role = M[i].role
           /\ Cars(t)[i].state = D[M[i].subject].state /\ Cars(t)[i].outcome = D[M[i].subject].outcome
    BY <2>4 DEF Car
  <2>6. QED
    BY <2>1, <2>2, <2>3, <2>4, <2>5 DEF M, D
<1>4. QED
  BY <1>2, <1>3

-----------------------------------------------------------------------------
(* What the lanes are made of.                                             *)

LEMMA FiledHasType ==
    ASSUME Filed
    PROVE  TypeOK
<1>1. store \subseteq Pool \cup Damaged /\ now \in Nat
  BY FoldAssumption DEF Filed
<1>2. ASSUME NEW s \in DOMAIN Dispatches(Kept)
      PROVE  LET d == Dispatches(Kept)[s]
             IN  /\ d.state \in {"dispatched", "overdue", "presumed-lost", "returned"}
                 /\ d.outcome # Nil <=> d.state = "returned"
                 /\ d.budgetSource # Nil <=> d.budget # Nil
  <2> DEFINE d == Dispatches(Kept)[s]
             w == Winner(s)
  <2>1. w \in Pool /\ w.kind \in {"dispatched", "returned", "presumed-lost"}
    BY DispatchedSubjects, WinnerIsAhead, KeptIsFinite, OwnByKind
  <2>2. /\ d.state = IF w.kind = "dispatched" /\ isOverdue(w) THEN "overdue" ELSE w.kind
        /\ d.outcome = IF w.kind = "returned" THEN w.outcome ELSE Nil
        /\ d.budget = IF w.kind = "dispatched" THEN budgetOf(w) ELSE Nil
        /\ d.budgetSource = IF w.kind # "dispatched" \/ budgetOf(w) = Nil THEN Nil
                            ELSE IF w.budget # Nil THEN "record" ELSE "default"
    BY EntryIsOfWinner
  <2>3. w.kind = "returned" => w.outcome # Nil
    BY <2>1, FoldAssumption
  <2>4. "record" # Nil /\ "default" # Nil
    BY NilAssumption
  <2> HIDE DEF d, w
  <2>5. d.state \in {"dispatched", "overdue", "presumed-lost", "returned"} /\ (d.state = "returned" <=> w.kind = "returned")
    BY <2>1, <2>2
  <2>6. d.outcome # Nil <=> w.kind = "returned"
    BY <2>2, <2>3
  <2>7. d.budgetSource # Nil <=> d.budget # Nil
    BY <2>2, <2>4
  <2>8. QED
    BY <2>5, <2>6, <2>7 DEF d
<1>3. ASSUME NEW t \in DOMAIN Board.trains, NEW c \in ToSet(Board.trains[t].cars)
      PROVE  c.subject \in DOMAIN Board.dispatches
  <2>1. t \in Readable /\ c \in ToSet(Cars(t))
    BY TrainsAre
  <2>2. PICK i \in DOMAIN Cars(t) : c = Cars(t)[i]
    BY <2>1 DEF ToSet
  <2>3. QED
    BY <2>1, <2>2, TrainsAre, EntriesAre
<1>4. QED
  BY <1>1, <1>2, <1>3, EntriesAre DEF TypeOK

THEOREM FoldTypeCorrect == Spec => []TypeOK
<1>1. Filed => TypeOK
  BY FiledHasType
<1>2. QED
  BY <1>1, AlwaysFiled, PTL

-----------------------------------------------------------------------------
(* Nothing is hidden.                                                      *)

\* Every record but the head of a sorted list comes after it.
LEMMA OthersAreListed ==
    ASSUME Filed, NEW S \in SUBSET (Pool \cup Damaged), IsFiniteSet(S), NEW ahead, ByKey(S, ahead),
           NEW f \in S, f # StableSort(S, ahead)[1]
    PROVE  \E k \in 1..(Cardinality(S) - 1) : StableSort(S, ahead)[k + 1] = f
<1> DEFINE r == Rank(f, S, ahead)
<1>1. Cardinality(S) \in Nat /\ r \in 1..Cardinality(S) /\ StableSort(S, ahead)[r] = f
  BY SortIsPermutation, FS_CardinalityType DEF StableSort
<1> HIDE DEF r
<1>2. r # 1
  BY <1>1
<1>3. r - 1 \in 1..(Cardinality(S) - 1) /\ (r - 1) + 1 = r
  BY <1>1, <1>2
<1>4. QED
  BY <1>1, <1>3

LEMMA LenOfList ==
    ASSUME NEW n \in Nat, NEW f, DOMAIN f = 1..n, f = [i \in 1..n |-> f[i]]
    PROVE  Len(f) = n
<1>1. f \in [1..n -> {f[i] : i \in 1..n}]
  OBVIOUS
<1>2. f \in Seq({f[i] : i \in 1..n})
  BY <1>1
<1>3. QED
  BY <1>2

LEMMA NothingOfASubjectHidden ==
    ASSUME Filed, NEW s \in DOMAIN Dispatches(Kept), NEW f \in Own(s)
    PROVE  LET d == Board.dispatches[s].entry
           IN  /\ AtString(f) # d.at => [kind |-> f.kind, at |-> AtString(f)] \in ToSet(d.superseded)
               /\ Len(d.superseded) + 1 = Cardinality(UNION {InStore(s, k) : k \in DispatchKinds})
<1> DEFINE d == Dispatches(Kept)[s]
           O == Own(s)
           list == StableSort(O, AheadIn(O))
<1>1. f \in O /\ O \in SUBSET Kept
  BY DEF Own, OfSubject
<1>2. ByKey(O, AheadIn(O)) /\ O \in SUBSET (Pool \cup Damaged) /\ IsFiniteSet(O)
  BY <1>1, OrdersAreByKey
<1>3. Cardinality(O) \in Nat /\ Cardinality(O) # 0
  BY <1>1, <1>2, FS_CardinalityType, FS_EmptySet
<1>4. Board.dispatches[s].entry = d
  BY <1>1, EntriesAre
<1>5. d.at = AtString(list[1])
  BY <1>1, EntryIsOfWinner DEF Winner
<1>6. d.superseded = [k \in 1..(Cardinality(O) - 1) |-> [kind |-> list[k + 1].kind, at |-> AtString(list[k + 1])]]
  BY <1>1, EntryIsOfWinner
<1>kinds. \A r \in O : r.kind \in DispatchKinds
  BY DEF Own, OfSubject
<1>stores. \A k \in DispatchKinds : InStore(s, k) = {r \in O : r.kind = k}
  BY OwnByKind
<1> HIDE DEF d, list, O
<1>7. ASSUME AtString(f) # d.at PROVE [kind |-> f.kind, at |-> AtString(f)] \in ToSet(d.superseded)
  <2>1. f # list[1]
    BY <1>5, <1>7
  <2>2. PICK k \in 1..(Cardinality(O) - 1) : list[k + 1] = f
    BY <1>1, <1>2, <2>1, OthersAreListed DEF list
  <2>3. k \in DOMAIN d.superseded /\ d.superseded[k] = [kind |-> f.kind, at |-> AtString(f)]
    BY <1>6, <2>2
  <2>4. QED
    BY <2>3 DEF ToSet
<1>8. Len(d.superseded) = Cardinality(O) - 1
  <2>1. Cardinality(O) - 1 \in Nat
    BY <1>3
  <2>2. DOMAIN d.superseded = 1..(Cardinality(O) - 1)
        /\ d.superseded = [k \in 1..(Cardinality(O) - 1) |-> d.superseded[k]]
    BY <1>6
  <2>3. QED
    BY <2>1, <2>2, LenOfList
<1>9. UNION {InStore(s, k) : k \in DispatchKinds} = O
  <2>1. \A r : r \in UNION {InStore(s, k) : k \in DispatchKinds} <=> \E k \in DispatchKinds : r \in InStore(s, k)
    OBVIOUS
  <2>2. QED
    BY <1>kinds, <1>stores, <2>1
<1>10. Len(d.superseded) + 1 = Cardinality(UNION {InStore(s, k) : k \in DispatchKinds})
  <2>1. Len(d.superseded) + 1 = Cardinality(O)
    BY <1>3, <1>8
  <2>2. QED
    BY <1>9, <2>1, Zenon
<1>11. QED
  BY <1>4, <1>7, <1>10 DEF d

\* A kind that has no lane is a ruling, a discovery, or the vocabulary is a fault.
LEMMA NoKindHidden ==
    ASSUME Filed, NEW f \in Kept, f.kind # "", f.kind \notin DispatchKinds, f.kind # "intent"
    PROVE  \/ <<"discovery", <<"kind", f.kind>>>> \in Board.conditions
           \/ \E c \in Board.conditions : c[1] = "fold-fault"
           \/ f.kind = "ruling"
<1>1. CASE emptyVocabFiles # {}
  <2>1. <<"fold-fault", Out.faults>> \in Board.conditions
    BY <1>1, OutIs, BoardConditions
  <2>2. QED
    BY <2>1
<1>2. CASE emptyVocabFiles = {} /\ f.kind \in LoadVocab.kinds
  <2>1. LoadVocab.kinds \subseteq Kinds
    <3>1. shop.kinds \in {Unreadable} \cup SUBSET Kinds
      BY FoldAssumption DEF Filed
    <3>2. CASE Unreadable \in {shop.kinds, shop.outcomes}
      BY <3>2 DEF LoadVocab
    <3>3. CASE Unreadable \notin {shop.kinds, shop.outcomes}
      BY <3>1, <3>3 DEF LoadVocab
    <3>4. QED
      BY <3>2, <3>3
  <2>2. QED
    BY <1>2, <2>1 DEF Kinds, DispatchKinds
<1>3. CASE emptyVocabFiles = {} /\ f.kind \notin LoadVocab.kinds
  <2>1. <<"kind", f.kind>> \in Discoveries(Kept)
    BY <1>3 DEF Discoveries
  <2>2. QED
    BY <1>3, <2>1, OutIs, BoardConditions
<1>4. QED
  BY <1>1, <1>2, <1>3

-----------------------------------------------------------------------------
(* The lanes tell one story.                                               *)

\* A train is shown, or its manifest named as unreadable, when it has one.
LEMMA ManifestsAre ==
    ASSUME Filed, NEW t \in Trains
    PROVE  /\ t \in Manifests <=> InStore(t, "intent") # {}
           /\ t \in Readable => t \in Manifests /\ Chosen(t).members # Nil
           /\ t \in Manifests \ Readable => Chosen(t).members = Nil
           /\ t \in Manifests => Chosen(t) \in Newest(InStore(t, "intent"))
<1>1. t # ""
  BY NilAssumption
<1>2. t \in Manifests <=> InStore(t, "intent") # {}
  <2>1. InStore(t, "intent") = OwnIntents(t)
    BY OwnByKind
  <2>2. t \in DOMAIN Out.intents <=> t # "" /\ OwnIntents(t) # {}
    BY OutIs
  <2>3. QED
    BY <1>1, <2>1, <2>2 DEF Manifests
<1>3. QED
  BY <1>2, ManifestIsFound DEF Readable

LEMMA DarkIs ==
    ASSUME Filed
    PROVE  \A t : <<"manifest-payload-unreadable", t>> \in Board.conditions <=> t \in Manifests \ Readable
  BY BoardConditions

\* The members of a readable manifest are a train's cars and those not observed.
LEMMA MembersAre ==
    ASSUME Filed, NEW t \in Readable
    PROVE  LET cars == Board.trains[t].cars
               rest == Board.trains[t].declaredNotObserved
               Named(m) == <<m.subject, m.role>>
           IN  /\ {Named(m) : m \in {x \in ToSet(Chosen(t).members) : x.subject # ""}} =
                      {Named(c) : c \in ToSet(cars) \cup ToSet(rest)}
               /\ {m.subject : m \in ToSet(rest)} \cap DOMAIN Dispatches(Kept) = {}
<1> DEFINE all  == Chosen(t).members
           M    == Members(t)
           D    == Dispatches(Kept)
           cars == Board.trains[t].cars
           rest == Board.trains[t].declaredNotObserved
           Named(m) == <<m.subject, m.role>>
<1>1. DOMAIN M = {j \in DOMAIN all : all[j].subject # ""} /\ \A j \in DOMAIN M : M[j] = all[j]
  BY DEF Members, manifestPayload
<1>2. /\ DOMAIN cars = {i \in DOMAIN M : M[i].subject \in DOMAIN D}
      /\ \A i \in DOMAIN cars : Named(cars[i]) = Named(M[i])
      /\ rest = [i \in DOMAIN M \ DOMAIN cars |-> M[i]]
  <2>1. cars = Cars(t) /\ rest = [i \in DOMAIN M \ DOMAIN Cars(t) |-> M[i]]
    BY TrainsAre
  <2>2. DOMAIN Cars(t) = {i \in DOMAIN M : M[i].subject \in DOMAIN D}
    BY TrainsAre
  <2>3. \A i \in DOMAIN Cars(t) : Cars(t)[i].subject = M[i].subject /\ Cars(t)[i].role = M[i].role
    BY TrainsAre
  <2> HIDE DEF M, D, cars, rest
  <2>4. QED
    BY <2>1, <2>2, <2>3
<1>3. DOMAIN rest = DOMAIN M \ DOMAIN cars /\ \A i \in DOMAIN rest : rest[i] = M[i]
  BY <1>2
<1>4. {Named(m) : m \in {x \in ToSet(all) : x.subject # ""}} = {Named(M[i]) : i \in DOMAIN M}
  BY <1>1 DEF ToSet
<1>5. {Named(c) : c \in ToSet(cars) \cup ToSet(rest)} = {Named(M[i]) : i \in DOMAIN M}
  <2>1. \A x : x \in {Named(c) : c \in ToSet(cars) \cup ToSet(rest)} <=>
                  \/ \E i \in DOMAIN cars : x = Named(cars[i])
                  \/ \E i \in DOMAIN rest : x = Named(rest[i])
    BY DEF ToSet
  <2> HIDE DEF Named
  <2>2. \A x : x \in {Named(c) : c \in ToSet(cars) \cup ToSet(rest)} => x \in {Named(M[i]) : i \in DOMAIN M}
    <3>1. \A i \in DOMAIN cars : Named(cars[i]) \in {Named(M[j]) : j \in DOMAIN M}
      BY <1>2
    <3>2. \A i \in DOMAIN rest : Named(rest[i]) \in {Named(M[j]) : j \in DOMAIN M}
      BY <1>3
    <3>3. QED
      BY <2>1, <3>1, <3>2
  <2>3. \A i \in DOMAIN M : i \in DOMAIN cars \/ i \in DOMAIN rest
    BY <1>3
  <2>4. \A i \in DOMAIN M : Named(M[i]) \in {Named(c) : c \in ToSet(cars) \cup ToSet(rest)}
    BY <1>2, <1>3, <2>1, <2>3
  <2>5. QED
    BY <2>2, <2>4
<1>6. {m.subject : m \in ToSet(rest)} \cap DOMAIN D = {}
  BY <1>2, <1>3 DEF ToSet
<1>7. QED
  BY <1>4, <1>5, <1>6 DEF all, D, cars, rest

\* A manifest no other of its train is as new as is the one the train is made of.
LEMMA NoManifestHidden ==
    ASSUME Filed, NEW f \in Kept, f.subject \in Trains, Newest(InStore(f.subject, "intent")) = {f}
    PROVE  IsDrawn(f, Board)
<1> DEFINE t == f.subject
           cars == Board.trains[t].cars
           rest == Board.trains[t].declaredNotObserved
           Named(m) == <<m.subject, m.role>>
<1>1. InStore(t, "intent") # {}
  BY DEF Newest
<1>2. t \in Manifests /\ Chosen(t) = f
  BY <1>1, ManifestsAre
<1>3. CASE f.members = Nil
  <2>1. t \in Manifests \ Readable
    BY <1>2, <1>3 DEF Readable
  <2>2. <<"manifest-payload-unreadable", t>> \in Board.conditions
    BY <2>1, DarkIs
  <2>3. QED
    BY <1>3, <2>2 DEF IsDrawn
<1>4. CASE f.members # Nil
  <2>1. t \in Readable
    BY <1>2, <1>4 DEF Readable
  <2>2. t \in DOMAIN Board.trains
    BY <2>1, TrainsAre
  <2>3. {Named(m) : m \in {x \in ToSet(f.members) : x.subject # ""}} = {Named(c) : c \in ToSet(cars) \cup ToSet(rest)}
    BY <1>2, <2>1, MembersAre
  <2> HIDE DEF cars, rest
  <2>4. \A m \in {x \in ToSet(f.members) : x.subject # ""} : \E c \in ToSet(cars) \cup ToSet(rest) : Named(c) = Named(m)
    BY <2>3
  <2>5. QED
    BY <1>4, <2>2, <2>4, Zenon DEF IsDrawn, cars, rest
<1>5. QED
  BY <1>3, <1>4

LEMMA FiledHidesNothing ==
    ASSUME Filed
    PROVE  NothingHidden
<1>1. SUFFICES ASSUME NEW f \in store
               PROVE  CASE ~Survives(f) -> <<"record-quarantined", f>> \in Board.conditions
                        [] Survives(f) /\ "" \in {f.subject, f.kind} -> TRUE
                        [] OTHER ->
                              /\ f.extra => <<"record-unrecognised-fields", f>> \in Board.conditions
                              /\ CASE f.kind \in DispatchKinds ->
                                         LET d == Board.dispatches[f.subject].entry
                                         IN  /\ AtString(f) # d.at =>
                                                    [kind |-> f.kind, at |-> AtString(f)] \in ToSet(d.superseded)
                                             /\ Len(d.superseded) + 1 =
                                                    Cardinality(UNION {InStore(f.subject, k) : k \in DispatchKinds})
                                   [] f.kind = "intent" ->
                                         /\ f.subject \in DOMAIN Board.dispatches =>
                                                <<"subject-namespace-collision", f.subject>> \in Board.conditions
                                         /\ f.subject \in Trains /\ Newest(InStore(f.subject, "intent")) = {f} =>
                                                IsDrawn(f, Board)
                                   [] OTHER ->
                                         \/ <<"discovery", <<"kind", f.kind>>>> \in Board.conditions
                                         \/ \E c \in Board.conditions : c[1] = "fold-fault"
                                         \/ f.kind = "ruling"
  BY Zenon DEF NothingHidden
<1>2. CASE ~Survives(f)
  BY <1>2, BoardConditions
<1>3. CASE Survives(f) /\ "" \in {f.subject, f.kind}
  BY <1>3
<1>4. CASE Survives(f) /\ "" \notin {f.subject, f.kind}
  <2>1. f \in Kept /\ f.subject # "" /\ f.kind # ""
    BY <1>4 DEF Kept
  <2>2. f.extra => <<"record-unrecognised-fields", f>> \in Board.conditions
    BY <1>4, BoardConditions
  <2>3. CASE f.kind \in DispatchKinds
    <3>1. f.kind # "intent"
      BY <2>3 DEF DispatchKinds
    <3>2. f \in Own(f.subject) /\ f.subject \in DOMAIN Dispatches(Kept)
      BY <2>1, <2>3, DispatchedSubjects DEF Own, OfSubject
    <3>3. QED
      BY <1>4, <2>1, <2>2, <2>3, <3>1, <3>2, NothingOfASubjectHidden
  <2>4. CASE f.kind = "intent"
    <3>1. f.kind \notin DispatchKinds
      BY <2>4 DEF DispatchKinds
    <3>2. f.subject \in DOMAIN Out.intents
      BY <2>1, <2>4, OutIs DEF OwnIntents, OfSubject
    <3>3. f.subject \in DOMAIN Board.dispatches => <<"subject-namespace-collision", f.subject>> \in Board.conditions
      BY <3>2, EntriesAre, BoardConditions
    <3>4. f.subject \in Trains /\ Newest(InStore(f.subject, "intent")) = {f} => IsDrawn(f, Board)
      BY <2>1, NoManifestHidden
    <3>5. QED
      BY <1>4, <2>1, <2>2, <2>4, <3>1, <3>3, <3>4
  <2>5. CASE f.kind \notin DispatchKinds /\ f.kind # "intent"
    BY <1>4, <2>1, <2>2, <2>5, NoKindHidden
  <2>6. QED
    BY <2>3, <2>4, <2>5
<1>5. QED
  BY <1>2, <1>3, <1>4

\* Law 2, for any store: every file the scan put aside, every dispatch record, every
\* newest manifest of a train and every kind the shop does not know is on a lane, among
\* what was superseded, or named on the board.
THEOREM StoreIsNotHidden == Spec => []NothingHidden
<1>1. Filed => NothingHidden
  BY FiledHidesNothing
<1>2. QED
  BY <1>1, AlwaysFiled, PTL

\* The places where a dispatch is a car are those where manifests claim it.
LEMMA ClaimsAreShown ==
    ASSUME Filed, NEW s \in DOMAIN Dispatches(Kept)
    PROVE  /\ {c \in UNION {{t} \X DOMAIN Board.trains[t].cars : t \in DOMAIN Board.trains} :
                   Board.trains[c[1]].cars[c[2]].subject = s} = Claims(Claimed, s)
           /\ s \in Assigned <=> Claims(Claimed, s) # {}
<1> DEFINE D == Dispatches(Kept)
           shown == {c \in UNION {{t} \X DOMAIN Board.trains[t].cars : t \in DOMAIN Board.trains} :
                        Board.trains[c[1]].cars[c[2]].subject = s}
<1>1. /\ DOMAIN Board.trains = Readable
      /\ \A t \in Readable :
             /\ DOMAIN Board.trains[t].cars = {i \in DOMAIN Members(t) : Members(t)[i].subject \in DOMAIN D}
             /\ \A i \in DOMAIN Board.trains[t].cars : Board.trains[t].cars[i].subject = Members(t)[i].subject
  <2>1. DOMAIN Board.trains = Readable /\ \A t \in Readable : Board.trains[t].cars = Cars(t)
    BY TrainsAre
  <2>2. \A t \in Readable :
            /\ DOMAIN Cars(t) = {i \in DOMAIN Members(t) : Members(t)[i].subject \in DOMAIN D}
            /\ \A i \in DOMAIN Cars(t) : Cars(t)[i].subject = Members(t)[i].subject
    BY TrainsAre
  <2> HIDE DEF D
  <2>3. QED
    BY <2>1, <2>2
<1>2. DOMAIN Claimed = Readable /\ \A t \in Readable : Claimed[t] = Members(t)
  BY DEF Claimed
<1>3. \A c : c \in Claims(Claimed, s) <=>
               \E t \in Readable : \E i \in DOMAIN Members(t) : c = <<t, i>> /\ Members(t)[i].subject = s
  BY <1>2 DEF Claims
<1> HIDE DEF D
<1>4. \A c : c \in shown <=>
               \E t \in Readable : \E i \in DOMAIN Board.trains[t].cars :
                   c = <<t, i>> /\ Board.trains[t].cars[i].subject = s
  BY <1>1
<1> HIDE DEF shown
<1>5. shown = Claims(Claimed, s)
  <2>1. s \in DOMAIN D
    BY DEF D
  <2>2. \A t \in Readable : \A i : (i \in DOMAIN Board.trains[t].cars /\ Board.trains[t].cars[i].subject = s)
                                   <=> (i \in DOMAIN Members(t) /\ Members(t)[i].subject = s)
    BY <1>1, <2>1
  <2>3. \A c : c \in shown <=> c \in Claims(Claimed, s)
    BY <1>3, <1>4, <2>2
  <2>4. QED
    <3>1. \A c : c \in Claims(Claimed, s) => c \in shown
      BY <2>3
    <3>2. \A c : c \in shown => c \in Claims(Claimed, s)
      BY <2>3
    <3> DEFINE C == Claims(Claimed, s)
    <3> HIDE DEF C
    <3>3. shown = C
      BY <3>1, <3>2 DEF C
    <3>4. QED
      BY <3>3 DEF C
<1>6. s \in Assigned <=> \E t \in Readable : \E i \in DOMAIN Members(t) : Members(t)[i].subject = s
  BY DEF Assigned, ToSet
<1>7. QED
  BY <1>3, <1>5, <1>6 DEF shown

\* A gate shows what its dispatch says.
LEMMA GatesAre ==
    ASSUME Filed
    PROVE  LET trains == Board.trains
               Gating(t) == {m.subject : m \in {x \in ToSet(trains[t].cars) : x.role = "gate"}}
           IN  Board.gates =
                  {[subject |-> s, outcome |-> Board.dispatches[s].entry.outcome] :
                       s \in {g \in UNION {Gating(t) : t \in DOMAIN trains} : InStore(g, "returned") # {}}}
<1> DEFINE D == Dispatches(Kept)
           trains == Board.trains
           Gating(t) == {m.subject : m \in {x \in ToSet(trains[t].cars) : x.role = "gate"}}
           gating == {g \in UNION {Gating(t) : t \in DOMAIN trains} : InStore(g, "returned") # {}}
           said == {[subject |-> s, outcome |-> Board.dispatches[s].entry.outcome] : s \in gating}
<1>1. /\ DOMAIN trains = Readable
      /\ \A t \in Readable : /\ trains[t].cars = Cars(t)
                             /\ \A i \in DOMAIN Cars(t) :
                                    /\ Cars(t)[i].subject \in DOMAIN D
                                    /\ Cars(t)[i].state = D[Cars(t)[i].subject].state
                                    /\ Cars(t)[i].outcome = D[Cars(t)[i].subject].outcome
  <2>1. \A t \in Readable : \A i \in DOMAIN Cars(t) :
            /\ Cars(t)[i].subject = Members(t)[i].subject /\ Members(t)[i].subject \in DOMAIN D
            /\ Cars(t)[i].state = D[Members(t)[i].subject].state
            /\ Cars(t)[i].outcome = D[Members(t)[i].subject].outcome
    BY TrainsAre
  <2>2. DOMAIN trains = Readable /\ \A t \in Readable : trains[t].cars = Cars(t)
    BY TrainsAre
  <2> HIDE DEF D, trains
  <2>3. QED
    BY <2>1, <2>2
<1>2. \A t \in Readable : \A c \in ToSet(Cars(t)) :
          c.subject \in DOMAIN D /\ c.state = D[c.subject].state /\ c.outcome = D[c.subject].outcome
  BY <1>1 DEF ToSet
<1>3. \A s \in DOMAIN D : D[s].state = "returned" <=> InStore(s, "returned") # {}
  <2>1. FoldIsReference
    BY FiledIsReference
  <2>2. ASSUME NEW s \in DOMAIN D PROVE D[s].state = "returned" <=> InStore(s, "returned") # {}
    <3>1. IF InStore(s, "returned") # {} THEN D[s].state = "returned"
          ELSE IF InStore(s, "presumed-lost") # {} THEN D[s].state = "presumed-lost"
          ELSE D[s].state \in {"overdue", "dispatched"}
      BY <2>1, OutIs DEF FoldIsReference
    <3> HIDE DEF D
    <3>2. QED
      BY <3>1
  <2>3. QED
    BY <2>2
<1>4. \A s \in DOMAIN D : Board.dispatches[s].entry = D[s]
  BY EntriesAre
<1>5. Board.gates = {[subject |-> g.subject, outcome |-> g.outcome] : g \in Gates}
  BY BoardIs, LanesAre
<1>6. \A g : g \in Gates <=> \E t \in Readable : g \in ToSet(Cars(t)) /\ g.role = "gate" /\ g.state = "returned"
  BY DEF Gates
<1>7. \A s : s \in gating <=> /\ InStore(s, "returned") # {}
                              /\ \E t \in Readable : \E c \in ToSet(Cars(t)) : c.role = "gate" /\ c.subject = s
  <2>1. \A s : s \in gating <=> /\ InStore(s, "returned") # {}
                                /\ \E t \in DOMAIN trains : \E c \in ToSet(trains[t].cars) : c.role = "gate" /\ c.subject = s
    OBVIOUS
  <2>2. QED
    BY <1>1, <2>1
<1> HIDE DEF D, trains, gating
<1>8. \A x : x \in Board.gates => x \in said
  BY <1>2, <1>3, <1>4, <1>5, <1>6, <1>7
<1>9. \A x : x \in said => x \in Board.gates
  <2>1. SUFFICES ASSUME NEW s \in gating
                 PROVE  [subject |-> s, outcome |-> Board.dispatches[s].entry.outcome] \in Board.gates
    OBVIOUS
  <2>2. PICK t \in Readable : \E c \in ToSet(Cars(t)) : c.role = "gate" /\ c.subject = s
    BY <1>7
  <2>3. PICK c \in ToSet(Cars(t)) : c.role = "gate" /\ c.subject = s
    BY <2>2
  <2>4. s \in DOMAIN D /\ InStore(s, "returned") # {} /\ c.state = D[s].state /\ c.outcome = D[s].outcome
    BY <1>2, <1>7, <2>3
  <2>5. c \in Gates
    BY <1>3, <1>6, <2>3, <2>4
  <2>6. [subject |-> c.subject, outcome |-> c.outcome] \in Board.gates
    BY <1>5, <2>5
  <2>7. QED
    BY <1>4, <2>3, <2>4, <2>6
<1>10. Board.gates = said
  BY <1>8, <1>9
<1>11. QED
  BY <1>10 DEF gating, trains

LEMMA FiledLanesAgree ==
    ASSUME Filed
    PROVE  LanesAgree
<1> DEFINE trains   == Board.trains
           D        == Dispatches(Kept)
           AllCars  == UNION {{t} \X DOMAIN trains[t].cars : t \in DOMAIN trains}
           Shown(s) == {c \in AllCars : trains[c[1]].cars[c[2]].subject = s}
           Named(m) == <<m.subject, m.role>>
           Gating(t) == {m.subject : m \in {x \in ToSet(trains[t].cars) : x.role = "gate"}}
           Dark(t)   == <<"manifest-payload-unreadable", t>> \in Board.conditions
<1>1. DOMAIN trains = Readable /\ Readable \subseteq Trains /\ Manifests \subseteq Trains
  BY TrainsAre DEF Readable, Manifests
<1>2. \A t : Dark(t) <=> t \in Manifests \ Readable
  BY DarkIs
<1>3. \A t \in Trains : InStore(t, "intent") # {} <=> t \in DOMAIN trains \/ Dark(t)
  <2>1. \A t \in Trains : t \in Manifests <=> InStore(t, "intent") # {}
    BY ManifestsAre
  <2>2. \A t \in Readable : t \in Manifests
    BY DEF Readable
  <2> HIDE DEF trains, Dark
  <2>3. QED
    BY <1>1, <1>2, <2>1, <2>2
<1>4. \A t \in Trains : Dark(t) => t \notin DOMAIN trains /\ \E r \in Newest(InStore(t, "intent")) : r.members = Nil
  <2>1. ASSUME NEW t \in Trains, t \in Manifests \ Readable
        PROVE  \E r \in Newest(InStore(t, "intent")) : r.members = Nil
    BY <2>1, ManifestsAre
  <2> HIDE DEF trains, Dark
  <2>2. QED
    BY <1>1, <1>2, <2>1
<1>5. ASSUME NEW t \in DOMAIN trains
      PROVE  /\ \E r \in Newest(InStore(t, "intent")) :
                    r.members # Nil /\ {Named(m) : m \in {x \in ToSet(r.members) : x.subject # ""}} =
                        {Named(c) : c \in ToSet(trains[t].cars) \cup ToSet(trains[t].declaredNotObserved)}
             /\ \A c \in ToSet(trains[t].cars) :
                    /\ c.state = Board.dispatches[c.subject].entry.state
                    /\ c.outcome = Board.dispatches[c.subject].entry.outcome
             /\ {m.subject : m \in ToSet(trains[t].declaredNotObserved)} \cap DOMAIN Board.dispatches = {}
  <2>1. t \in Readable /\ t \in Trains
    BY <1>1
  <2>2. Chosen(t) \in Newest(InStore(t, "intent")) /\ Chosen(t).members # Nil
    BY <2>1, ManifestsAre
  <2>3. /\ {Named(m) : m \in {x \in ToSet(Chosen(t).members) : x.subject # ""}} =
               {Named(c) : c \in ToSet(trains[t].cars) \cup ToSet(trains[t].declaredNotObserved)}
        /\ {m.subject : m \in ToSet(trains[t].declaredNotObserved)} \cap DOMAIN D = {}
    BY <2>1, MembersAre
  <2>4. trains[t].cars = Cars(t)
    BY <2>1, TrainsAre
  <2>5. \A i \in DOMAIN Cars(t) :
            /\ Cars(t)[i].subject = Members(t)[i].subject /\ Members(t)[i].subject \in DOMAIN D
            /\ Cars(t)[i].state = D[Members(t)[i].subject].state
            /\ Cars(t)[i].outcome = D[Members(t)[i].subject].outcome
    BY <2>1, TrainsAre
  <2>6. DOMAIN Board.dispatches = DOMAIN D /\ \A s \in DOMAIN D : Board.dispatches[s].entry = D[s]
    BY EntriesAre
  <2> HIDE DEF trains, D, Named
  <2>7. \A c \in ToSet(trains[t].cars) :
            /\ c.state = Board.dispatches[c.subject].entry.state
            /\ c.outcome = Board.dispatches[c.subject].entry.outcome
    BY <2>4, <2>5, <2>6 DEF ToSet
  <2>8. QED
    BY <2>2, <2>3, <2>6, <2>7
<1>6. ASSUME NEW s \in DOMAIN Board.dispatches
      PROVE  /\ Board.dispatches[s].assigned <=> Shown(s) # {}
             /\ <<"manifest-membership-collision", s>> \in Board.conditions <=> Cardinality(Shown(s)) > 1
  <2>1. s \in DOMAIN D /\ (Board.dispatches[s].assigned <=> s \in Assigned)
    BY <1>6, EntriesAre
  <2>2. Shown(s) = Claims(Claimed, s) /\ (s \in Assigned <=> Claims(Claimed, s) # {})
    BY <2>1, ClaimsAreShown
  <2>3. <<"manifest-membership-collision", s>> \in Board.conditions <=>
            s \in Assigned /\ Cardinality(Claims(Claimed, s)) > 1
    BY BoardConditions
  <2> HIDE DEF Shown
  <2>4. s \notin Assigned => Cardinality(Claims(Claimed, s)) = 0
    BY <2>2, FS_EmptySet
  <2> DEFINE b == Board.dispatches[s].assigned
             col == <<"manifest-membership-collision", s>> \in Board.conditions
  <2>5. b <=> Shown(s) # {}
    BY <2>1, <2>2, Zenon
  <2> HIDE DEF b, col
  <2>6. (<<"manifest-membership-collision", s>> \in Board.conditions) <=> Cardinality(Shown(s)) > 1
    BY <2>2, <2>3, <2>4
  <2>7. QED
    BY <2>5, <2>6, Zenon DEF b
<1>7. Board.gates =
          {[subject |-> s, outcome |-> Board.dispatches[s].entry.outcome] :
               s \in {g \in UNION {Gating(t) : t \in DOMAIN trains} : InStore(g, "returned") # {}}}
  BY GatesAre
<1>8. QED
  BY <1>3, <1>4, <1>5, <1>6, <1>7, Zenon DEF LanesAgree

\* Trains, gates, dispatches and what the board says of them agree, for any store.
THEOREM LanesTellOneStory == Spec => []LanesAgree
<1>1. Filed => LanesAgree
  BY FiledLanesAgree
<1>2. QED
  BY <1>1, AlwaysFiled, PTL

-----------------------------------------------------------------------------
(* The detector, the second reader.                                        *)

\* Where nothing of a subject is put aside or spelled otherwise, both readers have its files.
LEMMA SameFiles ==
    ASSUME Filed, NEW s, s \notin {"", Nil}, Plain(s),
           NEW kinds, kinds \in {DispatchKinds, {"intent"}}
    PROVE  /\ FilesOf(s, kinds) = OfSubject(Kept, s, kinds)
           /\ \A f \in FilesOf(s, kinds) : Lower[f.kind] = f.kind /\ f \in Parsed /\ f.subject = s
<1>1. kinds \subseteq {"dispatched", "returned", "presumed-lost", "intent"} /\ "" \notin kinds
  BY DEF DispatchKinds
<1>2. ASSUME NEW f \in FilesOf(s, kinds)
      PROVE  f \in OfSubject(Kept, s, kinds) /\ Lower[f.kind] = f.kind /\ f \in Parsed /\ f.subject = s
  <2>1. f \in Parsed /\ Grouped(f) /\ Lower[f.subject] = Lower[s] /\ Lower[f.kind] \in kinds
    BY DEF FilesOf
  <2>2. Survives(f) /\ f.subject = s /\ Lower[f.kind] = f.kind
    BY <2>1 DEF Plain
  <2>3. QED
    BY <2>1, <2>2 DEF OfSubject, Kept, Parsed
<1>3. ASSUME NEW f \in OfSubject(Kept, s, kinds) PROVE f \in FilesOf(s, kinds)
  <2>1. f \in Kept /\ f.subject = s /\ f.kind \in kinds
    BY DEF OfSubject
  <2>2. f \in Pool /\ f \in store /\ Survives(f)
    BY <2>1, KeptIsFinite DEF Kept
  <2>3. f \in Parsed
    BY <2>2 DEF Parsed, Survives, Damaged
  <2>4. Grouped(f)
    BY <1>1, <2>1, <2>2, FoldAssumption DEF Grouped
  <2>5. Lower[f.kind] = f.kind
    BY <2>1, <2>3, <2>4 DEF Plain
  <2>6. QED
    BY <2>1, <2>3, <2>4, <2>5 DEF FilesOf
<1>4. QED
  BY <1>2, <1>3

LEMMA SameOwn ==
    ASSUME Filed, NEW s, s \notin {"", Nil}, Plain(s)
    PROVE  /\ FilesOf(s, DispatchKinds) = Own(s) /\ FilesOf(s, {"intent"}) = OwnIntents(s)
           /\ \A f \in Own(s) : Lower[f.kind] = f.kind /\ f \in Parsed /\ f.subject = s
           /\ \A f \in OwnIntents(s) : Lower[f.kind] = f.kind /\ f.kind = "intent"
<1> DEFINE I == {"intent"}
<1>1. DispatchKinds \in {DispatchKinds, I} /\ I \in {DispatchKinds, I}
  OBVIOUS
<1>2. \A f \in OwnIntents(s) : f.kind = "intent"
  BY DEF OwnIntents, OfSubject
<1> HIDE DEF I
<1>3. /\ FilesOf(s, DispatchKinds) = OfSubject(Kept, s, DispatchKinds)
      /\ \A f \in FilesOf(s, DispatchKinds) : Lower[f.kind] = f.kind /\ f \in Parsed /\ f.subject = s
  BY <1>1, SameFiles DEF I
<1>4. /\ FilesOf(s, I) = OfSubject(Kept, s, I)
      /\ \A f \in FilesOf(s, I) : Lower[f.kind] = f.kind /\ f \in Parsed /\ f.subject = s
  BY <1>1, SameFiles DEF I
<1>5. QED
  BY <1>2, <1>3, <1>4 DEF Own, OwnIntents, I

\* A winner is one of those the detector may put first.
LEMMA WinnerIsFirst ==
    ASSUME Filed, NEW S, NEW w \in S,
           \A f \in S : Lower[f.kind] = f.kind, \A q \in S : ~Ahead(q, w)
    PROVE  w \in Firsts(S)
<1>1. \A g \in S : Beats(g, w) <=> Ahead(g, w)
  BY DEF Beats, Ahead, Later
<1>2. QED
  BY <1>1 DEF Firsts

\* Behind the head of a sorted list come all the others.
LEMMA OthersFollow ==
    ASSUME Filed, NEW S \in SUBSET (Pool \cup Damaged), IsFiniteSet(S), NEW ahead, ByKey(S, ahead), S # {}
    PROVE  LET list == StableSort(S, ahead)
           IN  {list[k + 1] : k \in 1..(Cardinality(S) - 1)} = S \ {list[1]}
<1> DEFINE list == StableSort(S, ahead)
           n == Cardinality(S)
<1>1. n \in Nat /\ n # 0 /\ DOMAIN list = 1..n
  BY FS_CardinalityType, FS_EmptySet DEF StableSort
<1>2. \A k \in DOMAIN list : list[k] \in S /\ Rank(list[k], S, ahead) = k
  BY SortIsPermutation
<1>3. \A f \in S \ {list[1]} : \E k \in 1..(n - 1) : list[k + 1] = f
  BY OthersAreListed
<1> HIDE DEF list, n
<1>4. \A k \in 1..(n - 1) : k + 1 \in DOMAIN list /\ 1 \in DOMAIN list /\ k + 1 # 1
  BY <1>1
<1>5. \A k \in 1..(n - 1) : list[k + 1] \in S \ {list[1]}
  BY <1>2, <1>4
<1>6. {list[k + 1] : k \in 1..(n - 1)} = S \ {list[1]}
  BY <1>3, <1>5
<1>7. QED
  BY <1>6 DEF list, n

\* What the detector says of a subject's dispatch, the board says.
LEMMA SameDispatch ==
    ASSUME Filed, NEW s, s \notin {"", Nil}, Plain(s), s \in DOMAIN Dispatches(Kept), OwnPatience(s)
    PROVE  Unordered(Dispatches(Kept)[s]) \in detectorDispatch(s)
<1> DEFINE d == Dispatches(Kept)[s]
           O == Own(s)
           w == Winner(s)
           list == StableSort(O, AheadIn(O))
           listed == [k \in 1..(Cardinality(O) - 1) |-> [kind |-> list[k + 1].kind, at |-> AtString(list[k + 1])]]
<1>1. O # {} /\ FilesOf(s, DispatchKinds) = O
      /\ \A f \in O : Lower[f.kind] = f.kind /\ f \in Parsed /\ f.subject = s
  BY DispatchedSubjects, SameOwn
<1>2. w \in O /\ w \in Kept /\ \A q \in O : ~Ahead(q, w)
  BY <1>1, WinnerIsAhead
<1>3. w \in Firsts(O)
  BY <1>1, <1>2, WinnerIsFirst
<1>4. ByKey(O, AheadIn(O)) /\ O \in SUBSET (Pool \cup Damaged) /\ IsFiniteSet(O)
  BY OrdersAreByKey DEF Own, OfSubject
<1>5. ToSet(listed) = Rest(O, w)
  <2>1. {list[k + 1] : k \in 1..(Cardinality(O) - 1)} = O \ {w}
    BY <1>1, <1>4, OthersFollow DEF Winner
  <2>2. ToSet(listed) = {listed[k] : k \in 1..(Cardinality(O) - 1)}
    BY DEF ToSet
  <2>3. \A k \in 1..(Cardinality(O) - 1) : listed[k] = [kind |-> list[k + 1].kind, at |-> AtString(list[k + 1])]
    OBVIOUS
  <2> HIDE DEF list, listed, O, w
  <2>4. ToSet(listed) = {[kind |-> f.kind, at |-> AtString(f)] : f \in {list[k + 1] : k \in 1..(Cardinality(O) - 1)}}
    BY <2>2, <2>3
  <2>5. QED
    BY <2>1, <2>4 DEF Rest
<1>6. w.kind = "dispatched" => budgetOf(w) = detectorBudget(w)
  <2>1. CASE w.budget # Nil
    BY <2>1 DEF budgetOf, detectorBudget
  <2>2. CASE w.budget = Nil /\ shop.defaults = Unreadable
    BY <2>2, NilAssumption DEF budgetOf, detectorBudget, detectorDefault, LoadDefaultBudget
  <2>3. CASE w.budget = Nil /\ shop.defaults = Keyless
    BY <1>1, <1>2, <2>3 DEF OwnPatience
  <2>4. CASE w.budget = Nil /\ shop.defaults \notin {Unreadable, Keyless}
    BY <2>4 DEF budgetOf, detectorBudget, detectorDefault, LoadDefaultBudget
  <2>5. QED
    BY <2>1, <2>2, <2>3, <2>4
<1>7. Lower[w.kind] = w.kind
  BY <1>1, <1>2
<1>8. d = [state        |-> IF w.kind = "dispatched" /\ isOverdue(w) THEN "overdue" ELSE w.kind,
           at           |-> AtString(w),
           outcome      |-> IF w.kind = "returned" THEN w.outcome ELSE Nil,
           elapsed      |-> IF w.kind = "dispatched" THEN now - w.at ELSE Nil,
           budget       |-> IF w.kind = "dispatched" THEN budgetOf(w) ELSE Nil,
           budgetSource |-> IF w.kind # "dispatched" \/ budgetOf(w) = Nil THEN Nil
                            ELSE IF w.budget # Nil THEN "record" ELSE "default",
           superseded   |-> listed]
  BY Zenon DEF Dispatches, foldDispatchSubject, Own, Winner, AheadIn
<1>9. detectorEntry(w, Rest(O, w)) =
          [state        |-> IF w.kind = "dispatched" /\ isOverdue(w) THEN "overdue" ELSE w.kind,
           at           |-> AtString(w),
           outcome      |-> IF w.kind = "returned" THEN w.outcome ELSE Nil,
           elapsed      |-> IF w.kind = "dispatched" THEN now - w.at ELSE Nil,
           budget       |-> IF w.kind = "dispatched" THEN budgetOf(w) ELSE Nil,
           budgetSource |-> IF w.kind # "dispatched" \/ budgetOf(w) = Nil THEN Nil
                            ELSE IF w.budget # Nil THEN "record" ELSE "default",
           superseded   |-> Rest(O, w)]
  <2> HIDE DEF w, O
  <2>1. CASE w.kind = "dispatched"
    BY <1>6, <1>7, <2>1 DEF detectorEntry, isOverdue
  <2>2. CASE w.kind # "dispatched"
    BY <1>7, <2>2 DEF detectorEntry
  <2>3. QED
    BY <2>1, <2>2
<1>10. Unordered(d) = detectorEntry(w, Rest(O, w))
  <2> HIDE DEF d, w, O, listed
  <2>1. /\ d.state = (IF w.kind = "dispatched" /\ isOverdue(w) THEN "overdue" ELSE w.kind)
        /\ d.at = AtString(w) /\ d.outcome = (IF w.kind = "returned" THEN w.outcome ELSE Nil)
        /\ d.elapsed = (IF w.kind = "dispatched" THEN now - w.at ELSE Nil)
        /\ d.budget = (IF w.kind = "dispatched" THEN budgetOf(w) ELSE Nil)
        /\ d.budgetSource = (IF w.kind # "dispatched" \/ budgetOf(w) = Nil THEN Nil
                             ELSE IF w.budget # Nil THEN "record" ELSE "default")
        /\ d.superseded = listed
    BY <1>8
  <2>2. QED
    BY <1>5, <1>9, <2>1 DEF Unordered
<1>11. QED
  BY <1>1, <1>3, <1>10 DEF detectorDispatch

\* Of records of one kind an older one is not ahead.
LEMMA OlderIsNotAhead ==
    ASSUME NEW q, NEW w, q.kind = w.kind, q.at \in Nat, w.at \in Nat, q.at <= w.at
    PROVE  ~Ahead(q, w)
<1>1. precedence(q.kind) = precedence(w.kind) /\ precedence(w.kind) \in Nat
  BY PrecedenceIsNat
<1>2. \A m, n \in Nat : ~(m > m) /\ (m <= n => ~(m > n))
  OBVIOUS
<1>3. ~(precedence(q.kind) > precedence(w.kind))
  BY <1>1, <1>2
<1>4. QED
  BY <1>2, <1>3 DEF Ahead, Later

\* So it is with a manifest.
LEMMA SameIntent ==
    ASSUME Filed, NEW s, s \notin {"", Nil}, Plain(s), s \in DOMAIN Out.intents
    PROVE  [at |-> Out.intents[s].at, superseded |-> {[kind |-> "intent", at |-> a] : a \in ToSet(Out.intents[s].superseded)}]
               \in detectorIntent(s)
<1> DEFINE i == Out.intents[s]
           O == OwnIntents(s)
           w == Manifested(s)
           list == StableSort(O, LaterIn(O))
<1>1. O # {} /\ FilesOf(s, {"intent"}) = O /\ \A f \in O : Lower[f.kind] = f.kind /\ f.kind = "intent"
  BY SameOwn, OutIs
<1>2. w \in O /\ \A q \in O : q.at <= w.at /\ q.at \in Nat
  BY <1>1, ManifestedIsNewest, KeptIsFinite DEF OwnIntents, OfSubject
<1>3. w \in Firsts(O)
  <2> HIDE DEF O, w
  <2>1. ASSUME NEW q \in O PROVE ~Ahead(q, w)
    <3>1. q.kind = w.kind
      BY <1>1, <1>2
    <3>2. q.at \in Nat /\ w.at \in Nat /\ q.at <= w.at
      BY <1>2
    <3>3. QED
      BY <3>1, <3>2, OlderIsNotAhead
  <2>2. QED
    BY <1>1, <1>2, <2>1, WinnerIsFirst
<1>4. ByKey(O, LaterIn(O)) /\ O \in SUBSET (Pool \cup Damaged) /\ IsFiniteSet(O)
  BY OrdersAreByKey DEF OwnIntents, OfSubject
<1>5. i.at = AtString(w) /\ i.superseded = [k \in 1..(Cardinality(O) - 1) |-> AtString(list[k + 1])]
  BY IntentIsOfManifested
<1>6. {list[k + 1] : k \in 1..(Cardinality(O) - 1)} = O \ {w}
  BY <1>1, <1>4, OthersFollow DEF Manifested
<1>7. {[kind |-> "intent", at |-> a] : a \in ToSet(i.superseded)} = Rest(O, w)
  <2>1. ToSet(i.superseded) = {AtString(f) : f \in O \ {w}}
    <3> DEFINE q == i.superseded
               m == Cardinality(O) - 1
    <3>0. q = [k \in 1..m |-> AtString(list[k + 1])]
      BY <1>5
    <3> HIDE DEF i, O, w, list, q, m
    <3>a. DOMAIN q = 1..m /\ \A k \in 1..m : q[k] = AtString(list[k + 1])
      BY <3>0
    <3>1. ToSet(i.superseded) = {AtString(list[k + 1]) : k \in 1..(Cardinality(O) - 1)}
      BY <3>a DEF ToSet, q, m
    <3>2. QED
      BY <1>6, <3>1
  <2> HIDE DEF i, O, w
  <2>2. \A f \in O \ {w} : f.kind = "intent"
    BY <1>1
  <2>3. QED
    BY <2>1, <2>2 DEF Rest
<1> HIDE DEF i, O, w
<1>8. [at |-> AtString(w), superseded |-> Rest(O, w)] \in detectorIntent(s)
  BY <1>1, <1>3 DEF detectorIntent
<1>9. QED
  BY <1>5, <1>7, <1>8 DEF i

\* A subject the one has, the other has.
LEMMA SameSubjects ==
    ASSUME Filed, NEW s, s \notin {"", Nil}, Plain(s)
    PROVE  /\ s \in DOMAIN Dispatches(Kept) <=> detectorDispatch(s) # {}
           /\ s \in DOMAIN Out.intents <=> detectorIntent(s) # {}
<1>1. /\ detectorDispatch(s) # {} <=> Firsts(Own(s)) # {}
      /\ detectorIntent(s) # {} <=> Firsts(OwnIntents(s)) # {}
  <2> DEFINE O == Own(s)
             I == OwnIntents(s)
  <2>1. FilesOf(s, DispatchKinds) = O /\ FilesOf(s, {"intent"}) = I
    BY SameOwn
  <2> HIDE DEF O, I
  <2>2. detectorDispatch(s) = {detectorEntry(w, Rest(O, w)) : w \in Firsts(O)}
    BY <2>1 DEF detectorDispatch
  <2>3. detectorIntent(s) = {[at |-> AtString(w), superseded |-> Rest(I, w)] : w \in Firsts(I)}
    BY <2>1 DEF detectorIntent
  <2>4. QED
    BY <2>2, <2>3 DEF O, I
<1>2. Own(s) # {} <=> Firsts(Own(s)) # {}
  <2>1. \A f \in Own(s) : Lower[f.kind] = f.kind
    BY SameOwn
  <2>2. Own(s) # {} => Firsts(Own(s)) # {}
    BY <2>1, WinnerIsAhead, WinnerIsFirst
  <2>3. QED
    BY <2>2 DEF Firsts
<1>3. OwnIntents(s) # {} <=> Firsts(OwnIntents(s)) # {}
  <2>1. OwnIntents(s) # {} => Firsts(OwnIntents(s)) # {}
    <3>1. ASSUME OwnIntents(s) # {} PROVE s \in DOMAIN Out.intents
      BY <3>1, OutIs
    <3>2. ASSUME OwnIntents(s) # {} PROVE detectorIntent(s) # {}
      BY <3>1, <3>2, SameIntent
    <3>3. QED
      BY <1>1, <3>2
  <2>2. QED
    BY <2>1 DEF Firsts
<1>4. QED
  BY <1>1, <1>2, <1>3, DispatchedSubjects, OutIs

\* A discovery of the board is one of the detector's, unless its spelling is at issue.
LEMMA SameDiscoveries ==
    ASSUME Filed
    PROVE  /\ {d \in Out.discoveries : Lower[d[2]] = d[2]} \subseteq detectorDiscoveries
           /\ Out.faults = {} <=> "vocab" \notin detectorFaults
<1>1. emptyVocabFiles = {} <=> LoadVocab.kinds # {} /\ LoadVocab.outcomes # {}
  BY DEF emptyVocabFiles
<1>2. /\ Unreadable \in {shop.kinds, shop.outcomes} => LoadVocab.kinds = {} /\ LoadVocab.outcomes = {}
      /\ Unreadable \notin {shop.kinds, shop.outcomes} =>
             LoadVocab.kinds = shop.kinds /\ LoadVocab.outcomes = shop.outcomes
  BY DEF LoadVocab
<1>3. emptyVocabFiles = {} <=> detectorVocabOk
  BY <1>1, <1>2 DEF detectorVocabOk
<1>4. "vocab" \notin detectorFaults <=> detectorVocabOk
  BY DEF detectorFaults, detectorVocabOk
<1>5. ASSUME NEW d \in Out.discoveries, Lower[d[2]] = d[2] PROVE d \in detectorDiscoveries
  <2>1. emptyVocabFiles = {} /\ d \in Discoveries(Kept)
    BY <1>5, OutIs
  <2>2. detectorVocabOk /\ LoadVocab.kinds = shop.kinds /\ LoadVocab.outcomes = shop.outcomes
    BY <1>2, <1>3, <2>1 DEF detectorVocabOk
  <2>3. \A f \in Kept : f \in Parsed /\ f.kind # Nil
    BY KeptIsFinite, FoldAssumption DEF Kept, Parsed, Survives, Damaged
  <2>4. CASE \E f \in Kept : d = <<"kind", f.kind>> /\ f.kind \notin shop.kinds \cup {""}
    <3>1. PICK f \in Kept : d = <<"kind", f.kind>> /\ f.kind \notin shop.kinds \cup {""}
      BY <2>4
    <3>2. f \in {g \in Parsed : g.kind \notin {Nil, ""} /\ Lower[g.kind] \notin shop.kinds}
      BY <1>5, <2>3, <3>1
    <3>3. QED
      BY <2>2, <3>1, <3>2 DEF detectorDiscoveries
  <2>5. CASE \E f \in Kept : d = <<"outcome", f.outcome>> /\ f.outcome \notin shop.outcomes \cup {Nil, ""}
    <3>1. PICK f \in Kept : d = <<"outcome", f.outcome>> /\ f.outcome \notin shop.outcomes \cup {Nil, ""}
      BY <2>5
    <3>2. f \in {g \in Parsed : g.outcome \notin {Nil, ""} /\ Lower[g.outcome] \notin shop.outcomes}
      BY <1>5, <2>3, <3>1
    <3>3. QED
      BY <2>2, <3>1, <3>2 DEF detectorDiscoveries
  <2>6. QED
    BY <2>1, <2>2, <2>4, <2>5 DEF Discoveries
<1>6. QED
  BY <1>3, <1>4, <1>5, OutIs

LEMMA FiledDetectorAgrees ==
    ASSUME Filed
    PROVE  DetectorAgrees
<1>1. CASE ThrowsOn # {}
  <2>1. \A f \in ThrowsOn : f \in store /\ ~Survives(f)
    BY DEF ThrowsOn, Parsed, Survives, Damaged
  <2>2. \A f \in ThrowsOn : <<"record-quarantined", f>> \in Board.conditions
    BY <2>1, BoardConditions
  <2>3. QED
    BY <1>1, <2>2, Zenon DEF DetectorAgrees
<1>2. CASE ThrowsOn = {}
  <2> DEFINE Other(s) == {[kind |-> "intent", at |-> a] : a \in ToSet(Out.intents[s].superseded)}
  <2>1. ASSUME NEW s \in {r.subject : r \in Pool} \ {""}, Plain(s)
        PROVE  /\ s \in DOMAIN Out.dispatches <=> detectorDispatch(s) # {}
               /\ s \in DOMAIN Out.dispatches /\ OwnPatience(s) =>
                      Unordered(Out.dispatches[s]) \in detectorDispatch(s)
               /\ s \in DOMAIN Out.intents <=> detectorIntent(s) # {}
               /\ s \in DOMAIN Out.intents =>
                      [at |-> Out.intents[s].at, superseded |-> Other(s)] \in detectorIntent(s)
    <3>1. s \notin {"", Nil}
      BY <2>1, FoldAssumption
    <3>2. Out.dispatches = Dispatches(Kept)
      BY OutIs
    <3>3. /\ s \in DOMAIN Dispatches(Kept) <=> detectorDispatch(s) # {}
          /\ s \in DOMAIN Out.intents <=> detectorIntent(s) # {}
      BY <2>1, <3>1, SameSubjects
    <3>4. s \in DOMAIN Dispatches(Kept) /\ OwnPatience(s) => Unordered(Dispatches(Kept)[s]) \in detectorDispatch(s)
      BY <2>1, <3>1, SameDispatch
    <3>5. s \in DOMAIN Out.intents => [at |-> Out.intents[s].at, superseded |-> Other(s)] \in detectorIntent(s)
      BY <2>1, <3>1, SameIntent
    <3> HIDE DEF Other
    <3>6. QED
      BY <3>2, <3>3, <3>4, <3>5, Zenon
  <2>2. /\ {d \in Out.discoveries : Lower[d[2]] = d[2]} \subseteq detectorDiscoveries
        /\ Out.faults = {} <=> "vocab" \notin detectorFaults
    BY SameDiscoveries
  <2>3. QED
    BY <1>2, <2>1, <2>2, Zenon DEF DetectorAgrees
<1>3. QED
  BY <1>1, <1>2

\* The two folds tell one story of every subject both can read, for any store.
THEOREM DetectorTellsTheSame == Spec => []DetectorAgrees
<1>1. Filed => DetectorAgrees
  BY FiledDetectorAgrees
<1>2. QED
  BY <1>1, AlwaysFiled, PTL

-----------------------------------------------------------------------------
(* The index, the third reader.                                            *)

\* In a sorted list nothing is ahead of what is listed before it.
LEMMA SortIsSorted ==
    ASSUME Filed, NEW S \in SUBSET (Pool \cup Damaged), IsFiniteSet(S), NEW ahead, ByKey(S, ahead),
           NEW j \in DOMAIN StableSort(S, ahead), NEW k \in DOMAIN StableSort(S, ahead), j < k
    PROVE  <<StableSort(S, ahead)[k], StableSort(S, ahead)[j]>> \notin ahead
<1> DEFINE list == StableSort(S, ahead)
<1>1. DOMAIN list \subseteq Nat
  BY FS_CardinalityType DEF StableSort
<1>2. list[j] \in S /\ list[k] \in S /\ Rank(list[j], S, ahead) = j /\ Rank(list[k], S, ahead) = k
  BY SortIsPermutation
<1> HIDE DEF list
<1>3. ASSUME <<list[k], list[j]>> \in ahead PROVE FALSE
  <2>1. Precedes(list[k], list[j], ahead)
    BY <1>3 DEF Precedes
  <2>2. Rank(list[k], S, ahead) < Rank(list[j], S, ahead)
    BY <1>2, <2>1, RankOrders
  <2>3. k < j
    BY <1>2, <2>2
  <2>4. j \in Nat /\ k \in Nat
    BY <1>1 DEF list
  <2>5. QED
    BY <2>3, <2>4
<1>4. QED
  BY <1>3 DEF list

\* A set of places that is not empty has a last one.
LEMMA LastPlace ==
    ASSUME NEW n \in Nat, NEW P \in SUBSET (1..n), P # {}
    PROVE  \E k \in P : \A j \in P : j <= k
<1> DEFINE fromEnd == {n - k : k \in P}
<1>1. fromEnd \subseteq Nat /\ fromEnd # {}
  <2>1. \A k \in 1..n : n - k \in Nat
    OBVIOUS
  <2>2. \A k \in P : n - k \in Nat
    BY <2>1
  <2>3. QED
    BY <2>2
<1>2. PICK m \in fromEnd : \A o \in fromEnd : ~(<<o, m>> \in OpToRel(<, Nat))
  <2>1. IsWellFoundedOn(OpToRel(<, Nat), Nat)
    BY NatLessThanWellFounded
  <2> HIDE DEF fromEnd
  <2>2. QED
    BY <1>1, <2>1, WFMin
<1>3. PICK k \in P : m = n - k
  OBVIOUS
<1>4. ASSUME NEW j \in P PROVE j <= k
  <2>1. n - j \in fromEnd /\ n - j \in Nat /\ m \in Nat
    BY <1>1
  <2>2. ~(n - j < m)
    BY <1>2, <2>1 DEF OpToRel
  <2>3. QED
    BY <1>3, <2>2
<1>5. QED
  BY <1>4

\* Where nothing stops the index, its rows are those of the files, by instant.
RowsIn == {p \in store \X store : RowBefore(p[1], p[2])}

LEMMA RowsAreFiles ==
    ASSUME Filed, StopsIndex = {}
    PROVE  LET sorted == StableSort(store, RowsIn)
           IN  /\ DOMAIN IndexRows = 1..Cardinality(store) /\ Cardinality(store) \in Nat
               /\ \A k \in DOMAIN IndexRows :
                      /\ sorted[k] \in store
                      /\ IndexRows[k].subject = sorted[k].subject /\ IndexRows[k].kind = sorted[k].kind
                      /\ IndexRows[k].at = AtString(sorted[k]) /\ IndexRows[k].outcome = sorted[k].outcome
               /\ \A f \in store : \E k \in DOMAIN IndexRows : sorted[k] = f
               /\ \A j, k \in DOMAIN IndexRows : j < k => sorted[j].at <= sorted[k].at
<1> DEFINE sorted == StableSort(store, RowsIn)
<1>1. \A f \in store : f \in Pool \cup BadShape
  BY DEF Filed, StopsIndex, Damaged
<1>2. \A f \in store : f.at \in Nat
  BY <1>1, FoldAssumption
<1>3. \A f, g \in store : <<f, g>> \in RowsIn <=> f.at < g.at
  BY DEF RowsIn, RowBefore
<1>4. ByKey(store, RowsIn)
  BY <1>2, <1>3 DEF ByKey
<1>5. store \in SUBSET (Pool \cup Damaged) /\ IsFiniteSet(store) /\ Cardinality(store) \in Nat
  BY FS_CardinalityType DEF Filed
<1>6. DOMAIN sorted = 1..Cardinality(store)
  BY DEF StableSort
<1>7. /\ \A k \in DOMAIN sorted : sorted[k] \in store
      /\ \A f \in store : \E k \in DOMAIN sorted : sorted[k] = f
  BY <1>4, <1>5, SortIsPermutation
<1>8. ASSUME NEW j \in DOMAIN sorted, NEW k \in DOMAIN sorted, j < k PROVE sorted[j].at <= sorted[k].at
  <2>1. <<sorted[k], sorted[j]>> \notin RowsIn
    BY <1>4, <1>5, <1>8, SortIsSorted
  <2> HIDE DEF sorted
  <2>2. sorted[j].at \in Nat /\ sorted[k].at \in Nat /\ ~(sorted[k].at < sorted[j].at)
    BY <1>2, <1>3, <1>7, <1>8, <2>1
  <2>3. \A m, n \in Nat : ~(n < m) => m <= n
    OBVIOUS
  <2>4. QED
    BY <2>2, <2>3
<1>9. IndexRows = [k \in DOMAIN sorted |-> [subject |-> sorted[k].subject, kind |-> sorted[k].kind,
                                            at |-> AtString(sorted[k]), outcome |-> sorted[k].outcome]]
  BY Zenon DEF IndexRows, RowsIn
<1> HIDE DEF sorted
<1>10. DOMAIN IndexRows = DOMAIN sorted
  BY <1>9
<1>11. ASSUME NEW k \in DOMAIN IndexRows
       PROVE  /\ sorted[k] \in store
              /\ IndexRows[k].subject = sorted[k].subject /\ IndexRows[k].kind = sorted[k].kind
              /\ IndexRows[k].at = AtString(sorted[k]) /\ IndexRows[k].outcome = sorted[k].outcome
  BY <1>7, <1>9, <1>10
<1>12. QED
  BY <1>5, <1>6, <1>7, <1>8, <1>10, <1>11 DEF sorted

\* A row of a dispatch whose files are plain is the row of one of its records.
LEMMA RowsOfSubject ==
    ASSUME Filed, StopsIndex = {}, NEW s \in DOMAIN Dispatches(Kept), Plain(s)
    PROVE  \A f \in store : f.subject = s /\ f.kind = Winner(s).kind => f \in Own(s) /\ f.at <= Winner(s).at
<1> DEFINE w == Winner(s)
<1>1. Own(s) # {} /\ s # ""
  BY DispatchedSubjects
<1>2. w \in Own(s) /\ w \in Kept /\ \A q \in Own(s) : ~Ahead(q, w)
  BY <1>1, WinnerIsAhead
<1>3. w.kind \in DispatchKinds /\ w.subject = s /\ w \in Pool
  BY <1>2, KeptIsFinite DEF Own, OfSubject
<1>4. s # Nil /\ w.kind # Nil /\ w.kind # ""
  BY <1>3, FoldAssumption DEF DispatchKinds
<1> HIDE DEF w
<1>5. ASSUME NEW f \in store, f.subject = s, f.kind = w.kind PROVE f \in Own(s) /\ f.at <= w.at
  <2>1. f \in Parsed
    BY DEF StopsIndex, Parsed
  <2>2. Grouped(f)
    BY <1>1, <1>4, <1>5 DEF Grouped
  <2>3. Survives(f)
    BY <1>5, <2>1, <2>2 DEF Plain
  <2>4. f \in Own(s)
    BY <1>3, <1>5, <2>3 DEF Own, OfSubject, Kept
  <2>5. f.at \in Nat /\ w.at \in Nat
    BY <1>2, <2>4, KeptIsFinite DEF Own, OfSubject
  <2>6. ~Ahead(f, w)
    BY <1>2, <2>4
  <2>7. f.at <= w.at
    <3>1. ~(f.at > w.at)
      BY <1>5, <2>6 DEF Ahead, Later
    <3>2. \A m, n \in Nat : ~(m > n) => m <= n
      OBVIOUS
    <3>3. QED
      BY <2>5, <3>1, <3>2
  <2>8. QED
    BY <2>4, <2>7
<1>6. QED
  BY <1>5 DEF w

LEMMA FiledIndexAgrees ==
    ASSUME Filed
    PROVE  IndexAgrees
<1>1. CASE StopsIndex # {}
  <2>1. \A f \in StopsIndex : f \in store /\ ~Survives(f)
    BY FoldAssumption DEF StopsIndex, Survives, Damaged, Filed
  <2>2. \A f \in StopsIndex : <<"record-quarantined", f>> \in Board.conditions
    BY <2>1, BoardConditions
  <2>3. QED
    BY <1>1, <2>2, Zenon DEF IndexAgrees
<1>2. CASE StopsIndex = {}
  <2>1. SUFFICES ASSUME NEW dispatches \in {Dispatches(Kept)}, NEW s \in DOMAIN dispatches, Plain(s)
                 PROVE  LET d    == dispatches[s]
                            kind == IF d.state = "overdue" THEN "dispatched" ELSE d.state
                            rows == IndexRows
                            Of   == {k \in DOMAIN rows : rows[k].subject = s /\ rows[k].kind = kind}
                        IN  /\ \E k \in Of : (\A j \in Of : j <= k) /\ rows[k].at[1] = d.at[1]
                            /\ \E k \in Of : rows[k].at = d.at /\ (kind = "returned" => rows[k].outcome = d.outcome)
    BY <1>2, Zenon DEF IndexAgrees
  <2> DEFINE d    == dispatches[s]
             kind == IF d.state = "overdue" THEN "dispatched" ELSE d.state
             rows == IndexRows
             Of   == {k \in DOMAIN rows : rows[k].subject = s /\ rows[k].kind = kind}
             w    == Winner(s)
             sorted == StableSort(store, RowsIn)
             n    == Cardinality(store)
  <2>2. /\ d.state = IF w.kind = "dispatched" /\ isOverdue(w) THEN "overdue" ELSE w.kind
        /\ d.at = AtString(w)
        /\ d.outcome = IF w.kind = "returned" THEN w.outcome ELSE Nil
    BY EntryIsOfWinner
  <2>3. w \in Kept /\ w \in store /\ w.subject = s /\ w.kind \in DispatchKinds
    BY WinnerIsAhead, DispatchedSubjects DEF Own, OfSubject, Kept
  <2> HIDE DEF d, w
  <2>4. kind = w.kind
    BY <2>2, <2>3 DEF DispatchKinds
  <2>5. /\ DOMAIN rows = 1..n /\ n \in Nat
        /\ \A k \in DOMAIN rows :
               /\ sorted[k] \in store
               /\ rows[k].subject = sorted[k].subject /\ rows[k].kind = sorted[k].kind
               /\ rows[k].at = AtString(sorted[k]) /\ rows[k].outcome = sorted[k].outcome
        /\ \A f \in store : \E k \in DOMAIN rows : sorted[k] = f
        /\ \A j, k \in DOMAIN rows : j < k => sorted[j].at <= sorted[k].at
    BY <1>2, RowsAreFiles
  <2>6. \A f \in store : f.subject = s /\ f.kind = w.kind => f \in Own(s) /\ f.at <= w.at
    BY <1>2, <2>1, RowsOfSubject DEF w
  <2> HIDE DEF rows, sorted, n, kind
  <2>7. PICK p \in DOMAIN rows : sorted[p] = w
    BY <2>3, <2>5
  <2>8. p \in Of /\ rows[p].at = d.at
    BY <2>2, <2>3, <2>4, <2>5, <2>7
  <2>9. PICK k \in Of : \A j \in Of : j <= k
    <3>1. Of \in SUBSET (1..n) /\ Of # {}
      BY <2>5, <2>8
    <3> HIDE DEF Of
    <3>2. QED
      BY <2>5, <3>1, LastPlace
  <2>10. sorted[k].at = w.at
    <3>1. sorted[k] \in Own(s) /\ sorted[k].at <= w.at
      BY <2>4, <2>5, <2>6, <2>9
    <3>2. p <= k /\ p \in Nat /\ k \in Nat
      BY <2>5, <2>8, <2>9
    <3>3. w.at <= sorted[k].at
      <4>1. CASE p = k
        BY <2>7, <3>1, <4>1
      <4>2. CASE p < k
        BY <2>5, <2>7, <2>9, <4>2
      <4>3. QED
        BY <3>2, <4>1, <4>2
    <3>4. w.at \in Nat /\ sorted[k].at \in Nat
      BY <2>3, <3>1, KeptIsFinite DEF Own, OfSubject
    <3>5. \A a, b \in Nat : a <= b /\ b <= a => a = b
      OBVIOUS
    <3>6. QED
      BY <3>1, <3>3, <3>4, <3>5
  <2>11. rows[k].at[1] = d.at[1]
    BY <2>2, <2>5, <2>9, <2>10 DEF AtString
  <2>12. kind = "returned" => rows[p].outcome = d.outcome
    BY <2>2, <2>4, <2>5, <2>7
  <2>13. QED
    BY <2>8, <2>9, <2>11, <2>12 DEF d, rows, kind
<1>3. QED
  BY <1>1, <1>2

\* The ledger's last word on a subject is the board's, for any store.
THEOREM IndexTellsTheSame == Spec => []IndexAgrees
<1>1. Filed => IndexAgrees
  BY FiledIndexAgrees
<1>2. QED
  BY <1>1, AlwaysFiled, PTL

-----------------------------------------------------------------------------
(* The page is calm exactly when all is well: colours.                     *)

Hot == "needs-attention"

LEMMA RegistersAre ==
    /\ ToSet(REGISTER_ORDER) = {"nominal", "in-progress", Hot}
    /\ rank("nominal") = 1 /\ rank("in-progress") = 2 /\ rank(Hot) = 3
<1>1. /\ DOMAIN REGISTER_ORDER = 1..3 /\ REGISTER_ORDER[1] = "nominal"
      /\ REGISTER_ORDER[2] = "in-progress" /\ REGISTER_ORDER[3] = Hot
  BY DEF REGISTER_ORDER, Hot
<1>2. DOMAIN REGISTER_ORDER = {1, 2, 3}
  BY <1>1
<1>3. ToSet(REGISTER_ORDER) = {"nominal", "in-progress", Hot}
  BY <1>1, <1>2 DEF ToSet
<1>4. \A i \in DOMAIN REGISTER_ORDER :
          /\ REGISTER_ORDER[i] = "nominal" <=> i = 1
          /\ REGISTER_ORDER[i] = "in-progress" <=> i = 2
          /\ REGISTER_ORDER[i] = Hot <=> i = 3
  BY <1>1, <1>2 DEF Hot
<1>5. rank("nominal") = 1
  <2>1. 1 \in DOMAIN REGISTER_ORDER /\ REGISTER_ORDER[1] = "nominal"
    BY <1>1
  <2>2. QED
    BY <1>4, <2>1, Zenon DEF rank
<1>6. rank("in-progress") = 2
  <2>1. 2 \in DOMAIN REGISTER_ORDER /\ REGISTER_ORDER[2] = "in-progress"
    BY <1>1
  <2>2. QED
    BY <1>4, <2>1, Zenon DEF rank
<1>7. rank(Hot) = 3
  <2>1. 3 \in DOMAIN REGISTER_ORDER /\ REGISTER_ORDER[3] = Hot
    BY <1>1
  <2>2. QED
    BY <1>4, <2>1, Zenon DEF rank
<1>8. QED
  BY <1>3, <1>5, <1>6, <1>7

\* Of several registers the hot one wins.
LEMMA HotWins ==
    ASSUME NEW S \in SUBSET {"nominal", "in-progress", Hot}, S # {}
    PROVE  mostSevereRegister(S) = Hot <=> Hot \in S
<1>1. \A r \in S : rank(r) \in {1, 2, 3} /\ (rank(r) = 3 <=> r = Hot)
  BY RegistersAre DEF Hot
<1>2. \E r \in S : \A q \in S : rank(q) <= rank(r)
  <2>1. CASE Hot \in S
    <3>1. \A q \in S : rank(q) <= rank(Hot)
      BY <1>1, RegistersAre
    <3>2. QED
      BY <2>1, <3>1
  <2>2. CASE Hot \notin S /\ "in-progress" \in S
    <3>1. \A q \in S : rank(q) <= rank("in-progress")
      BY <2>2, RegistersAre
    <3>2. QED
      BY <2>2, <3>1
  <2>3. CASE Hot \notin S /\ "in-progress" \notin S
    <3>1. "nominal" \in S /\ \A q \in S : q = "nominal"
      BY <2>3
    <3>2. \A q \in S : rank(q) <= rank("nominal")
      BY <3>1, RegistersAre
    <3>3. QED
      BY <3>1, <3>2
  <2>4. QED
    BY <2>1, <2>2, <2>3
<1>3. /\ mostSevereRegister(S) \in S
      /\ \A q \in S : rank(q) <= rank(mostSevereRegister(S))
  BY <1>2, Zenon DEF mostSevereRegister
<1>4. ASSUME Hot \in S PROVE mostSevereRegister(S) = Hot
  <2> DEFINE m == mostSevereRegister(S)
  <2>1. m \in S /\ rank(Hot) <= rank(m)
    BY <1>3, <1>4
  <2> HIDE DEF m
  <2>2. rank(m) \in {1, 2, 3} /\ rank(Hot) = 3
    BY <1>1, <2>1, RegistersAre
  <2>3. rank(m) = 3
    BY <2>1, <2>2
  <2>4. QED
    BY <1>1, <2>1, <2>3 DEF m
<1>5. QED
  BY <1>3, <1>4

LEMMA FirstPlace ==
    ASSUME NEW n \in Nat, NEW P \in SUBSET (1..n), P # {}
    PROVE  \E k \in P : \A j \in P : k <= j
<1>1. PICK k \in P : \A j \in P : ~(<<j, k>> \in OpToRel(<, Nat))
  <2>1. IsWellFoundedOn(OpToRel(<, Nat), Nat)
    BY NatLessThanWellFounded
  <2>2. P \subseteq Nat
    OBVIOUS
  <2>3. QED
    BY <2>1, <2>2, WFMin
<1>2. ASSUME NEW j \in P PROVE k <= j
  <2>1. j \in Nat /\ k \in Nat
    OBVIOUS
  <2>2. ~(j < k)
    BY <1>1, <2>1 DEF OpToRel
  <2>3. QED
    BY <2>1, <2>2
<1>3. QED
  BY <1>2

\* The definitions that reach the page: those of the file, when none of its rows is bad.
RowsGood == \A v \in DOMAIN shop.defs : \A row \in ToSet(shop.defs[v]) : row.register # Nil

LEMMA DefsAre ==
    ASSUME Filed, shop.defs # Unreadable
    PROVE  /\ {"positions", "liveness", "outcomes"} \subseteq DOMAIN shop.defs
           /\ DOMAIN LoadVocabularies.defs = DOMAIN shop.defs
           /\ LoadVocabularies.conditions = {} <=> RowsGood
           /\ \A v \in DOMAIN shop.defs : \A w : describeVocab(w, LoadVocabularies.defs[v]) \in {"nominal", "in-progress", Hot}
           /\ RowsGood => \A v \in DOMAIN shop.defs : \A w :
                  Defined({w}, v) <=> describeVocab(w, LoadVocabularies.defs[v]) # Hot
<1> DEFINE V == LoadVocabularies.defs
<1>1. /\ {"positions", "liveness", "outcomes"} \subseteq DOMAIN shop.defs
      /\ \A v \in DOMAIN shop.defs :
             /\ Len(shop.defs[v]) \in Nat /\ DOMAIN shop.defs[v] = 1..Len(shop.defs[v])
             /\ \A k \in DOMAIN shop.defs[v] : shop.defs[v][k].register \in {"nominal", "in-progress", Hot} \cup {Nil}
  <2>1. shop \in Shops
    BY DEF Filed
  <2>2. QED
    BY <2>1, RenderAssumption, RegistersAre
<1>2. /\ V = [v \in DOMAIN shop.defs |->
                  [k \in {j \in DOMAIN shop.defs[v] : shop.defs[v][j].register # Nil} |-> shop.defs[v][k]]]
      /\ LoadVocabularies.conditions =
             {<<"board-def-invalid-row", row>> :
                  row \in {r \in UNION {ToSet(shop.defs[v]) : v \in DOMAIN shop.defs} : r.register = Nil}}
  BY DEF LoadVocabularies
<1>3. LoadVocabularies.conditions = {} <=> RowsGood
  <2> DEFINE bad == {r \in UNION {ToSet(shop.defs[v]) : v \in DOMAIN shop.defs} : r.register = Nil}
  <2>1. bad = {} <=> RowsGood
    BY DEF RowsGood
  <2>2. LoadVocabularies.conditions = {<<"board-def-invalid-row", row>> : row \in bad}
    BY <1>2
  <2> HIDE DEF bad
  <2>3. LoadVocabularies.conditions = {} <=> bad = {}
    BY <2>2
  <2>4. QED
    BY <2>1, <2>3
<1> HIDE DEF V
<1>4. DOMAIN V = DOMAIN shop.defs
  BY <1>2
<1>5. \A v \in DOMAIN shop.defs :
          /\ DOMAIN V[v] = {j \in DOMAIN shop.defs[v] : shop.defs[v][j].register # Nil}
          /\ \A k \in DOMAIN V[v] : V[v][k] = shop.defs[v][k]
  BY <1>2
<1>6. ASSUME NEW v \in DOMAIN shop.defs, NEW w
      PROVE  /\ describeVocab(w, V[v]) \in {"nominal", "in-progress", Hot}
             /\ RowsGood => (Defined({w}, v) <=> describeVocab(w, V[v]) # Hot)
  <2> DEFINE D == shop.defs[v]
             L == V[v]
             found == {k \in DOMAIN L : L[k].id = w}
             first == CHOOSE k \in found : \A j \in found : k <= j
             n == Len(shop.defs[v])
  <2>1. /\ n \in Nat /\ DOMAIN D = 1..n
        /\ \A k \in DOMAIN D : D[k].register \in {"nominal", "in-progress", Hot} \cup {Nil}
    BY <1>1
  <2>2. DOMAIN L = {j \in DOMAIN D : D[j].register # Nil} /\ \A k \in DOMAIN L : L[k] = D[k]
    BY <1>5
  <2>3. describeVocab(w, L) = IF found = {} THEN Hot ELSE L[first].register
    BY Zenon DEF describeVocab, Hot
  <2>4. RowsGood => DOMAIN L = DOMAIN D
    BY <1>6, <2>2 DEF RowsGood, ToSet
  <2>5. found # {} => first \in found /\ \A j \in found : first <= j
    <3>1. found \in SUBSET (1..n)
      BY <2>1, <2>2
    <3> HIDE DEF found
    <3>2. found # {} => \E k \in found : \A j \in found : k <= j
      BY <2>1, <3>1, FirstPlace
    <3>3. QED
      BY <3>2, Zenon
  <2>6. Defined({w}, v) <=> \E k \in DOMAIN D : /\ D[k].id = w /\ D[k].register \in {"nominal", "in-progress"}
                                                /\ \A j \in 1..(k - 1) : D[j].id # w
    BY DEF Defined
  <2> HIDE DEF D, L, first, n
  <2>7. describeVocab(w, L) \in {"nominal", "in-progress", Hot}
    BY <2>1, <2>2, <2>3, <2>5
  <2>8. ASSUME RowsGood, describeVocab(w, L) # Hot PROVE Defined({w}, v)
    <3>1. found # {} /\ first \in found /\ \A j \in found : first <= j
      BY <2>3, <2>5, <2>8
    <3>2. first \in DOMAIN D /\ D[first].id = w /\ D[first].register \in {"nominal", "in-progress"}
      BY <2>2, <2>3, <2>7, <2>8, <3>1
    <3>3. ASSUME NEW j \in 1..(first - 1), D[j].id = w PROVE FALSE
      <4>1. j \in 1..n /\ j < first
        BY <2>1, <3>2
      <4>2. j \in found
        BY <2>1, <2>2, <2>4, <2>8, <3>3, <4>1
      <4>3. first \in Nat /\ first <= j
        BY <2>1, <3>1, <3>2, <4>2
      <4>4. QED
        BY <4>1, <4>3
    <3>4. QED
      BY <2>6, <3>2, <3>3
  <2>9. ASSUME RowsGood, Defined({w}, v) PROVE describeVocab(w, L) # Hot
    <3>1. PICK k \in DOMAIN D : /\ D[k].id = w /\ D[k].register \in {"nominal", "in-progress"}
                                /\ \A j \in 1..(k - 1) : D[j].id # w
      BY <2>6, <2>9
    <3>2. k \in found
      BY <2>2, <2>4, <2>9, <3>1
    <3>3. found # {} /\ first \in found /\ first <= k /\ first \in 1..n /\ k \in 1..n
      BY <2>1, <2>2, <2>5, <3>2
    <3>4. first = k
      <4>1. D[first].id = w
        BY <2>2, <3>3
      <4>2. first \notin 1..(k - 1)
        BY <3>1, <4>1
      <4>3. QED
        BY <2>1, <3>3, <4>2
    <3>5. QED
      BY <2>2, <2>3, <3>1, <3>3, <3>4 DEF Hot
  <2>10. QED
    BY <2>7, <2>8, <2>9 DEF L
<1>7. QED
  BY <1>1, <1>3, <1>4, <1>6 DEF V

\* Defined is said word by word.
LEMMA DefinedByWord ==
    ASSUME NEW words, NEW v
    PROVE  Defined(words, v) <=> \A w \in words : Defined({w}, v)
  BY DEF Defined

-----------------------------------------------------------------------------
(* The page is calm exactly when all is well: conditions.                  *)

Clashes == {s \in Assigned : Cardinality(Claims(Claimed, s)) > 1}
Spaces == DOMAIN Dispatches(Kept) \cap DOMAIN Out.intents

LEMMA NoCondition ==
    ASSUME Filed
    PROVE  Board.conditions = {} <=>
               /\ StartConditions = {} /\ Scan.conditions = {} /\ Out.faults = {} /\ Out.discoveries = {}
               /\ Spaces = {} /\ Manifests \ Readable = {} /\ Clashes = {}
<1> DEFINE A == Assemble(Kept, Out).conditions
           B == {<<"fold-fault", fs>> : fs \in {Out.faults} \ {{}}}
           C == {<<"discovery", d>> : d \in Out.discoveries}
           dark == Manifests \ Readable
<1>1. Board.conditions = A \cup StartConditions \cup Scan.conditions \cup B \cup C
  BY BoardIs
<1>2. A = {<<"subject-namespace-collision", s>> : s \in Spaces}
          \cup {<<"manifest-payload-unreadable", t>> : t \in dark}
          \cup {<<"manifest-membership-collision", s>> : s \in Clashes}
  BY LanesAre DEF Spaces, Clashes
<1>3. B = {} <=> Out.faults = {}
  <2> DEFINE f == Out.faults
  <2>1. B = {<<"fold-fault", fs>> : fs \in {f} \ {{}}}
    OBVIOUS
  <2> HIDE DEF f, B
  <2>2. QED
    BY <2>1 DEF f
<1>4. C = {} <=> Out.discoveries = {}
  <2> DEFINE f == Out.discoveries
  <2>1. C = {<<"discovery", d>> : d \in f}
    OBVIOUS
  <2> HIDE DEF f, C
  <2>2. QED
    BY <2>1 DEF f
<1> HIDE DEF A, B, C, dark
<1>5. A = {} <=> Spaces = {} /\ dark = {} /\ Clashes = {}
  BY <1>2
<1>6. Board.conditions = {} <=> A = {} /\ StartConditions = {} /\ Scan.conditions = {} /\ B = {} /\ C = {}
  BY <1>1
<1>7. QED
  BY <1>3, <1>4, <1>5, <1>6 DEF dark

\* The shop's own files are in order.
LEMMA ShopInOrder ==
    StartConditions = {} /\ Out.faults = {} <=>
        {Unreadable, {}} \cap {shop.kinds, shop.outcomes} = {} /\ shop.defaults # Unreadable
<1>1. emptyVocabFiles = {} <=> LoadVocab.kinds # {} /\ LoadVocab.outcomes # {}
  BY DEF emptyVocabFiles
<1>2. /\ Unreadable \in {shop.kinds, shop.outcomes} => LoadVocab.kinds = {} /\ LoadVocab.outcomes = {}
      /\ Unreadable \notin {shop.kinds, shop.outcomes} =>
             LoadVocab.kinds = shop.kinds /\ LoadVocab.outcomes = shop.outcomes
  BY DEF LoadVocab
<1>3. Out.faults = {} <=> {Unreadable, {}} \cap {shop.kinds, shop.outcomes} = {}
  BY <1>1, <1>2, OutIs
<1>4. StartConditions = {} <=> Unreadable \notin {shop.kinds, shop.outcomes} /\ shop.defaults # Unreadable
  <2> DEFINE a == {Unreadable} \cap {shop.kinds, shop.outcomes}
             b == {Unreadable} \cap {shop.defaults}
  <2>1. StartConditions = {<<"recognition-vocabulary-unreadable", f>> : f \in a}
                          \cup {<<"shop-default-budget-unreadable", f>> : f \in b}
    BY DEF StartConditions
  <2>2. (a = {} <=> Unreadable \notin {shop.kinds, shop.outcomes}) /\ (b = {} <=> shop.defaults # Unreadable)
    OBVIOUS
  <2> HIDE DEF a, b
  <2>3. StartConditions = {} <=> a = {} /\ b = {}
    BY <2>1
  <2>4. QED
    BY <2>2, <2>3
<1>5. QED
  BY <1>3, <1>4

\* Every file is kept, and every word it uses is known.
Clean == \A f \in store : Survives(f) /\ ~f.extra
Known == \A f \in store : f.kind \in shop.kinds \cup {""} /\ f.outcome \in shop.outcomes \cup {Nil, ""}

LEMMA FilesInOrder ==
    ASSUME Filed
    PROVE  /\ Scan.conditions = {} <=> Clean
           /\ Clean => store = Kept
           /\ {Unreadable, {}} \cap {shop.kinds, shop.outcomes} = {} /\ Clean =>
                  (Out.discoveries = {} <=> Known)
<1> DEFINE bad == {g \in store : ~Survives(g)}
           odd == {g \in store : Survives(g) /\ g.extra}
           none == IF Kept = {} THEN {Cardinality(store)} \ {0} ELSE {}
<1>1. Scan.conditions = {<<"record-quarantined", f>> : f \in bad}
                        \cup {<<"record-unrecognised-fields", f>> : f \in odd}
                        \cup {<<"all-records-quarantined", n>> : n \in none}
  BY DEF Scan
<1>2. bad = {} /\ odd = {} <=> Clean
  BY Zenon DEF Clean
<1>3. Clean => store = Kept
  BY Zenon DEF Clean, Kept
<1>4. Clean => none = {}
  BY <1>3, FS_EmptySet
<1> HIDE DEF bad, odd, none
<1>5. Scan.conditions = {} <=> bad = {} /\ odd = {} /\ none = {}
  BY <1>1
<1>6. Scan.conditions = {} <=> Clean
  BY <1>2, <1>4, <1>5
<1>7. ASSUME {Unreadable, {}} \cap {shop.kinds, shop.outcomes} = {}, store = Kept
      PROVE  Out.discoveries = {} <=> Known
  <2>1. LoadVocab.kinds = shop.kinds /\ LoadVocab.outcomes = shop.outcomes /\ emptyVocabFiles = {}
    <3>1. Unreadable \notin {shop.kinds, shop.outcomes} /\ shop.kinds # {} /\ shop.outcomes # {}
      BY <1>7
    <3>2. LoadVocab.kinds = shop.kinds /\ LoadVocab.outcomes = shop.outcomes
      BY <3>1 DEF LoadVocab
    <3>3. QED
      BY <3>1, <3>2 DEF emptyVocabFiles
  <2> DEFINE K == {r.kind : r \in Kept} \ (shop.kinds \cup {""})
             O == {r.outcome : r \in Kept} \ (shop.outcomes \cup {Nil, ""})
  <2>2. Out.discoveries = {<<"kind", k>> : k \in K} \cup {<<"outcome", o>> : o \in O}
    BY <2>1, OutIs DEF Discoveries
  <2>3. K = {} /\ O = {} <=> Known
    BY <1>7 DEF Known
  <2> HIDE DEF K, O
  <2>4. Out.discoveries = {} <=> K = {} /\ O = {}
    BY <2>2
  <2>5. QED
    BY <2>3, <2>4
<1>8. QED
  BY <1>3, <1>6, <1>7

LEMMA SpacesInOrder ==
    ASSUME Filed, store = Kept
    PROVE  Spaces = {} <=>
               \A f, g \in store : f.kind = "intent" /\ g.kind \in DispatchKinds => f.subject # g.subject \/ f.subject = ""
<1>1. \A s : s \in Spaces <=> /\ s # ""
                              /\ \E g \in store : g.subject = s /\ g.kind \in DispatchKinds
                              /\ \E f \in store : f.subject = s /\ f.kind = "intent"
  <2>1. \A s : s \in Spaces <=> s # "" /\ Own(s) # {} /\ OwnIntents(s) # {}
    BY DispatchedSubjects, OutIs DEF Spaces
  <2>2. \A s : Own(s) # {} <=> \E g \in store : g.subject = s /\ g.kind \in DispatchKinds
    BY DEF Own, OfSubject
  <2>3. \A s : OwnIntents(s) # {} <=> \E f \in store : f.subject = s /\ f.kind = "intent"
    BY DEF OwnIntents, OfSubject
  <2>4. QED
    BY <2>1, <2>2, <2>3
<1>2. ASSUME Spaces = {}, NEW f \in store, NEW g \in store, f.kind = "intent", g.kind \in DispatchKinds
      PROVE  f.subject # g.subject \/ f.subject = ""
  BY <1>1, <1>2
<1>3. ASSUME NEW s \in Spaces
      PROVE  \E f, g \in store : /\ f.kind = "intent" /\ g.kind \in DispatchKinds
                                 /\ f.subject = g.subject /\ f.subject # ""
  <2>1. s # ""
    BY <1>1
  <2>2. PICK g \in store : g.subject = s /\ g.kind \in DispatchKinds
    BY <1>1
  <2>3. PICK f \in store : f.subject = s /\ f.kind = "intent"
    BY <1>1
  <2>4. QED
    BY <2>1, <2>2, <2>3
<1>4. QED
  BY <1>2, <1>3

LEMMA ManifestsInOrder ==
    ASSUME Filed
    PROVE  Manifests \ Readable = {} <=> \A t \in Trains : InStore(t, "intent") # {} => t \in DOMAIN Board.trains
<1>1. DOMAIN Board.trains = Readable
  BY TrainsAre
<1>2. Manifests \subseteq Trains /\ \A t \in Trains : t \in Manifests <=> InStore(t, "intent") # {}
  BY ManifestsAre DEF Manifests
<1>3. QED
  BY <1>1, <1>2

\* An image of a finite set is finite; a finite set of two has more than one.
LEMMA ImageIsFinite ==
    ASSUME NEW S, IsFiniteSet(S), NEW f
    PROVE  IsFiniteSet({f[x] : x \in S})
<1> DEFINE g == [x \in S |-> f[x]]
           T == {f[x] : x \in S}
<1>1. g \in Surjection(S, T)
  BY DEF Surjection
<1>2. QED
  BY <1>1, FS_Surjection

LEMMA MoreThanOne ==
    ASSUME NEW S, IsFiniteSet(S)
    PROVE  Cardinality(S) > 1 <=> \E x, y \in S : x # y
<1>1. Cardinality(S) \in Nat
  BY FS_CardinalityType
<1>2. Cardinality(S) = 0 <=> S = {}
  BY FS_EmptySet
<1>3. Cardinality(S) = 1 <=> \E x : S = {x}
  BY FS_Singleton
<1>4. Cardinality(S) > 1 <=> ~(Cardinality(S) = 0) /\ ~(Cardinality(S) = 1)
  BY <1>1
<1>5. QED
  BY <1>2, <1>3, <1>4

\* Every place in every readable manifest.
Places == UNION {{t} \X DOMAIN Members(t) : t \in Readable}

LEMMA PlacesAreFinite ==
    ASSUME Filed
    PROVE  /\ IsFiniteSet(Places)
           /\ \A s : /\ Claims(Claimed, s) = {c \in Places : Members(c[1])[c[2]].subject = s}
                     /\ s \in Assigned <=> Claims(Claimed, s) # {}
<1>1. IsFiniteSet(Readable)
  <2> DEFINE subject == [r \in Kept |-> r.subject]
             names == {subject[r] : r \in Kept}
  <2>1. IsFiniteSet(names)
    BY KeptIsFinite, ImageIsFinite
  <2>2. Readable \subseteq names
    <3>1. \A t \in Readable : t \in Manifests /\ OwnIntents(t) # {}
      BY OutIs DEF Readable, Manifests
    <3>2. \A t : \A r \in OwnIntents(t) : r \in Kept /\ r.subject = t
      BY DEF OwnIntents, OfSubject
    <3>3. QED
      BY <3>1, <3>2
  <2>3. QED
    BY <2>1, <2>2, FS_Subset
<1>2. ASSUME NEW t \in Readable PROVE IsFiniteSet(DOMAIN Members(t)) /\ IsFiniteSet({t} \X DOMAIN Members(t))
  <2>1. Chosen(t) \in Raw(t) /\ Chosen(t).members # Nil
    BY ManifestIsFound DEF Readable
  <2>2. Chosen(t) \in Pool
    BY <2>1, KeptIsFinite DEF Raw, findRawIntentRecord, OfSubject
  <2>3. IsFiniteSet(DOMAIN Chosen(t).members)
    BY <2>1, <2>2, RenderAssumption
  <2>4. DOMAIN Members(t) \subseteq DOMAIN Chosen(t).members
    BY DEF Members, manifestPayload
  <2>5. IsFiniteSet(DOMAIN Members(t))
    BY <2>3, <2>4, FS_Subset
  <2>6. IsFiniteSet({t})
    BY FS_Singleton
  <2>7. QED
    BY <2>5, <2>6, FS_Product
<1>3. IsFiniteSet(Places)
  <2> DEFINE of == [t \in Readable |-> {t} \X DOMAIN Members(t)]
             all == {of[t] : t \in Readable}
  <2>0. \A t \in Readable : of[t] = {t} \X DOMAIN Members(t)
    OBVIOUS
  <2> HIDE DEF of
  <2>1. IsFiniteSet(all)
    BY <1>1, ImageIsFinite
  <2>2. \A T \in all : IsFiniteSet(T)
    BY <1>2, <2>0
  <2>3. Places = UNION all
    BY <2>0 DEF Places
  <2> HIDE DEF all
  <2>4. QED
    BY <2>1, <2>2, <2>3, FS_UNION
<1>4. DOMAIN Claimed = Readable /\ \A t \in Readable : Claimed[t] = Members(t)
  BY DEF Claimed
<1>5. ASSUME NEW s
      PROVE  /\ Claims(Claimed, s) = {c \in Places : Members(c[1])[c[2]].subject = s}
             /\ s \in Assigned <=> Claims(Claimed, s) # {}
  <2>1. \A c : c \in Claims(Claimed, s) <=>
                 \E t \in Readable : \E i \in DOMAIN Members(t) : c = <<t, i>> /\ Members(t)[i].subject = s
    BY <1>4 DEF Claims
  <2>2. \A c : c \in {d \in Places : Members(d[1])[d[2]].subject = s} <=>
                 \E t \in Readable : \E i \in DOMAIN Members(t) : c = <<t, i>> /\ Members(t)[i].subject = s
    BY DEF Places
  <2>3. s \in Assigned <=> \E t \in Readable : \E i \in DOMAIN Members(t) : Members(t)[i].subject = s
    BY DEF Assigned, ToSet
  <2> DEFINE P == {d \in Places : Members(d[1])[d[2]].subject = s}
  <2>4. \A c : c \in Claims(Claimed, s) <=> c \in P
    BY <2>1, <2>2
  <2> HIDE DEF P
  <2>5. Claims(Claimed, s) = P
    <3> DEFINE Q == Claims(Claimed, s)
    <3>1. \A c : c \in Q <=> c \in P
      BY <2>4
    <3> HIDE DEF Q
    <3>2. Q = P
      BY <3>1
    <3>3. QED
      BY <3>2 DEF Q
  <2>6. s \in Assigned <=> Claims(Claimed, s) # {}
    BY <2>1, <2>3
  <2>7. QED
    BY <2>5, <2>6 DEF P
<1>6. QED
  BY <1>3, <1>5

LEMMA ClaimsInOrder ==
    ASSUME Filed
    PROVE  Clashes = {} <=> \A c, d \in Places : c # d => Members(c[1])[c[2]].subject # Members(d[1])[d[2]].subject
<1>1. \A s : IsFiniteSet(Claims(Claimed, s))
  BY PlacesAreFinite, FS_Subset
<1>2. \A s : Cardinality(Claims(Claimed, s)) > 1 <=> \E c, d \in Claims(Claimed, s) : c # d
  BY <1>1, MoreThanOne
<1>3. \A s : \A c : c \in Claims(Claimed, s) <=> c \in Places /\ Members(c[1])[c[2]].subject = s
  BY PlacesAreFinite
<1>4. \A s : s \in Clashes <=> \E c, d \in Claims(Claimed, s) : c # d
  BY <1>2, PlacesAreFinite DEF Clashes
<1>5. ASSUME NEW s \in Clashes
      PROVE  \E c, d \in Places : c # d /\ Members(c[1])[c[2]].subject = Members(d[1])[d[2]].subject
  BY <1>3, <1>4
<1>6. ASSUME NEW c \in Places, NEW d \in Places, c # d, Members(c[1])[c[2]].subject = Members(d[1])[d[2]].subject
      PROVE  Clashes # {}
  <2> DEFINE s == Members(c[1])[c[2]].subject
  <2>0. Members(d[1])[d[2]].subject = s /\ Members(c[1])[c[2]].subject = s
    BY <1>6
  <2> HIDE DEF s
  <2>a. c \in Claims(Claimed, s) /\ d \in Claims(Claimed, s)
    BY <1>3, <2>0
  <2>1. s \in Clashes
    BY <1>4, <1>6, <2>a
  <2>2. QED
    BY <2>1
<1>7. QED
  BY <1>5, <1>6

-----------------------------------------------------------------------------
(* The page is calm exactly when all is well: lanes and their bodies.      *)

LEMMA FreshIs ==
    ASSUME Filed, store = Kept
    PROVE  computeLiveFreshness = "fresh" <=> store = {} \/ \E f \in store : now <= f.at + Staleness
<1>1. \A f \in store : f.at \in Nat /\ now \in Nat /\ Staleness \in Nat
  BY KeptIsFinite, RenderAssumption
<1>2. \A a, b, c \in Nat : a - b <= c <=> a <= b + c
  OBVIOUS
<1>3. \A f \in store : now - f.at <= Staleness <=> now <= f.at + Staleness
  BY <1>1, <1>2
<1>4. computeLiveFreshness = "fresh" <=> store = {} \/ \E f \in store : now - f.at <= Staleness
  BY DEF computeLiveFreshness
<1>5. QED
  BY <1>3, <1>4

LEMMA LaneColour ==
    ASSUME Filed, shop.defs # Unreadable, NEW id \in DOMAIN laneRegistry
    PROVE  composeRegister(id, LaneOf(id, TRUE), LoadVocabularies.defs) = Hot <=>
               \/ describeVocab(laneRegistry[id], LoadVocabularies.defs["positions"]) = Hot
               \/ laneRegistry[id] = "live" /\ computeLiveFreshness # "fresh"
<1> DEFINE lane == LaneOf(id, TRUE)
           a == describeVocab(laneRegistry[id], LoadVocabularies.defs["positions"])
           b == freshnessRegister(lane.freshness)
           c == IF hasRendererFor(id, lane) THEN "nominal" ELSE Hot
           live == laneRegistry[id] = "live"
<1>1. a \in {"nominal", "in-progress", Hot}
  BY DefsAre
<1>2. live \/ id \in {"freight", "fuel"}
  BY DEF laneRegistry
<1>3. lane.position = laneRegistry[id]
  BY DEF LaneOf
<1>4. lane.data = (live /\ TRUE)
  BY Zenon DEF LaneOf
<1>5. /\ ~live => lane.freshness = "not-applicable"
      /\ live => lane.freshness = computeLiveFreshness
  <2>1. lane.freshness = CASE ~live -> "not-applicable" [] live /\ ~TRUE -> "never-polled" [] OTHER -> computeLiveFreshness
    BY Zenon DEF LaneOf
  <2> HIDE DEF live, lane
  <2>2. QED
    BY <2>1
<1>6. computeLiveFreshness \in {"fresh", "stale"}
  BY DEF computeLiveFreshness
<1>7. composeRegister(id, lane, LoadVocabularies.defs) = mostSevereRegister({a, b, c})
  <2>1. composeRegister(id, lane, LoadVocabularies.defs) =
            mostSevereRegister({describeVocab(lane.position, LoadVocabularies.defs.positions), b, c})
    BY Zenon DEF composeRegister, Hot
  <2>2. QED
    BY <1>3, <2>1
<1>8. hasRendererFor(id, lane)
  BY <1>2, <1>4, Zenon DEF hasRendererFor
<1>9. c = "nominal"
  BY <1>8, Zenon
<1> HIDE DEF lane, a, c, live
<1>10. b \in {"nominal", Hot} /\ (b = Hot <=> live /\ computeLiveFreshness # "fresh")
  <2>1. CASE ~live
    <3>1. b = "nominal"
      BY <1>5, <2>1 DEF freshnessRegister
    <3>2. QED
      BY <2>1, <3>1 DEF Hot
  <2>2. CASE live /\ computeLiveFreshness = "fresh"
    <3>1. b = "nominal"
      BY <1>5, <2>2 DEF freshnessRegister
    <3>2. QED
      BY <2>2, <3>1 DEF Hot
  <2>3. CASE live /\ computeLiveFreshness = "stale"
    <3>1. b = Hot
      BY <1>5, <2>3 DEF freshnessRegister, Hot
    <3>2. QED
      BY <2>3, <3>1 DEF Hot
  <2>4. QED
    BY <1>6, <2>1, <2>2, <2>3
<1> HIDE DEF b
<1>11. mostSevereRegister({a, b, c}) = Hot <=> Hot \in {a, b, c}
  <2>1. {a, b, c} \in SUBSET {"nominal", "in-progress", Hot} /\ {a, b, c} # {}
    BY <1>1, <1>9, <1>10
  <2>2. QED
    BY <2>1, HotWins
<1>12. Hot \in {a, b, c} <=> a = Hot \/ b = Hot
  BY <1>9 DEF Hot
<1>13. QED
  BY <1>7, <1>10, <1>11, <1>12 DEF lane, a, live

LEMMA LanesInOrder ==
    ASSUME Filed, shop.defs # Unreadable, RowsGood
    PROVE  Hot \notin {composeRegister(id, LaneOf(id, TRUE), LoadVocabularies.defs) : id \in DOMAIN laneRegistry} <=>
               /\ computeLiveFreshness = "fresh"
               /\ Defined({laneRegistry[id] : id \in DOMAIN laneRegistry}, "positions")
<1> DEFINE lanes == {composeRegister(id, LaneOf(id, TRUE), LoadVocabularies.defs) : id \in DOMAIN laneRegistry}
           colour(w) == describeVocab(w, LoadVocabularies.defs["positions"])
           words == {laneRegistry[id] : id \in DOMAIN laneRegistry}
<1>1. \A id \in DOMAIN laneRegistry : composeRegister(id, LaneOf(id, TRUE), LoadVocabularies.defs) = Hot <=>
          \/ colour(laneRegistry[id]) = Hot
          \/ laneRegistry[id] = "live" /\ computeLiveFreshness # "fresh"
  BY LaneColour
<1>2. \A w : Defined({w}, "positions") <=> colour(w) # Hot
  BY DefsAre
<1>3. "dispatches" \in DOMAIN laneRegistry /\ laneRegistry["dispatches"] = "live"
  BY DEF laneRegistry
<1>4. Defined(words, "positions") <=> \A w \in words : Defined({w}, "positions")
  BY DefinedByWord
<1>5. Hot \notin lanes <=> \A id \in DOMAIN laneRegistry : composeRegister(id, LaneOf(id, TRUE), LoadVocabularies.defs) # Hot
  OBVIOUS
<1>6. \A w \in words : \E id \in DOMAIN laneRegistry : w = laneRegistry[id]
  OBVIOUS
<1>7. \A id \in DOMAIN laneRegistry : laneRegistry[id] \in words
  OBVIOUS
<1> HIDE DEF lanes, colour, words
<1>8. Defined(words, "positions") <=> \A id \in DOMAIN laneRegistry : colour(laneRegistry[id]) # Hot
  BY <1>2, <1>4, <1>6, <1>7
<1>9. Hot \notin lanes <=> computeLiveFreshness = "fresh" /\ Defined(words, "positions")
  BY <1>1, <1>3, <1>5, <1>8
<1>10. QED
  BY <1>9 DEF lanes, words

\* A car shows a dispatch that is on the board, and as that is shown.
LEMMA CarsAreShown ==
    ASSUME Filed
    PROVE  \A t \in DOMAIN Board.trains : \A c \in ToSet(Board.trains[t].cars) :
               /\ c.subject \in DOMAIN Board.dispatches
               /\ c.state = Board.dispatches[c.subject].entry.state
               /\ c.outcome = Board.dispatches[c.subject].entry.outcome
<1> DEFINE D == Dispatches(Kept)
<1>1. DOMAIN Board.trains = Readable /\ \A t \in Readable : Board.trains[t].cars = Cars(t)
  BY TrainsAre
<1>2. \A t \in Readable : \A i \in DOMAIN Cars(t) :
          /\ Cars(t)[i].subject = Members(t)[i].subject /\ Members(t)[i].subject \in DOMAIN D
          /\ Cars(t)[i].state = D[Members(t)[i].subject].state
          /\ Cars(t)[i].outcome = D[Members(t)[i].subject].outcome
  BY TrainsAre
<1>3. DOMAIN Board.dispatches = DOMAIN D /\ \A s \in DOMAIN D : Board.dispatches[s].entry = D[s]
  BY EntriesAre
<1> HIDE DEF D
<1>4. \A t \in Readable : \A i \in DOMAIN Cars(t) :
          /\ Cars(t)[i].subject \in DOMAIN Board.dispatches
          /\ Cars(t)[i].state = Board.dispatches[Cars(t)[i].subject].entry.state
          /\ Cars(t)[i].outcome = Board.dispatches[Cars(t)[i].subject].entry.outcome
  BY <1>2, <1>3
<1>5. QED
  BY <1>1, <1>4 DEF ToSet

LEMMA BodiesInOrder ==
    ASSUME Filed, shop.defs # Unreadable, RowsGood
    PROVE  LET cars == UNION {ToSet(Board.trains[t].cars) : t \in DOMAIN Board.trains}
           IN  Hot \notin buildLaneBodies(Board, LoadVocabularies.defs) <=>
                   /\ Defined({Board.dispatches[s].entry.state : s \in DOMAIN Board.dispatches}, "liveness")
                   /\ Defined({c.outcome : c \in {x \in cars : x.outcome # Nil /\ (x.role = "gate" \/ x.outcome # "")}},
                              "outcomes")
<1> DEFINE cars     == UNION {ToSet(Board.trains[t].cars) : t \in DOMAIN Board.trains}
           shown    == {Board.dispatches[s].entry.state : s \in DOMAIN Board.dispatches}
           states   == shown \cup {c.state : c \in cars}
           carried  == {c.outcome : c \in cars} \ {Nil, ""}
           drawn    == {c.outcome : c \in {x \in cars : x.outcome # Nil /\ (x.role = "gate" \/ x.outcome # "")}}
           gated    == {g.outcome : g \in Board.gates}
           V        == LoadVocabularies.defs
<1>1. \A c : c \in cars <=> \E t \in DOMAIN Board.trains : c \in ToSet(Board.trains[t].cars)
  OBVIOUS
<1>2. states = shown
  <2>1. \A c \in cars : c.state \in shown
    BY <1>1, CarsAreShown
  <2>2. QED
    BY <2>1
<1>3. gated = {c.outcome : c \in {x \in cars : x.outcome # Nil /\ x.role = "gate"}}
  <2>1. gated = {c.outcome : c \in Gates}
    <3>1. Board.gates = {[subject |-> g.subject, outcome |-> g.outcome] : g \in Gates}
      BY BoardIs, LanesAre
    <3>2. \A g \in Gates : [subject |-> g.subject, outcome |-> g.outcome].outcome = g.outcome
      OBVIOUS
    <3>3. \A o : o \in gated => \E c \in Gates : o = c.outcome
      BY <3>1
    <3>4. \A c \in Gates : c.outcome \in gated
      <4>1. TAKE c \in Gates
      <4>2. [subject |-> c.subject, outcome |-> c.outcome] \in Board.gates
        BY <3>1
      <4>3. [subject |-> c.subject, outcome |-> c.outcome].outcome \in gated
        BY <4>2, Zenon
      <4>4. QED
        BY <4>3
    <3> HIDE DEF gated
    <3>5. QED
      BY <3>3, <3>4
  <2>2. ASSUME NEW t \in DOMAIN Board.trains, NEW c \in ToSet(Board.trains[t].cars)
        PROVE  c.outcome # Nil <=> c.state = "returned"
    <3>1. \A s \in DOMAIN Board.dispatches :
              Board.dispatches[s].entry.outcome # Nil <=> Board.dispatches[s].entry.state = "returned"
      BY FiledHasType DEF TypeOK
    <3>2. QED
      BY <2>2, <3>1, CarsAreShown
  <2>3. DOMAIN Board.trains = Readable /\ \A t \in Readable : Board.trains[t].cars = Cars(t)
    BY TrainsAre
  <2>4. \A c : c \in Gates <=> \E t \in Readable : c \in ToSet(Cars(t)) /\ c.role = "gate" /\ c.state = "returned"
    BY DEF Gates
  <2>5. \A c : c \in Gates <=> c \in cars /\ c.outcome # Nil /\ c.role = "gate"
    BY <1>1, <2>2, <2>3, <2>4
  <2> HIDE DEF cars, gated
  <2>6. Gates = {x \in cars : x.outcome # Nil /\ x.role = "gate"}
    BY <2>5
  <2>7. QED
    BY <2>1, <2>6
<1>4. buildLaneBodies(Board, V) =
          {describeVocab(w, V.liveness) : w \in states} \cup {describeVocab(w, V.outcomes) : w \in carried \cup gated}
  BY Zenon DEF buildLaneBodies
<1>5. carried \cup gated = drawn
  <2> HIDE DEF cars, gated
  <2>1. \A o : o \in carried <=> \E c \in cars : o = c.outcome /\ c.outcome # Nil /\ c.outcome # ""
    OBVIOUS
  <2>2. \A o : o \in gated <=> \E c \in cars : o = c.outcome /\ c.outcome # Nil /\ c.role = "gate"
    BY <1>3
  <2>3. \A o : o \in drawn <=> \E c \in cars : o = c.outcome /\ c.outcome # Nil /\ (c.role = "gate" \/ c.outcome # "")
    OBVIOUS
  <2> DEFINE P(o) == \E c \in cars : o = c.outcome /\ c.outcome # Nil /\ (c.role = "gate" \/ c.outcome # "")
  <2>4. \A o : o \in carried \/ o \in gated <=> P(o)
    BY <2>1, <2>2
  <2>5. \A o : o \in drawn <=> P(o)
    BY <2>3
  <2> HIDE DEF carried, drawn, P
  <2>6. QED
    BY <2>4, <2>5
<1>6. buildLaneBodies(Board, V) =
          {describeVocab(w, V["liveness"]) : w \in shown} \cup {describeVocab(w, V["outcomes"]) : w \in drawn}
  BY <1>2, <1>4, <1>5
<1>7. \A w : /\ Defined({w}, "liveness") <=> describeVocab(w, V["liveness"]) # Hot
             /\ Defined({w}, "outcomes") <=> describeVocab(w, V["outcomes"]) # Hot
  BY DefsAre
<1> HIDE DEF cars, shown, drawn, V
<1>8. /\ Defined(shown, "liveness") <=> \A w \in shown : Defined({w}, "liveness")
      /\ Defined(drawn, "outcomes") <=> \A w \in drawn : Defined({w}, "outcomes")
  BY DefinedByWord
<1>9. Hot \notin buildLaneBodies(Board, V) <=>
          /\ \A w \in shown : describeVocab(w, V["liveness"]) # Hot
          /\ \A w \in drawn : describeVocab(w, V["outcomes"]) # Hot
  BY <1>6
<1>10. Hot \notin buildLaneBodies(Board, V) <=> Defined(shown, "liveness") /\ Defined(drawn, "outcomes")
  BY <1>7, <1>8, <1>9
<1>11. QED
  BY <1>10 DEF cars, shown, drawn, V

-----------------------------------------------------------------------------
(* The page is calm exactly when all is well.                              *)

\* The members of a train are those its manifest names, place by place.
MemberOf(t) ==
    [i \in DOMAIN Board.trains[t].cars \cup DOMAIN Board.trains[t].declaredNotObserved |->
         IF i \in DOMAIN Board.trains[t].cars THEN Board.trains[t].cars[i].subject
         ELSE Board.trains[t].declaredNotObserved[i].subject]

LEMMA MembersAreShown ==
    ASSUME Filed, NEW t \in Readable
    PROVE  DOMAIN MemberOf(t) = DOMAIN Members(t) /\ \A i \in DOMAIN Members(t) : MemberOf(t)[i] = Members(t)[i].subject
<1> DEFINE cars == Board.trains[t].cars
           rest == Board.trains[t].declaredNotObserved
           M    == Members(t)
<1>1. /\ DOMAIN cars \subseteq DOMAIN M /\ \A i \in DOMAIN cars : cars[i].subject = M[i].subject
      /\ rest = [i \in DOMAIN M \ DOMAIN cars |-> M[i]]
  <2>1. /\ cars = Cars(t)
        /\ DOMAIN Cars(t) = {i \in DOMAIN M : M[i].subject \in DOMAIN Dispatches(Kept)}
        /\ \A i \in DOMAIN Cars(t) : Cars(t)[i].subject = M[i].subject
        /\ rest = [i \in DOMAIN M \ DOMAIN Cars(t) |-> M[i]]
    BY TrainsAre
  <2> HIDE DEF cars, rest, M
  <2>2. QED
    BY <2>1
<1>2. MemberOf(t) = [i \in DOMAIN cars \cup DOMAIN rest |-> IF i \in DOMAIN cars THEN cars[i].subject ELSE rest[i].subject]
  BY DEF MemberOf
<1> HIDE DEF cars, rest, M
<1>3. DOMAIN MemberOf(t) = DOMAIN M
  BY <1>1, <1>2
<1>4. \A i \in DOMAIN M : MemberOf(t)[i] = M[i].subject
  BY <1>1, <1>2
<1>5. QED
  BY <1>3, <1>4 DEF M

\* No member is named twice.
NoneTwice ==
    LET claims == UNION {{t} \X DOMAIN MemberOf(t) : t \in DOMAIN Board.trains}
    IN  \A c, d \in claims : c # d => MemberOf(c[1])[c[2]] # MemberOf(d[1])[d[2]]

LEMMA MembersInOrder ==
    ASSUME Filed
    PROVE  Clashes = {} <=> NoneTwice
<1> DEFINE claims == UNION {{t} \X DOMAIN MemberOf(t) : t \in DOMAIN Board.trains}
<1>1. DOMAIN Board.trains = Readable
  BY TrainsAre
<1>2. \A t \in Readable : DOMAIN MemberOf(t) = DOMAIN Members(t)
  BY MembersAreShown
<1>3. \A c : c \in claims <=> \E t \in Readable : c \in {t} \X DOMAIN MemberOf(t)
  BY <1>1
<1>4. \A c : c \in Places <=> \E t \in Readable : c \in {t} \X DOMAIN Members(t)
  BY DEF Places
<1>5. claims = Places
  BY <1>2, <1>3, <1>4
<1>6. \A c \in Places : c[1] \in Readable /\ c[2] \in DOMAIN Members(c[1])
  BY <1>4
<1>7. \A c \in Places : MemberOf(c[1])[c[2]] = Members(c[1])[c[2]].subject
  BY <1>6, MembersAreShown
<1>8. NoneTwice <=> \A c, d \in claims : c # d => MemberOf(c[1])[c[2]] # MemberOf(d[1])[d[2]]
  BY Zenon DEF NoneTwice
<1> HIDE DEF claims
<1>9. QED
  BY <1>5, <1>7, <1>8, ClaimsInOrder

\* What Well asks, by name.
ShopGood == {Unreadable, {}} \cap {shop.kinds, shop.outcomes} = {} /\ shop.defaults # Unreadable
Apart == \A f, g \in store : f.kind = "intent" /\ g.kind \in DispatchKinds => f.subject # g.subject \/ f.subject = ""
AllShown == \A t \in Trains : InStore(t, "intent") # {} => t \in DOMAIN Board.trains
Young == store = {} \/ \E f \in store : now <= f.at + Staleness
PositionsDefined == Defined({laneRegistry[id] : id \in DOMAIN laneRegistry}, "positions")
StatesDefined == Defined({Board.dispatches[s].entry.state : s \in DOMAIN Board.dispatches}, "liveness")
OutcomesDefined ==
    LET cars == UNION {ToSet(Board.trains[t].cars) : t \in DOMAIN Board.trains}
    IN  Defined({c.outcome : c \in {x \in cars : x.outcome # Nil /\ (x.role = "gate" \/ x.outcome # "")}}, "outcomes")

LEMMA WellSays ==
    Well(Board) <=>
        /\ ShopGood /\ Clean /\ Known /\ RowsGood /\ Apart /\ AllShown /\ NoneTwice
        /\ Young /\ PositionsDefined /\ StatesDefined /\ OutcomesDefined
<1> DEFINE cars == UNION {ToSet(Board.trains[t].cars) : t \in DOMAIN Board.trains}
           Member(t)  == [i \in DOMAIN Board.trains[t].cars \cup DOMAIN Board.trains[t].declaredNotObserved |->
                              IF i \in DOMAIN Board.trains[t].cars THEN Board.trains[t].cars[i].subject
                              ELSE Board.trains[t].declaredNotObserved[i].subject]
           claims     == UNION {{t} \X DOMAIN Member(t) : t \in DOMAIN Board.trains}
           files == \A f \in store : /\ Survives(f) /\ ~f.extra
                            /\ f.kind \in shop.kinds \cup {""} /\ f.outcome \in shop.outcomes \cup {Nil, ""}
           once == \A c, d \in claims : c # d => Member(c[1])[c[2]] # Member(d[1])[d[2]]
           outcomes == Defined({c.outcome : c \in {x \in cars : x.outcome # Nil /\ (x.role = "gate" \/ x.outcome # "")}},
                               "outcomes")
<1>1. Well(Board) <=>
        /\ ShopGood /\ files /\ RowsGood /\ Apart /\ AllShown /\ once
        /\ Young /\ PositionsDefined /\ StatesDefined /\ outcomes
  BY Zenon DEF Well, ShopGood, RowsGood, Apart, AllShown, Young, PositionsDefined, StatesDefined
<1>2. files <=> Clean /\ Known
  BY Zenon DEF Clean, Known
<1>3. once <=> NoneTwice
  BY Zenon DEF NoneTwice, MemberOf
<1>4. outcomes <=> OutcomesDefined
  BY Zenon DEF OutcomesDefined
<1> HIDE DEF files, once, outcomes
<1>5. QED
  BY <1>1, <1>2, <1>3, <1>4

\* The board lists no condition exactly when the files and the shop's words are good.
LEMMA BoardInOrder ==
    ASSUME Filed
    PROVE  Board.conditions = {} <=> ShopGood /\ Clean /\ Known /\ Apart /\ AllShown /\ NoneTwice
<1>1. Board.conditions = {} <=>
          /\ StartConditions = {} /\ Scan.conditions = {} /\ Out.faults = {} /\ Out.discoveries = {}
          /\ Spaces = {} /\ Manifests \ Readable = {} /\ Clashes = {}
  BY NoCondition
<1>2. StartConditions = {} /\ Out.faults = {} <=> ShopGood
  BY ShopInOrder DEF ShopGood
<1>3. (Scan.conditions = {} <=> Clean) /\ (Clean => store = Kept)
  BY FilesInOrder
<1>4. ShopGood /\ Clean => (Out.discoveries = {} <=> Known)
  BY FilesInOrder DEF ShopGood
<1>5. store = Kept => (Spaces = {} <=> Apart)
  BY SpacesInOrder DEF Apart
<1>6. Manifests \ Readable = {} <=> AllShown
  BY ManifestsInOrder DEF AllShown
<1>7. Clashes = {} <=> NoneTwice
  BY MembersInOrder
<1>8. QED
  BY <1>1, <1>2, <1>3, <1>4, <1>5, <1>6, <1>7

\* A page that shows the board is calm iff its conditions, lanes and bodies are.
LEMMA CalmSays ==
    ASSUME Filed, shop.defs # Unreadable
    PROVE  Calm(buildBoardViewModel(Board, TRUE)) <=>
               /\ RowsGood /\ Board.conditions = {}
               /\ Hot \notin {composeRegister(id, LaneOf(id, TRUE), LoadVocabularies.defs) : id \in DOMAIN laneRegistry}
               /\ Hot \notin buildLaneBodies(Board, LoadVocabularies.defs)
<1> DEFINE V     == LoadVocabularies
           lanes == {composeRegister(id, LaneOf(id, TRUE), V.defs) : id \in DOMAIN laneRegistry}
           view  == [conditions |-> V.conditions \cup Board.conditions, lanes |-> lanes,
                     bodies |-> buildLaneBodies(Board, V.defs)]
<1>1. DOMAIN V.defs # {}
  BY DefsAre
<1>2. buildBoardViewModel(Board, TRUE) =
          IF DOMAIN V.defs = {} THEN Discarded
          ELSE [conditions |-> V.conditions \cup IF TRUE THEN Board.conditions ELSE StartConditions,
                lanes |-> lanes, bodies |-> IF TRUE THEN buildLaneBodies(Board, V.defs) ELSE {}]
  BY Zenon DEF buildBoardViewModel
<1> HIDE DEF V, lanes
<1>3. buildBoardViewModel(Board, TRUE) = view
  BY <1>1, <1>2
<1>4. Calm(view) <=> V.conditions \cup Board.conditions = {} /\ Hot \notin lanes \cup buildLaneBodies(Board, V.defs)
  BY DEF Calm, Hot
<1>5. V.conditions = {} <=> RowsGood
  BY DefsAre DEF V
<1> HIDE DEF view
<1>6. Calm(buildBoardViewModel(Board, TRUE)) <=>
          /\ RowsGood /\ Board.conditions = {}
          /\ Hot \notin lanes /\ Hot \notin buildLaneBodies(Board, V.defs)
  BY <1>3, <1>4, <1>5
<1>7. QED
  BY <1>6 DEF lanes, V

LEMMA ShownCalmIffWell ==
    ASSUME Filed, shop.defs # Unreadable
    PROVE  Calm(buildBoardViewModel(Board, TRUE)) <=> Well(Board)
<1> DEFINE lanes  == {composeRegister(id, LaneOf(id, TRUE), LoadVocabularies.defs) : id \in DOMAIN laneRegistry}
           bodies == buildLaneBodies(Board, LoadVocabularies.defs)
<1>1. Calm(buildBoardViewModel(Board, TRUE)) <=>
          RowsGood /\ Board.conditions = {} /\ Hot \notin lanes /\ Hot \notin bodies
  BY CalmSays
<1>2. Clean => store = Kept
  BY FilesInOrder
<1>3. store = Kept => (computeLiveFreshness = "fresh" <=> Young)
  BY FreshIs DEF Young
<1>4. RowsGood => (Hot \notin lanes <=> computeLiveFreshness = "fresh" /\ PositionsDefined)
  BY LanesInOrder DEF PositionsDefined
<1>5. RowsGood => (Hot \notin bodies <=> StatesDefined /\ OutcomesDefined)
  BY BodiesInOrder, Zenon DEF StatesDefined, OutcomesDefined
<1> HIDE DEF lanes, bodies
<1>6. QED
  BY <1>1, <1>2, <1>3, <1>4, <1>5, BoardInOrder, WellSays

\* Before the first poll a live lane has nothing to draw.
LEMMA StartIsNotCalm ==
    ASSUME Filed, shop.defs # Unreadable
    PROVE  ~Calm(buildBoardViewModel(Nil, FALSE))
<1> DEFINE V     == LoadVocabularies
           lane  == LaneOf("dispatches", FALSE)
           lanes == {composeRegister(id, LaneOf(id, FALSE), V.defs) : id \in DOMAIN laneRegistry}
           a     == describeVocab(lane.position, V.defs["positions"])
           b     == freshnessRegister(lane.freshness)
<1>1. DOMAIN V.defs # {} /\ a \in {"nominal", "in-progress", Hot}
  BY DefsAre
<1>2. b \in {"nominal", "in-progress", Hot}
  BY Zenon DEF freshnessRegister, Hot
<1>3. "dispatches" \in DOMAIN laneRegistry /\ laneRegistry["dispatches"] = "live"
  BY DEF laneRegistry
<1>4. lane.data = (laneRegistry["dispatches"] = "live" /\ FALSE)
  BY Zenon DEF LaneOf
<1>5. ~hasRendererFor("dispatches", lane)
  BY <1>4 DEF hasRendererFor
<1>6. composeRegister("dispatches", lane, V.defs) =
          mostSevereRegister({a, b, IF hasRendererFor("dispatches", lane) THEN "nominal" ELSE Hot})
  <2>1. composeRegister("dispatches", lane, V.defs) =
          mostSevereRegister({describeVocab(lane.position, V.defs.positions), b,
                              IF hasRendererFor("dispatches", lane) THEN "nominal" ELSE Hot})
    BY Zenon DEF composeRegister, Hot
  <2>2. QED
    BY <2>1
<1> HIDE DEF V, lane, a, b
<1>7. {a, b, Hot} \in SUBSET {"nominal", "in-progress", Hot} /\ {a, b, Hot} # {}
  BY <1>1, <1>2
<1>8. composeRegister("dispatches", lane, V.defs) = Hot
  BY <1>5, <1>6, <1>7, HotWins
<1>9. Hot \in lanes
  BY <1>3, <1>8 DEF lane
<1>10. buildBoardViewModel(Nil, FALSE) =
          IF DOMAIN V.defs = {} THEN Discarded
          ELSE [conditions |-> V.conditions \cup IF FALSE THEN Nil.conditions ELSE StartConditions,
                lanes |-> lanes, bodies |-> IF FALSE THEN buildLaneBodies(Nil, V.defs) ELSE {}]
  BY Zenon DEF buildBoardViewModel, V
<1> DEFINE conditions == V.conditions \cup IF FALSE THEN Nil.conditions ELSE StartConditions
           bodies     == IF FALSE THEN buildLaneBodies(Nil, V.defs) ELSE {}
<1> HIDE DEF lanes, conditions, bodies
<1>11. buildBoardViewModel(Nil, FALSE).lanes = lanes
  <2>1. buildBoardViewModel(Nil, FALSE) = [conditions |-> conditions, lanes |-> lanes, bodies |-> bodies]
    BY <1>1, <1>10, Zenon DEF conditions, bodies
  <2>2. \A x, y, z : [conditions |-> x, lanes |-> y, bodies |-> z].lanes = y
    OBVIOUS
  <2>3. QED
    BY <2>1, <2>2, Zenon
<1>12. QED
  BY <1>9, <1>11 DEF Calm, Hot

LEMMA FiledCalmIffWell ==
    ASSUME Filed
    PROVE  CalmIffWell
<1>1. shop.defs # Unreadable =>
          /\ Calm(buildBoardViewModel(Board, TRUE)) <=> Well(Board)
          /\ ~Calm(buildBoardViewModel(Nil, FALSE))
  BY ShownCalmIffWell, StartIsNotCalm
<1>2. QED
  BY <1>1, Zenon DEF CalmIffWell

\* The page is calm exactly when all is well, on every board the server may publish of
\* any files, at any time, under any definitions; and never before the first poll.
THEOREM PageIsCalmIffWell == Spec => []CalmIffWell
<1>1. Filed => CalmIffWell
  BY FiledCalmIffWell
<1>2. QED
  BY <1>1, AlwaysFiled, PTL

-----------------------------------------------------------------------------
(* The names of the files decide only between records that tie.            *)

\* No two records of one subject and kind are of one instant.
Untied == \A r, q \in Kept : r # q /\ r.subject = q.subject /\ r.kind = q.kind => r.at # q.at

\* The same files, clock and shop, in another order of the paths.
Renamed == Filed /\ Filed' /\ Untied /\ UNCHANGED <<store, now, shop>>

\* Two records of the set never tie.
Decides(S, ahead) == ByKey(S, ahead) /\ \A r, q \in S : r # q => <<r, q>> \in ahead \/ <<q, r>> \in ahead

\* The sort with no say of the order of the paths.
KeySort(S, ahead) ==
    [k \in 1..Cardinality(S) |-> CHOOSE r \in S : Cardinality({q \in S : <<q, r>> \in ahead}) + 1 = k]

SortsByKey ==
    \A S \in SUBSET (Pool \cup Damaged) : \A ahead : Decides(S, ahead) => StableSort(S, ahead) = KeySort(S, ahead)

LEMMA FiledSortsByKey == Filed => SortsByKey
<1> SUFFICES ASSUME Filed, NEW S \in SUBSET (Pool \cup Damaged), NEW ahead, Decides(S, ahead)
             PROVE  StableSort(S, ahead) = KeySort(S, ahead)
  BY DEF SortsByKey
<1>1. \A r, q \in S : /\ <<r, q>> \in ahead => <<q, r>> \notin ahead
                      /\ r # q => <<r, q>> \in ahead \/ <<q, r>> \in ahead
  BY DEF Decides, ByKey
<1>2. \A r \in S : ~Before(r, r)
  BY BeforeIsTotal
<1>3. ASSUME NEW r \in S, NEW q \in S PROVE Precedes(q, r, ahead) <=> <<q, r>> \in ahead
  <2>1. CASE r = q
    <3>1. <<r, r>> \notin ahead /\ ~Before(r, r)
      BY <1>1, <1>2
    <3>2. QED
      BY <2>1, <3>1, Zenon DEF Precedes
  <2>2. CASE r # q
    <3>1. <<q, r>> \in ahead \/ <<r, q>> \in ahead
      BY <1>1, <2>2
    <3>2. QED
      BY <3>1, Zenon DEF Precedes
  <2>3. QED
    BY <2>1, <2>2
<1>4. \A r \in S : {q \in S : Precedes(q, r, ahead)} = {q \in S : <<q, r>> \in ahead}
  BY <1>3
<1>5. \A r \in S : Rank(r, S, ahead) = Cardinality({q \in S : <<q, r>> \in ahead}) + 1
  BY <1>4 DEF Rank
<1>6. \A k : (CHOOSE r \in S : Rank(r, S, ahead) = k) =
             CHOOSE r \in S : Cardinality({q \in S : <<q, r>> \in ahead}) + 1 = k
  <2> TAKE k
  <2>1. \A r : r \in S /\ Rank(r, S, ahead) = k <=> r \in S /\ Cardinality({q \in S : <<q, r>> \in ahead}) + 1 = k
    BY <1>5
  <2>2. QED
    BY <2>1
<1> DEFINE byRank(k) == CHOOSE r \in S : Rank(r, S, ahead) = k
           byKey(k)  == CHOOSE r \in S : Cardinality({q \in S : <<q, r>> \in ahead}) + 1 = k
           n         == Cardinality(S)
<1>7. StableSort(S, ahead) = [k \in 1..n |-> byRank(k)] /\ KeySort(S, ahead) = [k \in 1..n |-> byKey(k)]
  BY Zenon DEF StableSort, KeySort
<1>8. \A k : byRank(k) = byKey(k)
  BY <1>6, Zenon
<1> HIDE DEF byRank, byKey, n
<1>9. QED
  BY <1>7, <1>8

LEMMA SortStays ==
    ASSUME Renamed, NEW S \in SUBSET (Pool \cup Damaged), NEW ahead, Decides(S, ahead)
    PROVE  StableSort(S, ahead)' = StableSort(S, ahead)
<1>1. SortsByKey
  BY FiledSortsByKey DEF Renamed
<1>2. SortsByKey'
  <2>1. Filed' => SortsByKey'
    BY FiledSortsByKey, PTL
  <2>2. QED
    BY <2>1 DEF Renamed
<1>3. StableSort(S, ahead) = KeySort(S, ahead)
  BY <1>1 DEF SortsByKey
<1>4. StableSort(S, ahead)' = KeySort(S, ahead)'
  BY <1>2 DEF SortsByKey
<1>5. KeySort(S, ahead)' = KeySort(S, ahead)
  BY DEF KeySort
<1>6. QED
  BY <1>3, <1>4, <1>5

LEMMA KeptStays ==
    ASSUME Renamed
    PROVE  Kept' = Kept /\ \A s : Own(s)' = Own(s) /\ OwnIntents(s)' = OwnIntents(s)
<1>1. Kept' = Kept
  BY DEF Renamed, Kept, Survives
<1>2. QED
  BY <1>1 DEF Own, OwnIntents, OfSubject

LEMMA OrdersDecide ==
    ASSUME Renamed, NEW s
    PROVE  /\ Own(s) \in SUBSET (Pool \cup Damaged) /\ Decides(Own(s), AheadIn(Own(s)))
           /\ OwnIntents(s) \in SUBSET (Pool \cup Damaged) /\ Decides(OwnIntents(s), LaterIn(OwnIntents(s)))
<1>1. Own(s) \in SUBSET Kept /\ OwnIntents(s) \in SUBSET Kept
  BY DEF Own, OwnIntents, OfSubject
<1>2. /\ Own(s) \in SUBSET (Pool \cup Damaged) /\ ByKey(Own(s), AheadIn(Own(s)))
      /\ OwnIntents(s) \in SUBSET (Pool \cup Damaged) /\ ByKey(OwnIntents(s), LaterIn(OwnIntents(s)))
  BY <1>1, OrdersAreByKey DEF Renamed
<1>3. \A r \in Kept : r.at \in Nat
  BY KeptIsFinite DEF Renamed
<1>4. ASSUME NEW r \in OwnIntents(s), NEW q \in OwnIntents(s), r # q PROVE Later(r, q) \/ Later(q, r)
  <2>1. r.at # q.at
    BY <1>1, <1>4 DEF Renamed, Untied, OwnIntents, OfSubject
  <2>2. r.at \in Nat /\ q.at \in Nat
    BY <1>1, <1>3
  <2>3. QED
    BY <2>1, <2>2 DEF Later
<1>5. ASSUME NEW r \in Own(s), NEW q \in Own(s), r # q PROVE Ahead(r, q) \/ Ahead(q, r)
  <2>1. /\ r.kind \in {"dispatched", "returned", "presumed-lost"} /\ r.subject = s /\ r \in Kept
        /\ q.kind \in {"dispatched", "returned", "presumed-lost"} /\ q.subject = s /\ q \in Kept
    BY <1>1, OwnByKind
  <2>2. r.kind = q.kind => r.at # q.at
    BY <1>5, <2>1 DEF Renamed, Untied
  <2>3. precedence(r.kind) = precedence(q.kind) => r.kind = q.kind
    BY <2>1 DEF precedence
  <2>4. r.at \in Nat /\ q.at \in Nat /\ precedence(r.kind) \in Nat /\ precedence(q.kind) \in Nat
    BY <1>3, <2>1, PrecedenceIsNat
  <2>5. QED
    BY <2>2, <2>3, <2>4 DEF Ahead, Later
<1>6. QED
  BY <1>2, <1>4, <1>5 DEF Decides, AheadIn, LaterIn

LEMMA EntriesStay ==
    ASSUME Renamed
    PROVE  Dispatches(Kept)' = Dispatches(Kept)
<1> DEFINE D == Dispatches(Kept)
<1>1. now' = now /\ shop' = shop /\ Kept' = Kept
  BY KeptStays DEF Renamed
<1>2. \A r : budgetOf(r)' = budgetOf(r)
  BY <1>1 DEF budgetOf, LoadDefaultBudget
<1>3. \A r : isOverdue(r)' = isOverdue(r)
  BY <1>1, <1>2, Zenon DEF isOverdue
<1>4. ASSUME NEW own \in SUBSET (Pool \cup Damaged), Decides(own, AheadIn(own))
      PROVE  foldDispatchSubject(own)' = foldDispatchSubject(own)
  <2> DEFINE ahead == {p \in own \X own : Ahead(p[1], p[2])}
  <2>1. StableSort(own, ahead)' = StableSort(own, ahead)
    BY <1>4, SortStays DEF AheadIn
  <2>2. ahead' = ahead
    BY DEF Ahead, Later
  <2> HIDE DEF ahead
  <2>3. QED
    BY <1>1, <1>2, <1>3, <2>1, <2>2 DEF foldDispatchSubject, ahead
<1>5. /\ D = [s \in Subjects(Kept, DispatchKinds) |-> foldDispatchSubject(Own(s))]
      /\ D' = [s \in Subjects(Kept, DispatchKinds) |-> foldDispatchSubject(Own(s))']
  BY <1>1 DEF Dispatches, Own, Subjects
<1>6. \A s : foldDispatchSubject(Own(s))' = foldDispatchSubject(Own(s))
  <2> TAKE s
  <2>1. PICK own : own = Own(s)
    OBVIOUS
  <2>2. Own(s)' = own
    BY <2>1, KeptStays
  <2>3. foldDispatchSubject(own)' = foldDispatchSubject(own)
    BY <1>4, <2>1, OrdersDecide
  <2>4. QED
    BY <2>1, <2>2, <2>3 DEF foldDispatchSubject
<1> HIDE DEF D
<1>7. D' = D
  BY <1>5, <1>6
<1>8. QED
  BY <1>7 DEF D

LEMMA IntentsStay ==
    ASSUME Renamed
    PROVE  Out.intents' = Out.intents
<1>1. Kept' = Kept
  BY KeptStays
<1>2. ASSUME NEW own \in SUBSET (Pool \cup Damaged), Decides(own, LaterIn(own))
      PROVE  foldIntentSubject(own)' = foldIntentSubject(own)
  <2> DEFINE ahead == {p \in own \X own : Later(p[1], p[2])}
  <2>1. StableSort(own, ahead)' = StableSort(own, ahead)
    BY <1>2, SortStays DEF LaterIn
  <2>2. ahead' = ahead
    BY DEF Later
  <2> HIDE DEF ahead
  <2>3. QED
    BY <2>1, <2>2 DEF foldIntentSubject, ahead
<1>3. /\ Out.intents = [s \in Subjects(Kept, {"intent"}) |-> foldIntentSubject(OwnIntents(s))]
      /\ Out.intents' = [s \in Subjects(Kept, {"intent"}) |-> foldIntentSubject(OwnIntents(s))']
  BY <1>1 DEF Out, Fold, Scan, OwnIntents, Subjects
<1>4. \A s : foldIntentSubject(OwnIntents(s))' = foldIntentSubject(OwnIntents(s))
  <2> TAKE s
  <2>1. PICK own : own = OwnIntents(s)
    OBVIOUS
  <2>2. OwnIntents(s)' = own
    BY <2>1, KeptStays
  <2>3. foldIntentSubject(own)' = foldIntentSubject(own)
    BY <1>2, <2>1, OrdersDecide
  <2>4. QED
    BY <2>1, <2>2, <2>3 DEF foldIntentSubject
<1>5. QED
  BY <1>3, <1>4

LEMMA FirstOfOne == \A r : FirstListed({r}) = r /\ FirstListed({r})' = r
<1> TAKE r
<1>1. /\ \E x \in {r} : \A q \in {r} \ {x} : Before(x, q)
      /\ \E x \in {r} : \A q \in {r} \ {x} : Before(x, q)'
  OBVIOUS
<1>2. FirstListed({r}) \in {r}
  BY <1>1, Zenon DEF FirstListed
<1>3. FirstListed({r})' \in {r}
  BY <1>1, Zenon DEF FirstListed
<1>4. QED
  BY <1>2, <1>3

LEMMA ManifestsStay ==
    ASSUME Renamed
    PROVE  /\ Manifests' = Manifests /\ Readable' = Readable
           /\ \A t \in Manifests : Members(t)' = Members(t)
<1>1. Kept' = Kept /\ Out.intents' = Out.intents
  BY KeptStays, IntentsStay
<1>2. Manifests' = Manifests
  BY <1>1 DEF Manifests
<1>3. ASSUME NEW t \in Manifests PROVE Chosen(t)' = Chosen(t)
  <2>1. Raw(t)' = Raw(t)
    BY <1>1 DEF Raw, findRawIntentRecord, OfSubject
  <2>2. Chosen(t) \in Raw(t)
    BY <1>3, ManifestIsFound DEF Renamed
  <2>3. \A r \in Raw(t) : r \in Kept /\ r.subject = t /\ r.kind = "intent" /\ AtString(r) = Out.intents[t].at
    BY DEF Raw, findRawIntentRecord, OfSubject
  <2>4. \A r, q \in Raw(t) : r.at = q.at
    <3>1. \A r, q \in Raw(t) : AtString(r) = AtString(q)
      BY <2>3
    <3>2. QED
      BY <3>1 DEF AtString
  <2>5. \A r, q \in Raw(t) : r = q
    BY <2>3, <2>4 DEF Renamed, Untied
  <2>6. PICK c : Raw(t) = {c}
    BY <2>2, <2>5
  <2>7. Chosen(t) = c
    BY <2>6, FirstOfOne DEF Chosen
  <2>8. Chosen(t)' = FirstListed({c})'
    BY <2>1, <2>6 DEF Chosen, FirstListed
  <2>9. QED
    BY <2>7, <2>8, FirstOfOne
<1>4. Readable' = Readable
  BY <1>2, <1>3 DEF Readable
<1>5. \A t \in Manifests : Members(t)' = Members(t)
  BY <1>3 DEF Members, manifestPayload
<1>6. QED
  BY <1>2, <1>4, <1>5

\* What LanesAre and BoardIs say, as formulas that can be primed.
LaneParts ==
    LET A == Assemble(Kept, Out)
        D == Dispatches(Kept)
    IN  /\ A.trains = [t \in Readable |-> Train(Members(t), D)]
        /\ A.gates = {[subject |-> g.subject, outcome |-> g.outcome] : g \in Gates}
        /\ A.dispatches = [s \in DOMAIN D |-> [entry |-> D[s], assigned |-> s \in Assigned]]
        /\ A.conditions =
               {<<"subject-namespace-collision", s>> : s \in DOMAIN D \cap DOMAIN Out.intents}
               \cup {<<"manifest-payload-unreadable", t>> : t \in Manifests \ Readable}
               \cup {<<"manifest-membership-collision", s>> :
                         s \in {m \in Assigned : Cardinality(Claims(Claimed, m)) > 1}}

More == StartConditions \cup Scan.conditions
        \cup {<<"fold-fault", fs>> : fs \in {Out.faults} \ {{}}}
        \cup {<<"discovery", d>> : d \in Out.discoveries}

BoardParts ==
    LET A == Assemble(Kept, Out)
    IN  Board = [conditions |-> A.conditions \cup More, trains |-> A.trains,
                 gates |-> A.gates, dispatches |-> A.dispatches]

LEMMA FiledHasLaneParts == Filed => LaneParts
  BY LanesAre, Zenon DEF LaneParts

LEMMA BoardHasParts == BoardParts
<1> DEFINE A == Assemble(Kept, Out)
<1>1. Scan.records = Kept /\ Out = Fold(Kept)
  BY DEF Scan, Out
<1>2. Board = [A EXCEPT !.conditions =
                @ \cup StartConditions \cup Scan.conditions
                  \cup {<<"fold-fault", fs>> : fs \in {Out.faults} \ {{}}}
                  \cup {<<"discovery", d>> : d \in Out.discoveries}]
  BY <1>1, Zenon DEF Board
<1>3. \E c, t, g, d : A = [conditions |-> c, trains |-> t, gates |-> g, dispatches |-> d]
  BY Zenon DEF Assemble
<1>4. BoardParts <=> Board = [conditions |-> A.conditions \cup More, trains |-> A.trains,
                              gates |-> A.gates, dispatches |-> A.dispatches]
  BY Zenon DEF BoardParts
<1> HIDE DEF A
<1>5. Board = [conditions |-> A.conditions \cup More, trains |-> A.trains,
               gates |-> A.gates, dispatches |-> A.dispatches]
  BY <1>2, <1>3 DEF More
<1>6. QED
  BY <1>4, <1>5

LEMMA LanesStay ==
    ASSUME Renamed
    PROVE  /\ Assemble(Kept, Out).trains' = Assemble(Kept, Out).trains
           /\ Assemble(Kept, Out).gates' = Assemble(Kept, Out).gates
           /\ Assemble(Kept, Out).dispatches' = Assemble(Kept, Out).dispatches
           /\ Assemble(Kept, Out).conditions' = Assemble(Kept, Out).conditions
<1> DEFINE D  == Dispatches(Kept)
           A  == Assemble(Kept, Out)
<1>1. LaneParts
  BY FiledHasLaneParts DEF Renamed
<1>2. LaneParts'
  <2>1. Filed' => LaneParts'
    BY FiledHasLaneParts, PTL
  <2>2. QED
    BY <2>1 DEF Renamed
<1>3. D' = D /\ DOMAIN Out.intents' = DOMAIN Out.intents
  BY EntriesStay, IntentsStay
<1>4. /\ Manifests' = Manifests /\ Readable' = Readable
      /\ \A t \in Readable : Members(t)' = Members(t)
  BY ManifestsStay DEF Readable
<1>5. Assigned' = Assigned /\ Claimed' = Claimed
  BY <1>4 DEF Assigned, Claimed
<1>6. \A t \in Readable : Train(Members(t), D)' = Train(Members(t), D)
  BY <1>3, <1>4 DEF Train, Car
<1>7. \A t \in Readable : Cars(t)' = Cars(t)
  BY <1>6 DEF Cars
<1>8. Gates' = Gates
  BY <1>4, <1>7 DEF Gates
<1>9. /\ A.trains = [t \in Readable |-> Train(Members(t), D)]
      /\ A.trains' = [t \in Readable' |-> Train(Members(t), D)']
      /\ A.gates = {[subject |-> g.subject, outcome |-> g.outcome] : g \in Gates}
      /\ A.gates' = {[subject |-> g.subject, outcome |-> g.outcome] : g \in Gates'}
      /\ A.dispatches = [s \in DOMAIN D |-> [entry |-> D[s], assigned |-> s \in Assigned]]
      /\ A.dispatches' = [s \in DOMAIN D' |-> [entry |-> D'[s], assigned |-> s \in Assigned']]
      /\ A.conditions =
             {<<"subject-namespace-collision", s>> : s \in DOMAIN D \cap DOMAIN Out.intents}
             \cup {<<"manifest-payload-unreadable", t>> : t \in Manifests \ Readable}
             \cup {<<"manifest-membership-collision", s>> :
                       s \in {m \in Assigned : Cardinality(Claims(Claimed, m)) > 1}}
      /\ A.conditions' =
             {<<"subject-namespace-collision", s>> : s \in DOMAIN D' \cap DOMAIN Out.intents'}
             \cup {<<"manifest-payload-unreadable", t>> : t \in Manifests' \ Readable'}
             \cup {<<"manifest-membership-collision", s>> :
                       s \in {m \in Assigned' : Cardinality(Claims(Claimed', m)) > 1}}
  BY <1>1, <1>2, Zenon DEF LaneParts, Claims
<1> HIDE DEF A
<1>10. A.trains' = A.trains
  BY <1>4, <1>6, <1>9
<1>11. A.gates' = A.gates
  BY <1>8, <1>9
<1>12. A.dispatches' = A.dispatches
  BY <1>3, <1>5, <1>9
<1>13. A.conditions' = A.conditions
  BY <1>3, <1>4, <1>5, <1>9 DEF Claims
<1>14. QED
  BY <1>10, <1>11, <1>12, <1>13 DEF A

\* Rename the files, and the board stays as it is, unless two records of one subject and
\* kind are of one instant: the paths say nothing that the records do not
\* (store.go:162-185 lists by path, algorithm.go:183-190 sorts stably, assemble.go:195-206
\* takes the first that matches).
THEOREM NamesDoNotMatter == Renamed => Board' = Board
<1> SUFFICES ASSUME Renamed PROVE Board' = Board
  OBVIOUS
<1> DEFINE A == Assemble(Kept, Out)
<1>1. now' = now /\ shop' = shop /\ store' = store /\ Kept' = Kept
  BY KeptStays DEF Renamed
<1>2. More' = More
  <2>1. StartConditions' = StartConditions
    BY <1>1 DEF StartConditions
  <2>2. Scan.conditions' = Scan.conditions
    BY <1>1 DEF Scan, Survives
  <2>3. LoadVocab' = LoadVocab /\ emptyVocabFiles' = emptyVocabFiles
    BY <1>1 DEF LoadVocab, emptyVocabFiles
  <2>4. Out.faults' = Out.faults
    BY <2>3 DEF Out, Fold
  <2>5. Out.discoveries' = Out.discoveries
    BY <1>1, <2>3 DEF Out, Fold, Discoveries, Scan
  <2>6. QED
    BY <2>1, <2>2, <2>4, <2>5 DEF More
<1>3. A.trains' = A.trains /\ A.gates' = A.gates /\ A.dispatches' = A.dispatches /\ A.conditions' = A.conditions
  BY LanesStay
<1>4. /\ Board = [conditions |-> A.conditions \cup More, trains |-> A.trains,
                  gates |-> A.gates, dispatches |-> A.dispatches]
      /\ Board' = [conditions |-> A.conditions' \cup More', trains |-> A.trains',
                   gates |-> A.gates', dispatches |-> A.dispatches']
  <2>1. BoardParts /\ BoardParts'
    BY BoardHasParts, PTL
  <2>2. QED
    BY <2>1, Zenon DEF BoardParts
<1> HIDE DEF A
<1>5. QED
  BY <1>2, <1>3, <1>4

=============================================================================
