---------------------------- MODULE Catalog_proofs ----------------------------
(* Proofs about Catalog and ServiceDiscovery, for any services, components *)
(* and templates.                                                          *)
EXTENDS Catalog, FiniteSetTheorems, SequenceTheorems, WellFoundedInduction, TLAPS

-----------------------------------------------------------------------------
(* The operators *)

(* A set of numbers that is not empty has a least one, which is its Min. *)
LEMMA LeastNumber ==
  ASSUME NEW S \in SUBSET Nat, S # {}
  PROVE  Min(S) \in S /\ \A y \in S : Min(S) <= y
<1>1. PICK x \in S : \A y \in S : <<y, x>> \notin OpToRel(<, Nat)
  BY NatLessThanWellFounded, WFMin
<1>2. ASSUME NEW y \in S PROVE x <= y
  <2>1. <<y, x>> \in Nat \X Nat /\ <<y, x>>[1] = y /\ <<y, x>>[2] = x
    OBVIOUS
  <2>2. ~(y < x)
    BY <1>1, <2>1 DEF OpToRel
  <2> QED
    BY <2>2
<1> QED
  BY <1>2 DEF Min

(* Of services there are always some with the shortest name. *)
LEMMA SomeShortest ==
  ASSUME NEW set \in SUBSET Services, set # {} PROVE \E s \in set : s \in Shortest(set)
<1> DEFINE lengths == {Length(s) : s \in set}
<1>1. lengths \in SUBSET Nat /\ lengths # {}
  BY ServicesAssumption DEF Length
<1>2. PICK s \in set : Length(s) = Min(lengths)
  BY <1>1, LeastNumber
<1>3. \A t \in set : Length(s) <= Length(t)
  BY <1>1, <1>2, LeastNumber
<1> QED
  BY <1>3 DEF Shortest

(* The first place where a list has something is before all such places. *)
LEMMA FirstPlace ==
  ASSUME NEW q, Len(q) \in Nat, NEW name
  PROVE  LET i == SelectInSeq(q, LAMBDA s : Has(s, name))
         IN  \/ i = 0 /\ \A j \in 1 .. Len(q) : ~Has(q[j], name)
             \/ i \in 1 .. Len(q) /\ Has(q[i], name) /\ \A j \in 1 .. Len(q) : Has(q[j], name) => i <= j
<1> DEFINE places == {j \in 1 .. Len(q) : Has(q[j], name)}
<1>1. SelectInSeq(q, LAMBDA s : Has(s, name)) = IF places # {} THEN Min(places) ELSE 0
  BY DEF SelectInSeq
<1>2. CASE places = {}
  BY <1>1, <1>2
<1>3. CASE places # {}
  <2>1. places \in SUBSET Nat
    OBVIOUS
  <2>2. Min(places) \in places /\ \A j \in places : Min(places) <= j
    BY <1>3, <2>1, LeastNumber
  <2> QED
    BY <1>1, <1>3, <2>2
<1> QED
  BY <1>2, <1>3

(* A list of all services of a set has each of them at one place. *)
LEMMA Enumerates ==
  ASSUME NEW S, IsFiniteSet(S), NEW q \in SetToSeqs(S)
  PROVE  /\ Cardinality(S) \in Nat /\ q \in [1 .. Cardinality(S) -> S]
         /\ Len(q) = Cardinality(S) /\ DOMAIN q = 1 .. Len(q)
         /\ \A i, j \in DOMAIN q : i # j => q[i] # q[j]
         /\ \A s \in S : \E i \in DOMAIN q : q[i] = s
<1> DEFINE n == Cardinality(S)
<1>1. n \in Nat
  BY FS_CardinalityType
<1>2. q \in [1 .. n -> S] /\ \A i, j \in 1 .. n : i # j => q[i] # q[j]
  BY DEF SetToSeqs
<1>3. q \in Injection(1 .. n, S)
  BY <1>2 DEF Injection, IsInjective
<1>4. Cardinality(1 .. n) = n
  BY <1>1, FS_Interval
<1>5. q \in Surjection(1 .. n, S)
  BY <1>3, <1>4, FS_Injection
<1>6. \A s \in S : \E i \in 1 .. n : q[i] = s
  BY <1>5 DEF Surjection
<1>7. Len(q) = n /\ DOMAIN q = 1 .. n
  BY <1>1, <1>2
<1> QED
  BY <1>1, <1>2, <1>6, <1>7

(* The members of a sorted list, by their places. *)
LEMMA SortedList ==
  ASSUME NEW M \in SUBSET Services, IsFiniteSet(M), NEW q \in Sorted(M)
  PROVE  /\ Len(q) = Cardinality(M) /\ Len(q) \in Nat /\ DOMAIN q = 1 .. Len(q) /\ q \in [1 .. Len(q) -> M]
         /\ \A i \in 1 .. Len(q) : Length(q[i]) \in Nat
         /\ \A i, j \in 1 .. Len(q) : i <= j => Length(q[i]) <= Length(q[j])
         /\ \A s \in M : \E i \in 1 .. Len(q) : q[i] = s
<1>1. q \in SetToSeqs(M)
  BY DEF Sorted
<1>2. /\ Len(q) = Cardinality(M) /\ Len(q) \in Nat /\ DOMAIN q = 1 .. Len(q) /\ q \in [1 .. Len(q) -> M]
      /\ \A s \in M : \E i \in 1 .. Len(q) : q[i] = s
  BY <1>1, Enumerates
<1>3. \A i \in 1 .. Len(q) : Length(q[i]) \in Nat
  BY <1>2, ServicesAssumption DEF Length
<1>4. \A i, j \in 1 .. Len(q) : i < j => Length(q[i]) <= Length(q[j])
  BY <1>2 DEF Sorted
<1>5. ASSUME NEW i \in 1 .. Len(q), NEW j \in 1 .. Len(q), i <= j PROVE Length(q[i]) <= Length(q[j])
  <2>1. CASE i = j
    BY <1>3, <2>1
  <2>2. CASE i < j
    BY <1>4, <2>2
  <2> QED
    BY <1>2, <1>5, <2>1, <2>2
<1> QED
  BY <1>2, <1>3, <1>5

(* What is preferred of a sorted list is a shortest one of those that have *)
(* the component in their names, or of all.                                *)
LEMMA PreferredIsBest ==
  ASSUME NEW M \in SUBSET Services, IsFiniteSet(M), M # {}, NEW q \in Sorted(M),
         NEW name \in Names \cup {NoName}
  PROVE  Preferred(q, name) \in (IF {s \in M : Has(s, name)} # {} THEN Shortest({s \in M : Has(s, name)})
                                                                  ELSE Shortest(M))
<1> DEFINE first == SelectInSeq(q, LAMBDA s : Has(s, name))
           named == {s \in M : Has(s, name)}
<1>1. /\ Len(q) \in Nat /\ q \in [1 .. Len(q) -> M]
      /\ \A i, j \in 1 .. Len(q) : i <= j => Length(q[i]) <= Length(q[j])
      /\ \A s \in M : \E i \in 1 .. Len(q) : q[i] = s
  BY SortedList
<1>2. \/ first = 0 /\ \A j \in 1 .. Len(q) : ~Has(q[j], name)
      \/ first \in 1 .. Len(q) /\ Has(q[first], name) /\ \A j \in 1 .. Len(q) : Has(q[j], name) => first <= j
  BY <1>1, FirstPlace
<1>3. Preferred(q, name) = IF name # NoName /\ first # 0 THEN q[first] ELSE q[1]
  BY DEF Preferred
<1>4. \A s \in M : ~Has(s, NoName)
  BY ServicesAssumption DEF Has
<1> HIDE DEF first
<1>5. CASE first = 0
  <2>1. named = {}
    BY <1>1, <1>2, <1>5
  <2>2. 1 \in 1 .. Len(q)
    BY <1>1
  <2>3. q[1] \in M /\ \A t \in M : Length(q[1]) <= Length(t)
    BY <1>1, <2>2
  <2> QED
    BY <1>3, <1>5, <2>1, <2>3 DEF Shortest
<1>6. CASE first # 0
  <2>1. first \in 1 .. Len(q) /\ q[first] \in named
    BY <1>1, <1>2, <1>6
  <2>2. name # NoName
    BY <1>4, <2>1
  <2>3. \A t \in named : Length(q[first]) <= Length(t)
    BY <1>1, <1>2, <1>6
  <2> QED
    BY <1>3, <1>6, <2>1, <2>2, <2>3 DEF Shortest
<1> QED
  BY <1>5, <1>6

(* Two services of one length may change places. *)
LEMMA SwapEqual ==
  ASSUME NEW M \in SUBSET Services, IsFiniteSet(M), NEW q \in Sorted(M),
         NEW p \in 1 .. Len(q), NEW r \in 1 .. Len(q), Length(q[p]) = Length(q[r])
  PROVE  [i \in 1 .. Len(q) |-> q[IF i = p THEN r ELSE IF i = r THEN p ELSE i]] \in Sorted(M)
<1> DEFINE other == [i \in 1 .. Len(q) |-> IF i = p THEN r ELSE IF i = r THEN p ELSE i]
           new   == [i \in 1 .. Len(q) |-> q[IF i = p THEN r ELSE IF i = r THEN p ELSE i]]
<1>1. /\ Len(q) = Cardinality(M) /\ Len(q) \in Nat /\ DOMAIN q = 1 .. Len(q) /\ q \in [1 .. Len(q) -> M]
      /\ \A i, j \in 1 .. Len(q) : i <= j => Length(q[i]) <= Length(q[j])
  BY SortedList
<1>2. \A i, j \in 1 .. Len(q) : i # j => q[i] # q[j]
  BY <1>1, Enumerates DEF Sorted
<1>3. \A i \in 1 .. Len(q) : other[i] \in 1 .. Len(q) /\ new[i] = q[other[i]]
  OBVIOUS
<1>4. \A i, j \in 1 .. Len(q) : i # j => other[i] # other[j]
  OBVIOUS
<1>5. new \in [1 .. Len(q) -> M] /\ DOMAIN new = 1 .. Len(q)
  BY <1>1
<1>6. \A i \in 1 .. Len(q) : Length(new[i]) = Length(q[i])
  OBVIOUS
<1> HIDE DEF other, new
<1>7. \A i, j \in 1 .. Len(q) : i # j => new[i] # new[j]
  BY <1>2, <1>3, <1>4
<1>8. new \in SetToSeqs(M)
  BY <1>1, <1>5, <1>7 DEF SetToSeqs
<1>9. \A i, j \in DOMAIN new : i < j => Length(new[i]) <= Length(new[j])
  BY <1>1, <1>5, <1>6
<1>10. new \in Sorted(M)
  BY <1>8, <1>9 DEF Sorted
<1> QED
  BY <1>10 DEF new

(* Every finite set of services can be sorted: put a shortest one before   *)
(* the sorted rest.                                                        *)
LEMMA CanBeSorted ==
  ASSUME NEW M \in SUBSET Services, IsFiniteSet(M) PROVE Sorted(M) # {}
<1> DEFINE bad == {U \in FiniteSubsetsOf(M) : Sorted(U) = {}}
<1>1. SUFFICES ASSUME bad # {} PROVE FALSE
  <2>1. M \in FiniteSubsetsOf(M)
    BY DEF FiniteSubsetsOf
  <2> QED
    BY <1>1, <2>1
<1>2. PICK U \in bad : \A V \in bad : <<V, U>> \notin StrictSubsetOrdering(M)
  BY <1>1, FS_StrictSubsetOrderingWellFounded, WFMin
<1>3. U \in SUBSET Services /\ IsFiniteSet(U) /\ U \subseteq M /\ Sorted(U) = {}
  BY <1>2 DEF FiniteSubsetsOf
<1>4. U # {}
  <2> SUFFICES ASSUME U = {} PROVE << >> \in Sorted(U)
    BY <1>3
  <2>1. Cardinality(U) = 0
    BY FS_EmptySet
  <2>2. << >> \in SetToSeqs(U)
    BY <2>1 DEF SetToSeqs
  <2> QED
    BY <2>2 DEF Sorted
<1>5. PICK s \in U : s \in Shortest(U)
  BY <1>3, <1>4, SomeShortest
<1> DEFINE V == U \ {s}
<1>6. /\ IsFiniteSet(V) /\ V \in SUBSET Services /\ V \subseteq U /\ V # U /\ V \subseteq M
      /\ Cardinality(V) = Cardinality(U) - 1 /\ Cardinality(U) \in Nat
  BY <1>3, <1>5, FS_RemoveElement, FS_CardinalityType
<1>7. Sorted(V) # {}
  <2>1. V \in FiniteSubsetsOf(M) /\ U \in FiniteSubsetsOf(M)
    BY <1>3, <1>6 DEF FiniteSubsetsOf
  <2>2. <<V, U>> \in StrictSubsetOrdering(M)
    BY <1>3, <1>6 DEF StrictSubsetOrdering
  <2> QED
    BY <1>2, <2>1, <2>2
<1>8. PICK g \in Sorted(V) : TRUE
  BY <1>7
<1> HIDE DEF V
<1>9. /\ Len(g) = Cardinality(V) /\ Len(g) \in Nat /\ g \in [1 .. Len(g) -> V]
      /\ \A i, j \in 1 .. Len(g) : i <= j => Length(g[i]) <= Length(g[j])
  BY <1>6, <1>8, SortedList
<1>10. \A i, j \in 1 .. Len(g) : i # j => g[i] # g[j]
  BY <1>6, <1>8, <1>9, Enumerates DEF Sorted
<1> DEFINE n == Cardinality(U)
           q == [i \in 1 .. n |-> IF i = 1 THEN s ELSE g[i - 1]]
<1>11. n = Len(g) + 1 /\ n \in Nat
  BY <1>6, <1>9
<1>12. \A i \in 1 .. n : i # 1 => i - 1 \in 1 .. Len(g)
  BY <1>11
<1>13. q[1] = s /\ \A i \in 1 .. n : i # 1 => q[i] = g[i - 1] /\ q[i] \in V
  BY <1>9, <1>11, <1>12
<1>14. DOMAIN q = 1 .. n /\ q \in [1 .. n -> U]
  BY <1>5, <1>6, <1>9, <1>12
<1> HIDE DEF q, n
<1>15. ASSUME NEW i \in 1 .. n, NEW j \in 1 .. n, i < j
       PROVE  q[i] # q[j] /\ Length(q[i]) <= Length(q[j])
  <2>1. j # 1 /\ j - 1 \in 1 .. Len(g) /\ q[j] = g[j - 1] /\ q[j] \in V
    BY <1>11, <1>12, <1>13, <1>15
  <2>2. CASE i = 1
    <3>1. q[j] \in U /\ q[j] # s
      BY <2>1, <1>6 DEF V
    <3> QED
      BY <1>5, <1>13, <2>2, <3>1 DEF Shortest
  <2>3. CASE i # 1
    <3>1. i - 1 \in 1 .. Len(g) /\ q[i] = g[i - 1] /\ i - 1 <= j - 1 /\ i - 1 # j - 1
      BY <1>11, <1>12, <1>13, <1>15, <2>3
    <3> QED
      BY <1>9, <1>10, <2>1, <3>1
  <2> QED
    BY <2>2, <2>3
<1>16. \A i, j \in 1 .. n : i # j => q[i] # q[j]
  <2> SUFFICES ASSUME NEW i \in 1 .. n, NEW j \in 1 .. n, i # j PROVE q[i] # q[j]
    OBVIOUS
  <2>1. i < j \/ j < i
    BY <1>11
  <2> QED
    BY <1>15, <2>1
<1>17. q \in SetToSeqs(U)
  BY <1>14, <1>16 DEF SetToSeqs, n
<1>18. q \in Sorted(U)
  BY <1>14, <1>15, <1>17 DEF Sorted
<1> QED
  BY <1>3, <1>18

(* Sorting and scanning finds what is best without any order: for every    *)
(* way of sorting one of the best, and each of the best for some way.      *)
LEMMA DiscoverIsBest ==
  ASSUME NEW S \in SUBSET Services, IsFiniteSet(S), NEW name \in Names \cup {NoName}
  PROVE  Discover(S, name) = Best(S, name)
<1> DEFINE M     == {s \in S : Eligible(s)}
           named == {s \in M : Has(s, name)}
           best  == IF named # {} THEN Shortest(named) ELSE Shortest(M)
<1>1. IsFiniteSet(M) /\ M \in SUBSET Services
  BY FS_Subset
<1>2. Discover(S, name) = IF M = {} THEN {NoService} ELSE {Preferred(q, name) : q \in Sorted(M)}
  BY DEF Discover
<1>3. Best(S, name) = IF M = {} THEN {NoService} ELSE best
  BY DEF Best
<1> HIDE DEF M
<1>4. SUFFICES ASSUME M # {} PROVE {Preferred(q, name) : q \in Sorted(M)} = best
  BY <1>2, <1>3, <1>4
<1>5. \A q \in Sorted(M) : Preferred(q, name) \in best
  BY <1>1, <1>4, PreferredIsBest
<1>6. ASSUME NEW s \in best PROVE \E q \in Sorted(M) : s = Preferred(q, name)
  <2>1. PICK q \in Sorted(M) : TRUE
    BY <1>1, CanBeSorted
  <2> DEFINE first == SelectInSeq(q, LAMBDA t : Has(t, name))
             p     == IF named # {} THEN first ELSE 1
  <2>2. /\ Len(q) \in Nat /\ DOMAIN q = 1 .. Len(q) /\ q \in [1 .. Len(q) -> M]
        /\ \A t \in M : \E i \in 1 .. Len(q) : q[i] = t
    BY <1>1, SortedList
  <2>3. \/ first = 0 /\ \A j \in 1 .. Len(q) : ~Has(q[j], name)
        \/ first \in 1 .. Len(q) /\ Has(q[first], name) /\ \A j \in 1 .. Len(q) : Has(q[j], name) => first <= j
    BY <2>2, FirstPlace
  <2>4. \A t \in M : ~Has(t, NoName)
    BY <1>1, ServicesAssumption DEF Has
  <2>5. Preferred(q, name) = IF name # NoName /\ first # 0 THEN q[first] ELSE q[1]
    BY DEF Preferred
  <2> HIDE DEF first
  <2>6. p \in 1 .. Len(q) /\ Preferred(q, name) = q[p]
    BY <1>4, <2>2, <2>3, <2>4, <2>5
  <2>7. s \in M /\ Length(s) = Length(q[p])
    <3>1. q[p] \in best
      BY <1>5, <2>1, <2>6
    <3>2. \A t \in Services : Length(t) \in Nat
      BY ServicesAssumption DEF Length
    <3>3. best \subseteq M
      BY DEF Shortest
    <3>4. Length(s) <= Length(q[p]) /\ Length(q[p]) <= Length(s)
      BY <1>6, <3>1 DEF Shortest
    <3> QED
      BY <1>1, <1>6, <3>1, <3>2, <3>3, <3>4
  <2>8. PICK r \in 1 .. Len(q) : q[r] = s
    BY <2>2, <2>7
  <2> DEFINE new == [i \in 1 .. Len(q) |-> q[IF i = p THEN r ELSE IF i = r THEN p ELSE i]]
             firstNew == SelectInSeq(new, LAMBDA t : Has(t, name))
  <2>9. new \in Sorted(M)
    BY <1>1, <2>1, <2>6, <2>7, <2>8, SwapEqual
  <2>10. Len(new) = Len(q) /\ new[p] = s
    BY <2>2, <2>6, <2>8
  <2>11. Preferred(new, name) = IF name # NoName /\ firstNew # 0 THEN new[firstNew] ELSE new[1]
    BY DEF Preferred
  <2>12. \/ firstNew = 0 /\ \A j \in 1 .. Len(new) : ~Has(new[j], name)
         \/ /\ firstNew \in 1 .. Len(new) /\ Has(new[firstNew], name)
            /\ \A j \in 1 .. Len(new) : Has(new[j], name) => firstNew <= j
    BY <2>2, <2>10, FirstPlace
  <2>13. \A i \in 1 .. Len(q) : new[i] \in M /\ (i < p /\ i # r => new[i] = q[i])
    BY <2>2, <2>6, <2>8
  <2> HIDE DEF new, firstNew
  <2>14. Preferred(new, name) = s
    <3>1. CASE named = {}
      <4>1. firstNew = 0
        BY <2>10, <2>12, <2>13, <3>1
      <4> QED
        BY <2>10, <2>11, <3>1, <4>1
    <3>2. CASE named # {}
      <4>1. Has(s, name) /\ name # NoName /\ p = first /\ first # 0
        BY <1>6, <2>2, <2>3, <2>4, <2>6, <2>7, <3>2 DEF Shortest
      <4>2. first <= r
        BY <2>3, <2>8, <4>1
      <4>3. \A i \in 1 .. Len(q) : i < p => ~Has(new[i], name)
        BY <2>2, <2>3, <2>6, <2>13, <4>1, <4>2
      <4>4. firstNew = p
        BY <2>2, <2>6, <2>10, <2>12, <4>1, <4>3
      <4> QED
        BY <2>6, <2>10, <2>11, <2>12, <4>1, <4>4
    <3> QED
      BY <3>1, <3>2
  <2> QED
    BY <2>9, <2>14
<1> QED
  BY <1>5, <1>6

-----------------------------------------------------------------------------
(* The components of an environment *)

(* The name of the primary component of a list, if it has one. *)
LEMMA PrimaryType ==
  ASSUME NEW list \in Contents \cup {Missing} PROVE PrimaryOf(list) \in Names \cup {NoName}
<1> DEFINE marked == {i \in 1 .. Len(list) : list[i].primary}
           i == SelectInSeq(list, LAMBDA c : c.primary)
<1>1. list \in Seq(Components)
  BY CatalogAssumption, EmptySeq DEF Missing
<1>2. Len(list) \in Nat /\ \A j \in 1 .. Len(list) : list[j].name \in Names
  <2>1. Len(list) \in Nat /\ \A j \in 1 .. Len(list) : list[j] \in Components
    BY <1>1, ElementOfSeq, LenProperties
  <2> QED
    BY <2>1 DEF Components
<1>3. i = IF marked # {} THEN Min(marked) ELSE 0
  BY DEF SelectInSeq
<1>4. marked \in SUBSET Nat
  BY <1>2
<1>5. i = 0 \/ i \in 1 .. Len(list)
  BY <1>3, <1>4, LeastNumber
<1>6. PrimaryOf(list) = IF i = 0 THEN NoName ELSE list[i].name
  BY DEF PrimaryOf
<1> QED
  BY <1>2, <1>5, <1>6

(* A list that is not there has no primary component, and the legacy list  *)
(* of one chart has this one.                                              *)
LEMMA PrimaryOfShortLists ==
  /\ PrimaryOf(Missing) = NoName
  /\ \A n : PrimaryOf(<<[name |-> n, primary |-> TRUE]>>) = n
<1>1. PrimaryOf(Missing) = NoName
  <2>1. {i \in 1 .. Len(Missing) : Missing[i].primary} = {}
    BY DEF Missing
  <2>2. SelectInSeq(Missing, LAMBDA c : c.primary) = 0
    BY <2>1 DEF SelectInSeq
  <2> QED
    BY <2>2 DEF PrimaryOf
<1>2. ASSUME NEW n PROVE PrimaryOf(<<[name |-> n, primary |-> TRUE]>>) = n
  <2> DEFINE list == <<[name |-> n, primary |-> TRUE]>>
             marked == {i \in 1 .. Len(list) : list[i].primary}
  <2>1. marked = {1}
    OBVIOUS
  <2>2. SelectInSeq(list, LAMBDA c : c.primary) = IF marked # {} THEN Min(marked) ELSE 0
    BY DEF SelectInSeq
  <2>3. Min(marked) = 1
    BY <2>1, LeastNumber
  <2>4. SelectInSeq(list, LAMBDA c : c.primary) = 1
    BY <2>1, <2>2, <2>3
  <2>5. PrimaryOf(list) = list[1].name
    BY <2>4 DEF PrimaryOf
  <2> QED
    BY <2>5
<1> QED
  BY <1>1, <1>2

(* The first of the three names that is one. *)
LEMMA PrimaryNameIs ==
  ASSUME NEW e
  PROVE  LET own      == PrimaryOf(e.own)
             template == PrimaryOf(GetTemplate(e))
         IN  GetPrimaryComponentName(e) =
               IF own # NoName THEN own ELSE IF template # NoName THEN template ELSE e.chart
<1> DEFINE names == <<PrimaryOf(e.own), PrimaryOf(GetTemplate(e)), e.chart>>
           there == {i \in 1 .. Len(names) : names[i] # NoName}
           first == SelectInSeq(names, LAMBDA n : n # NoName)
<1>1. Len(names) = 3 /\ names[1] = PrimaryOf(e.own) /\ names[2] = PrimaryOf(GetTemplate(e)) /\ names[3] = e.chart
  OBVIOUS
<1>2. first = IF there # {} THEN Min(there) ELSE 0
  BY DEF SelectInSeq
<1>3. GetPrimaryComponentName(e) = IF first = 0 THEN NoName ELSE names[first]
  BY DEF GetPrimaryComponentName
<1>4. \A i : i \in 1 .. 3 <=> i = 1 \/ i = 2 \/ i = 3
  OBVIOUS
<1> HIDE DEF names, first
<1>5. \A i : i \in there <=> i \in 1 .. 3 /\ names[i] # NoName
  BY <1>1
<1>6. there \in SUBSET Nat
  BY <1>5
<1>7. CASE names[1] # NoName
  <2>1. 1 \in there
    BY <1>5, <1>7
  <2>2. first = 1
    BY <1>2, <1>5, <1>6, <2>1, LeastNumber
  <2> QED
    BY <1>1, <1>3, <1>7, <2>2
<1>8. CASE names[1] = NoName /\ names[2] # NoName
  <2>1. 2 \in there /\ 1 \notin there
    BY <1>5, <1>8
  <2>2. first = 2
    BY <1>2, <1>4, <1>5, <1>6, <2>1, LeastNumber
  <2> QED
    BY <1>1, <1>3, <1>8, <2>2
<1>9. CASE names[1] = NoName /\ names[2] = NoName /\ names[3] # NoName
  <2>1. 3 \in there /\ 1 \notin there /\ 2 \notin there
    BY <1>5, <1>9
  <2>2. first = 3
    BY <1>2, <1>4, <1>5, <1>6, <2>1, LeastNumber
  <2> QED
    BY <1>1, <1>3, <1>9, <2>2
<1>10. CASE names[1] = NoName /\ names[2] = NoName /\ names[3] = NoName
  <2>1. there = {}
    BY <1>4, <1>5, <1>10
  <2> QED
    BY <1>1, <1>2, <1>3, <1>10, <2>1
<1> QED
  BY <1>7, <1>8, <1>9, <1>10

(* What is resolved has its primary component found by name, too: the two  *)
(* orders of looking agree.                                                *)
LEMMA PrimaryOfResolved ==
  ASSUME NEW e, PrimaryOf(Resolve(e)) # NoName
  PROVE  GetPrimaryComponentName(e) = PrimaryOf(Resolve(e))
<1>1. CASE e.own # Missing
  <2>1. Resolve(e) = e.own
    BY <1>1 DEF Resolve
  <2> QED
    BY <2>1, PrimaryNameIs
<1>2. CASE e.own = Missing /\ GetTemplate(e) # Missing
  <2>1. Resolve(e) = GetTemplate(e)
    BY <1>2 DEF Resolve
  <2> QED
    BY <1>2, <2>1, PrimaryNameIs, PrimaryOfShortLists
<1>3. CASE e.own = Missing /\ GetTemplate(e) = Missing
  <2>1. Resolve(e) = Legacy(e)
    BY <1>3 DEF Resolve
  <2>2. Legacy(e) = <<[name |-> e.chart, primary |-> TRUE]>>
    BY <2>1, PrimaryOfShortLists DEF Legacy
  <2>3. PrimaryOf(Resolve(e)) = e.chart
    BY <2>1, <2>2, PrimaryOfShortLists
  <2> QED
    BY <1>3, <2>3, PrimaryNameIs, PrimaryOfShortLists
<1> QED
  BY <1>1, <1>2, <1>3

-----------------------------------------------------------------------------
(* The inductive invariant *)

(* There are finitely many services at any time, as each comes alone. *)
FiniteServices ==
  IsFiniteSet(services) /\ IsFiniteSet(basis.services) /\ IsFiniteSet(routedBy.services)

(* A run is of an environment, and its list is gone with it. *)
RunsOfAnEnv ==
  /\ env = NoEnv => pc = "idle"
  /\ pc = "idle" => todo = Missing

(* While nobody writes the template, the list of the run is what would be  *)
(* resolved now.                                                           *)
TodoResolved == steady /\ pc \in {"deploy", "discover", "route"} => todo = Resolve(env)

(* The choice is one of the best for what it was made of, and the name was *)
(* the one that would be found now.                                        *)
ChosenOfBasis ==
  pc = "route" => /\ chosen \in Best(basis.services, basis.name)
                  /\ steady => basis.name = GetPrimaryComponentName(env)

(* So is the route for what it was made of. *)
RouteOfBasis == route # NoService => route \in Best(routedBy.services, routedBy.name)

CatalogInv ==
  TypeOK /\ FiniteServices /\ RunsOfAnEnv /\ TodoResolved /\ ChosenOfBasis /\ RouteOfBasis

-----------------------------------------------------------------------------
(* Types *)


(* The specs the page and kubectl make are well formed. *)
LEMMA SpecTypes ==
  /\ NoEnv \in Specs /\ Wanted \subseteq Specs
  /\ \A ns \in TemplateNs : [NoEnv EXCEPT !.ref = ns] \in Specs
<1>1. NoEnv = [own |-> Missing, ref |-> NoRef, chart |-> NoName]
  BY DEF NoEnv
<1>2. NoEnv \in Specs
  BY <1>1 DEF Specs
<1>3. ASSUME NEW ns \in TemplateNs PROVE [NoEnv EXCEPT !.ref = ns] \in Specs
  BY <1>2 DEF Specs
<1> QED
  BY <1>2, <1>3, CatalogAssumption

(* What is resolved is a list of components: of the environment, of the    *)
(* template or of the legacy chart.                                        *)
LEMMA ResolveType ==
  ASSUME TypeOK
  PROVE  /\ GetTemplate(env) \in Contents \cup {Missing}
         /\ Resolve(env) \in Contents \cup {Missing} \cup {Legacy(env)}
         /\ GetPrimaryComponentName(env) \in Names \cup {NoName}
<1>1. /\ env.own \in Contents \cup {Missing} /\ env.ref \in {NoRef, ""} \cup TemplateNs
      /\ env.chart \in Names \cup {NoName} /\ templates \in [TemplateNs -> Contents \cup {Missing}]
  BY DEF TypeOK, Specs
<1>2. NamespaceOf(env.ref) \in TemplateNs \/ env.ref = NoRef
  BY <1>1 DEF NamespaceOf, TemplateNs
<1>3. GetTemplate(env) \in Contents \cup {Missing}
  BY <1>1, <1>2 DEF GetTemplate
<1>4. Resolve(env) \in Contents \cup {Missing} \cup {Legacy(env)}
  BY <1>1, <1>3 DEF Resolve
<1>5. GetPrimaryComponentName(env) \in Names \cup {NoName}
  BY <1>1, <1>3, PrimaryType, PrimaryNameIs
<1> QED
  BY <1>3, <1>4, <1>5

(* A run deploys components that have names. *)
LEMMA TodoNames ==
  ASSUME TypeOK, NEW n \in DOMAIN todo \cup {0} PROVE NameSet(SubSeq(todo, 1, n)) \subseteq Names
<1>1. todo \in Seq(Components)
  <2>1. CASE todo \in Contents \cup {Missing}
    BY <2>1, CatalogAssumption, EmptySeq DEF Missing
  <2>2. CASE todo = Legacy(env)
    <3>1. CASE env.chart = NoName
      BY <2>2, <3>1, EmptySeq DEF Legacy, Missing
    <3>2. CASE env.chart # NoName
      <4>1. [name |-> env.chart, primary |-> TRUE] \in Components
        BY <3>2 DEF TypeOK, Specs, Components
      <4> QED
        BY <2>2, <3>2, <4>1 DEF Legacy
    <3> QED
      BY <3>1, <3>2
  <2> QED
    BY <2>1, <2>2 DEF TypeOK
<1>2. /\ Len(todo) \in Nat /\ DOMAIN todo = 1 .. Len(todo)
      /\ \A i \in 1 .. Len(todo) : todo[i] \in Components
  BY <1>1, ElementOfSeq, LenProperties
<1>3. n \in Int /\ \A i \in 1 .. n : todo[i] \in Components
  BY <1>2
<1>4. SubSeq(todo, 1, n) \in Seq(Components)
  BY <1>3, SubSeqProperties
<1>5. \A i \in DOMAIN SubSeq(todo, 1, n) : SubSeq(todo, 1, n)[i] \in Components
  BY <1>4, ElementOfSeq, LenProperties
<1> QED
  BY <1>5 DEF NameSet, Components

(* The best services are among those that are there. *)
LEMMA BestType ==
  ASSUME NEW S, NEW name PROVE Best(S, name) \subseteq S \cup {NoService}
BY DEF Best, Shortest

(* The best for one choice have names of one length. *)
LEMMA BestLength ==
  ASSUME NEW S \in SUBSET Services, NEW name, NEW s \in Best(S, name), NEW t \in Best(S, name)
  PROVE  Length(s) = Length(t) \/ s = NoService
<1> DEFINE M     == {u \in S : Eligible(u)}
           named == {u \in M : Has(u, name)}
<1>1. Best(S, name) = IF M = {} THEN {NoService} ELSE IF named # {} THEN Shortest(named) ELSE Shortest(M)
  BY DEF Best
<1>2. \A u \in Services : Length(u) \in Nat
  BY ServicesAssumption DEF Length
<1>3. M \subseteq Services /\ named \subseteq Services
  OBVIOUS
<1> HIDE DEF M, named
<1>4. ASSUME NEW set \in SUBSET Services, s \in Shortest(set), t \in Shortest(set) PROVE Length(s) = Length(t)
  <2>1. Length(s) <= Length(t) /\ Length(t) <= Length(s) /\ Length(s) \in Nat /\ Length(t) \in Nat
    BY <1>2, <1>4 DEF Shortest
  <2> QED
    BY <2>1
<1> QED
  BY <1>1, <1>3, <1>4

(* The steps of a run, and the lists it may deploy. *)
Steps == {"idle", "resolve", "deploy", "discover", "route"}
Lists(e) == Contents \cup {Missing} \cup {Legacy(e)}
IsBasis(b) == b.services \subseteq Services /\ b.name \in Names \cup {NoName}

(* The types, one variable at a time. *)
LEMMA Types ==
  TypeOK <=> /\ templates \in [TemplateNs -> Contents \cup {Missing}] /\ listed \subseteq TemplateNs
             /\ env \in Specs /\ pc \in Steps /\ todo \in Lists(env)
             /\ deployed \subseteq Names /\ services \subseteq Services
             /\ chosen \in Services \cup {NoService} /\ route \in Services \cup {NoService}
             /\ IsBasis(basis) /\ IsBasis(routedBy)
             /\ steady \in BOOLEAN /\ writes \in 0 .. MaxWrites /\ shifts \in 0 .. MaxShifts
BY DEF TypeOK, Steps, Lists, IsBasis

(* The same after a step. *)
LEMMA NextTypes ==
  TypeOK' <=> /\ templates' \in [TemplateNs -> Contents \cup {Missing}] /\ listed' \subseteq TemplateNs
              /\ env' \in Specs /\ pc' \in Steps /\ todo' \in Lists(env')
              /\ deployed' \subseteq Names /\ services' \subseteq Services
              /\ chosen' \in Services \cup {NoService} /\ route' \in Services \cup {NoService}
              /\ IsBasis(basis') /\ IsBasis(routedBy')
              /\ steady' \in BOOLEAN /\ writes' \in 0 .. MaxWrites /\ shifts' \in 0 .. MaxShifts
BY DEF TypeOK, Steps, Lists, IsBasis, Legacy

(* What an environment resolves to depends on its spec and the templates.  *)
LEMMA ResolveKept ==
  ASSUME UNCHANGED <<env, templates>>
  PROVE  Resolve(env)' = Resolve(env) /\ GetPrimaryComponentName(env)' = GetPrimaryComponentName(env)
<1>1. GetTemplate(env)' = GetTemplate(env) /\ Legacy(env)' = Legacy(env)
  BY DEF GetTemplate, Legacy
<1>2. Resolve(env)' = Resolve(env)
  BY <1>1 DEF Resolve
<1>3. GetPrimaryComponentName(env)' = GetPrimaryComponentName(env)
  <2>1. PrimaryOf(GetTemplate(env))' = PrimaryOf(GetTemplate(env)) /\ PrimaryOf(env.own)' = PrimaryOf(env.own)
    BY <1>1 DEF PrimaryOf, SelectInSeq
  <2> QED
    BY <2>1 DEF GetPrimaryComponentName, SelectInSeq
<1> QED
  BY <1>2, <1>3

-----------------------------------------------------------------------------
(* The steps *)

(* A run that ends leaves nothing of it. *)
LEMMA EndKeeps ==
  ASSUME CatalogInv, End, UNCHANGED <<templates, listed, env, services, writes, shifts>>,
         deployed' \subseteq Names, route' \in Services \cup {NoService}, IsBasis(routedBy'),
         IsFiniteSet(routedBy'.services), RouteOfBasis'
  PROVE  CatalogInv'
<1>1. /\ pc' = "idle" /\ todo' = Missing /\ chosen' = NoService /\ steady' = FALSE
      /\ basis'.services = {} /\ basis'.name = NoName
  BY DEF End, NoBasis
<1>2. TypeOK'
  <2>1. IsBasis(basis') /\ todo' \in Lists(env') /\ pc' \in Steps
    BY <1>1 DEF IsBasis, Lists, Steps
  <2> QED
    BY <1>1, <2>1, Types, NextTypes DEF CatalogInv
<1>3. FiniteServices' /\ RunsOfAnEnv' /\ TodoResolved' /\ ChosenOfBasis'
  BY <1>1, FS_EmptySet DEF CatalogInv, FiniteServices, RunsOfAnEnv, TodoResolved, ChosenOfBasis
<1> QED
  BY <1>2, <1>3 DEF CatalogInv

(* Who writes a template ends the agreement of the run with it, and no     *)
(* more.                                                                   *)
LEMMA WriteStep ==
  ASSUME CatalogInv, NEW ns \in TemplateNs, NEW c \in Contents \cup {Missing}, WriteTemplate(ns, c)
  PROVE  CatalogInv'
<1>1. /\ steady' = FALSE /\ templates' = [templates EXCEPT ![ns] = c] /\ writes' \in 0 .. MaxWrites
      /\ UNCHANGED <<listed, env, pc, todo, chosen, basis, deployed, services, route, routedBy, shifts>>
  <2>1. writes \in 0 .. MaxWrites /\ MaxWrites \in Nat
    BY CatalogAssumption, Types DEF CatalogInv
  <2> QED
    BY <2>1 DEF WriteTemplate, cluster
<1>2. TypeOK'
  <2>1. templates' \in [TemplateNs -> Contents \cup {Missing}]
    BY <1>1, Types DEF CatalogInv
  <2> QED
    BY <1>1, <2>1, Types, NextTypes DEF CatalogInv
<1>3. FiniteServices' /\ RunsOfAnEnv' /\ TodoResolved' /\ RouteOfBasis'
  BY <1>1 DEF CatalogInv, FiniteServices, RunsOfAnEnv, TodoResolved, RouteOfBasis
<1>4. ChosenOfBasis'
  BY <1>1 DEF CatalogInv, ChosenOfBasis
<1> QED
  BY <1>2, <1>3, <1>4 DEF CatalogInv

(* The page's list is its own. *)
LEMMA ListStep == CatalogInv /\ HandleListTemplates => CatalogInv'
<1> SUFFICES ASSUME CatalogInv, HandleListTemplates PROVE CatalogInv'
  OBVIOUS
<1>1. /\ listed' \subseteq TemplateNs
      /\ UNCHANGED <<templates, env, pc, todo, chosen, basis, steady, deployed, services, route, routedBy,
                     writes, shifts>>
  BY DEF HandleListTemplates, run, cluster
<1>2. TypeOK'
  BY <1>1, Types, NextTypes DEF CatalogInv
<1>3. FiniteServices' /\ RunsOfAnEnv' /\ RouteOfBasis'
  BY <1>1 DEF CatalogInv, FiniteServices, RunsOfAnEnv, RouteOfBasis
<1>4. TodoResolved' /\ ChosenOfBasis'
  BY <1>1, ResolveKept DEF CatalogInv, TodoResolved, ChosenOfBasis
<1> QED
  BY <1>2, <1>3, <1>4 DEF CatalogInv

(* An environment is made while no run of it goes on. *)
LEMMA NewEnvStep ==
  ASSUME CatalogInv, NEW e \in Specs, NewEnv(e) PROVE CatalogInv'
<1>1. /\ env = NoEnv /\ env' = e /\ pc = "idle" /\ todo = Missing
      /\ UNCHANGED <<templates, listed, pc, todo, chosen, basis, steady, deployed, services, route, routedBy,
                     writes, shifts>>
  BY DEF NewEnv, CatalogInv, RunsOfAnEnv, run, cluster
<1>2. TypeOK'
  <2>1. todo' \in Lists(env')
    BY <1>1 DEF Lists
  <2> QED
    BY <1>1, <2>1, Types, NextTypes DEF CatalogInv
<1>3. FiniteServices' /\ RunsOfAnEnv' /\ TodoResolved' /\ ChosenOfBasis' /\ RouteOfBasis'
  BY <1>1 DEF CatalogInv, FiniteServices, RunsOfAnEnv, TodoResolved, ChosenOfBasis, RouteOfBasis
<1> QED
  BY <1>2, <1>3 DEF CatalogInv

(* The page makes environments of templates it was shown. *)
LEMMA CreateStep == CatalogInv /\ (CreateFromPage \/ CreateByKubectl) => CatalogInv'
<1> SUFFICES ASSUME CatalogInv, CreateFromPage \/ CreateByKubectl PROVE CatalogInv'
  OBVIOUS
<1>1. CASE CreateFromPage
  <2>1. PICK ns \in listed : NewEnv([NoEnv EXCEPT !.ref = ns])
    BY <1>1 DEF CreateFromPage
  <2>2. [NoEnv EXCEPT !.ref = ns] \in Specs
    BY SpecTypes, Types DEF CatalogInv
  <2> QED
    BY <2>1, <2>2, NewEnvStep
<1>2. CASE CreateByKubectl
  BY <1>2, SpecTypes, NewEnvStep DEF CreateByKubectl
<1> QED
  BY <1>1, <1>2

(* Most steps of a run move it on and leave the cluster alone. *)
LEMMA RunStep ==
  ASSUME CatalogInv,
         UNCHANGED <<templates, listed, env, deployed, services, route, routedBy, writes, shifts>>,
         pc # "idle" \/ env # NoEnv, pc' \in Steps \ {"idle"}, todo' \in Lists(env), steady' \in BOOLEAN,
         chosen' \in Services \cup {NoService}, IsBasis(basis'), IsFiniteSet(basis'.services),
         steady' /\ pc' \in {"deploy", "discover", "route"} => todo' = Resolve(env),
         pc' = "route" => /\ chosen' \in Best(basis'.services, basis'.name)
                          /\ steady' => basis'.name = GetPrimaryComponentName(env)
  PROVE  CatalogInv'
<1>1. TypeOK'
  BY Types, NextTypes DEF CatalogInv
<1>2. env # NoEnv
  BY DEF CatalogInv, RunsOfAnEnv
<1>3. FiniteServices' /\ RunsOfAnEnv' /\ RouteOfBasis'
  BY <1>2 DEF CatalogInv, FiniteServices, RunsOfAnEnv, RouteOfBasis
<1>4. TodoResolved' /\ ChosenOfBasis'
  BY ResolveKept DEF TodoResolved, ChosenOfBasis
<1> QED
  BY <1>1, <1>3, <1>4 DEF CatalogInv

(* A run begins with what there is to deploy, or with nothing. *)
LEMMA BeginStep == CatalogInv /\ Begin => CatalogInv'
<1> SUFFICES ASSUME CatalogInv, Begin PROVE CatalogInv'
  OBVIOUS
<1>1. /\ TypeOK /\ pc = "idle" /\ env # NoEnv /\ todo = Missing /\ steady' = TRUE
      /\ UNCHANGED <<templates, listed, env, deployed, services, route, routedBy, writes, shifts,
                     todo, chosen, basis>>
      /\ pc' = (IF Resolve(env) = Missing THEN "discover" ELSE "resolve")
  BY DEF CatalogInv, RunsOfAnEnv, Begin, user, cluster
<1>2. todo' \in Lists(env) /\ chosen' \in Services \cup {NoService} /\ IsBasis(basis')
      /\ IsFiniteSet(basis'.services)
  BY <1>1, Types DEF CatalogInv, FiniteServices
<1> QED
  BY <1>1, <1>2, RunStep DEF Steps

(* The second reading decides what is deployed. *)
LEMMA ResolveStep == CatalogInv /\ ResolveAgain => CatalogInv'
<1> SUFFICES ASSUME CatalogInv, ResolveAgain PROVE CatalogInv'
  OBVIOUS
<1>1. /\ TypeOK /\ pc = "resolve"
      /\ UNCHANGED <<templates, listed, env, deployed, services, route, routedBy, writes, shifts>>
  BY DEF CatalogInv, ResolveAgain, user, cluster
<1>2. CASE Resolve(env) = Missing
  <2>1. End
    BY <1>2 DEF ResolveAgain
  <2>2. RouteOfBasis'
    BY <1>1 DEF CatalogInv, RouteOfBasis
  <2> QED
    BY <1>1, <2>1, <2>2, EndKeeps, Types DEF CatalogInv, FiniteServices
<1>3. CASE Resolve(env) # Missing
  <2>1. todo' = Resolve(env) /\ pc' = "deploy" /\ UNCHANGED <<steady, chosen, basis>>
    BY <1>3 DEF ResolveAgain, Goto
  <2>2. /\ todo' \in Lists(env) /\ chosen' \in Services \cup {NoService} /\ IsBasis(basis')
        /\ IsFiniteSet(basis'.services) /\ steady' \in BOOLEAN
    BY <1>1, <2>1, Types, ResolveType DEF CatalogInv, FiniteServices, Lists
  <2> QED
    BY <1>1, <2>1, <2>2, RunStep DEF Steps
<1> QED
  BY <1>2, <1>3

(* Components are deployed; the run goes on when all of them are. *)
LEMMA DeployStep == CatalogInv /\ Deploy => CatalogInv'
<1> SUFFICES ASSUME CatalogInv, Deploy PROVE CatalogInv'
  OBVIOUS
<1>1. /\ TypeOK /\ pc = "deploy"
      /\ UNCHANGED <<templates, listed, env, services, route, routedBy, writes, shifts>>
  BY DEF CatalogInv, Deploy, user
<1>2. PICK n \in DOMAIN todo \cup {0} :
        /\ deployed' = deployed \cup NameSet(SubSeq(todo, 1, n))
        /\ IF n = Len(todo) THEN Goto("discover") /\ UNCHANGED <<todo, chosen, basis>> ELSE End
  BY DEF Deploy
<1>3. deployed' \subseteq Names
  BY <1>1, <1>2, TodoNames, Types
<1>4. RouteOfBasis' /\ IsFiniteSet(routedBy'.services)
  BY <1>1 DEF CatalogInv, RouteOfBasis, FiniteServices
<1>5. CASE n = Len(todo)
  <2>1. pc' = "discover" /\ UNCHANGED <<steady, todo, chosen, basis>>
    BY <1>2, <1>5 DEF Goto
  <2>2. TypeOK'
    BY <1>1, <1>3, <2>1, Types, NextTypes DEF Steps
  <2>3. FiniteServices' /\ RunsOfAnEnv' /\ ChosenOfBasis'
    BY <1>1, <2>1 DEF CatalogInv, FiniteServices, RunsOfAnEnv, ChosenOfBasis
  <2>4. TodoResolved'
    BY <1>1, <2>1, ResolveKept DEF CatalogInv, TodoResolved
  <2> QED
    BY <1>4, <2>2, <2>3, <2>4 DEF CatalogInv
<1>6. CASE n # Len(todo)
  <2>1. End
    BY <1>2, <1>6
  <2> QED
    BY <1>1, <1>3, <1>4, <2>1, EndKeeps, Types
<1> QED
  BY <1>5, <1>6

(* What is discovered is one of the best of the services that are there.   *)
LEMMA DiscoverStep == CatalogInv /\ DiscoverService => CatalogInv'
<1> SUFFICES ASSUME CatalogInv, DiscoverService PROVE CatalogInv'
  OBVIOUS
<1> DEFINE name == GetPrimaryComponentName(env)
           best == Discover(services, name)
<1>1. /\ TypeOK /\ pc = "discover" /\ IsFiniteSet(services)
      /\ UNCHANGED <<templates, listed, env, deployed, services, route, routedBy, writes, shifts>>
  BY DEF CatalogInv, FiniteServices, DiscoverService, user, cluster
<1>2. name \in Names \cup {NoName} /\ services \subseteq Services
  BY <1>1, ResolveType, Types
<1>3. best = Best(services, name)
  BY <1>1, <1>2, DiscoverIsBest
<1>4. CASE best = {NoService}
  <2>1. End
    BY <1>4 DEF DiscoverService
  <2>2. RouteOfBasis'
    BY <1>1 DEF CatalogInv, RouteOfBasis
  <2> QED
    BY <1>1, <2>1, <2>2, EndKeeps, Types DEF CatalogInv, FiniteServices
<1>5. CASE best # {NoService}
  <2>1. /\ chosen' \in best /\ basis' = [services |-> services, name |-> name]
        /\ pc' = "route" /\ UNCHANGED <<steady, todo>>
    BY <1>5 DEF DiscoverService, Goto
  <2>2. basis'.services = services /\ basis'.name = name
    BY <2>1
  <2> HIDE DEF name, best
  <2>3. chosen' \in Best(services, name) /\ chosen' \in Services \cup {NoService}
    BY <1>2, <1>3, <2>1, BestType
  <2>4. steady => todo = Resolve(env)
    BY <1>1 DEF CatalogInv, TodoResolved
  <2>5. todo' \in Lists(env) /\ IsBasis(basis') /\ steady' \in BOOLEAN
    BY <1>1, <1>2, <2>1, <2>2, Types DEF IsBasis
  <2> QED
    BY <1>1, <2>1, <2>2, <2>3, <2>4, <2>5, RunStep DEF Steps, name
<1> QED
  BY <1>4, <1>5

(* The route gets the choice and what it was made of, or neither. *)
LEMMA RouteStep == CatalogInv /\ EnsureHTTPRoute => CatalogInv'
<1> SUFFICES ASSUME CatalogInv, EnsureHTTPRoute PROVE CatalogInv'
  OBVIOUS
<1>1. /\ TypeOK /\ pc = "route" /\ End
      /\ UNCHANGED <<templates, listed, env, deployed, services, writes, shifts>>
      /\ (route' = chosen /\ routedBy' = basis) \/ UNCHANGED <<route, routedBy>>
  BY DEF CatalogInv, EnsureHTTPRoute, user
<1>2. /\ route' \in Services \cup {NoService} /\ IsBasis(routedBy') /\ IsFiniteSet(routedBy'.services)
      /\ deployed' \subseteq Names
  BY <1>1, Types DEF CatalogInv, FiniteServices
<1>3. RouteOfBasis'
  BY <1>1 DEF CatalogInv, RouteOfBasis, ChosenOfBasis
<1> QED
  BY <1>1, <1>2, <1>3, EndKeeps

(* Services come and go one at a time. *)
LEMMA ShiftStep == CatalogInv /\ Shift => CatalogInv'
<1> SUFFICES ASSUME CatalogInv, Shift PROVE CatalogInv'
  OBVIOUS
<1>1. /\ TypeOK /\ shifts' \in 0 .. MaxShifts
      /\ UNCHANGED <<templates, listed, env, pc, todo, chosen, basis, steady, deployed, route, routedBy, writes>>
  <2>1. shifts \in 0 .. MaxShifts /\ MaxShifts \in Nat
    BY CatalogAssumption, Types DEF CatalogInv
  <2> QED
    BY <2>1 DEF CatalogInv, Shift, user, run
<1>2. PICK s \in Own \cup UNION {MakesOf[c] : c \in deployed} :
        services' = IF s \in services THEN services \ {s} ELSE services \cup {s}
  BY DEF Shift
<1>3. s \in Services
  <2>1. \A c \in deployed : MakesOf[c] \subseteq Services
    BY <1>1, CatalogAssumption, Types
  <2> QED
    BY <1>2, <2>1, CatalogAssumption
<1>4. services' \subseteq Services /\ IsFiniteSet(services')
  BY <1>1, <1>2, <1>3, FS_AddElement, FS_RemoveElement, Types DEF CatalogInv, FiniteServices
<1>5. TypeOK'
  BY <1>1, <1>4, Types, NextTypes
<1>6. FiniteServices' /\ RunsOfAnEnv' /\ RouteOfBasis'
  BY <1>1, <1>4 DEF CatalogInv, FiniteServices, RunsOfAnEnv, RouteOfBasis
<1>7. TodoResolved' /\ ChosenOfBasis'
  BY <1>1, ResolveKept DEF CatalogInv, TodoResolved, ChosenOfBasis
<1> QED
  BY <1>5, <1>6, <1>7 DEF CatalogInv

(* The invariant holds of every behaviour. *)
THEOREM CatalogCorrect == Spec => []CatalogInv
<1>1. Init => CatalogInv
  <2> SUFFICES ASSUME Init PROVE CatalogInv
    OBVIOUS
  <2>1. /\ basis.services = {} /\ basis.name = NoName /\ routedBy.services = {} /\ routedBy.name = NoName
        /\ pc = "idle" /\ todo = Missing /\ services = {} /\ steady = FALSE /\ route = NoService
    BY DEF Init, NoBasis
  <2>2. TypeOK
    <3>1. templates \in [TemplateNs -> Contents \cup {Missing}] /\ env \in Specs
      BY SpecTypes DEF Init
    <3>2. IsBasis(basis) /\ IsBasis(routedBy) /\ todo \in Lists(env) /\ pc \in Steps
      BY <2>1 DEF IsBasis, Lists, Steps
    <3>3. writes \in 0 .. MaxWrites /\ shifts \in 0 .. MaxShifts
      BY CatalogAssumption DEF Init
    <3> QED
      BY <2>1, <3>1, <3>2, <3>3, Types DEF Init
  <2>3. FiniteServices
    BY <2>1, FS_EmptySet DEF FiniteServices
  <2>4. RunsOfAnEnv /\ TodoResolved /\ ChosenOfBasis /\ RouteOfBasis
    BY <2>1 DEF RunsOfAnEnv, TodoResolved, ChosenOfBasis, RouteOfBasis
  <2> QED
    BY <2>2, <2>3, <2>4 DEF CatalogInv
<1>2. CatalogInv /\ [Next]_vars => CatalogInv'
  <2> SUFFICES ASSUME CatalogInv, [Next]_vars PROVE CatalogInv'
    OBVIOUS
  <2>1. ASSUME NEW ns \in TemplateNs \cup {""}, NEW c \in Contents, HandleCreateTemplate(ns, c)
        PROVE  CatalogInv'
    BY <2>1, WriteStep DEF HandleCreateTemplate, Target, TemplateNs
  <2>2. ASSUME NEW ns \in TemplateNs \cup {""}, HandleDeleteTemplate(ns) PROVE CatalogInv'
    BY <2>2, WriteStep DEF HandleDeleteTemplate, Target, TemplateNs
  <2>3. ASSUME NEW ns \in TemplateNs, NEW c \in Contents, EditTemplate(ns, c) PROVE CatalogInv'
    BY <2>3, WriteStep DEF EditTemplate
  <2>4. CASE UNCHANGED vars
    <3>1. UNCHANGED <<templates, listed, env, pc, todo, chosen, basis, steady, deployed, services, route,
                      routedBy, writes, shifts>>
      BY <2>4 DEF vars, user, run, cluster
    <3>2. TypeOK'
      BY <3>1, Types, NextTypes DEF CatalogInv
    <3>3. FiniteServices' /\ RunsOfAnEnv' /\ RouteOfBasis'
      BY <3>1 DEF CatalogInv, FiniteServices, RunsOfAnEnv, RouteOfBasis
    <3>4. TodoResolved' /\ ChosenOfBasis'
      BY <3>1, ResolveKept DEF CatalogInv, TodoResolved, ChosenOfBasis
    <3> QED
      BY <3>2, <3>3, <3>4 DEF CatalogInv
  <2> QED
    BY <2>1, <2>2, <2>3, <2>4, ListStep, CreateStep, BeginStep, ResolveStep, DeployStep, DiscoverStep,
       RouteStep, ShiftStep DEF Next
<1> QED
  BY <1>1, <1>2, PTL DEF Spec

-----------------------------------------------------------------------------
(* The properties *)

(* Every variable keeps its type, whoever writes templates meanwhile. *)
THEOREM CatalogTypeCorrect == Spec => []TypeOK
<1>1. CatalogInv => TypeOK
  BY DEF CatalogInv
<1> QED
  BY <1>1, CatalogCorrect, PTL

(* Whatever services there are and whichever component is the primary one, *)
(* the unstable sort and the scan find exactly the services that are best  *)
(* without any order.                                                      *)
THEOREM DiscoveryIsBest == Spec => []ChoiceIsBest
<1>1. CatalogInv => ChoiceIsBest
  BY DiscoverIsBest, Types DEF CatalogInv, FiniteServices, ChoiceIsBest
<1> QED
  BY <1>1, CatalogCorrect, PTL

(* The API, the page and the reconciler mean the same template: what a run *)
(* deploys for a reference is the list of the template in that namespace,  *)
(* unless somebody wrote it between the reads.                             *)
THEOREM TemplateDeployed == Spec => []TemplateUsed
<1>1. CatalogInv => TemplateUsed
  <2> SUFFICES ASSUME CatalogInv, env.own = Missing, env.ref \in TemplateNs, steady,
                      templates[env.ref] # Missing, pc \in {"deploy", "discover", "route"}
               PROVE  todo = templates[env.ref]
    BY DEF TemplateUsed
  <2>1. todo = Resolve(env)
    BY DEF CatalogInv, TodoResolved
  <2>2. env.ref # "" /\ env.ref # NoRef
    BY DEF TemplateNs, SystemNs, DefaultNs, NoRef
  <2>3. GetTemplate(env) = templates[env.ref]
    BY <2>2 DEF GetTemplate, NamespaceOf
  <2> QED
    BY <2>1, <2>3 DEF Resolve
<1> QED
  BY <1>1, CatalogCorrect, PTL

(* After three reads of the template the traffic goes to the primary       *)
(* component of what the run deployed, if a service of it was there and    *)
(* nobody wrote the template meanwhile.                                    *)
THEOREM TrafficToDeployed == Spec => []RoutedToDeployed
<1>1. CatalogInv => RoutedToDeployed
  <2> SUFFICES ASSUME CatalogInv, pc = "route", steady, DeployedPrimary # NoName,
                      NEW s \in basis.services, Eligible(s), Has(s, DeployedPrimary)
               PROVE  Has(chosen, DeployedPrimary)
    BY DEF RoutedToDeployed
  <2>1. todo = Resolve(env)
    BY DEF CatalogInv, TodoResolved
  <2>2. basis.name = DeployedPrimary
    BY <2>1, PrimaryOfResolved DEF CatalogInv, ChosenOfBasis, DeployedPrimary
  <2>3. chosen \in Best(basis.services, DeployedPrimary)
    BY <2>2 DEF CatalogInv, ChosenOfBasis
  <2> DEFINE M     == {t \in basis.services : Eligible(t)}
             named == {t \in M : Has(t, DeployedPrimary)}
  <2>4. s \in named
    OBVIOUS
  <2>5. chosen \in Shortest(named)
    BY <2>3, <2>4 DEF Best
  <2> QED
    BY <2>5 DEF Shortest
<1> QED
  BY <1>1, CatalogCorrect, PTL

(* A route moves only when the services or the primary component differ    *)
(* from those it was made of, or between services of one length.           *)
THEOREM RouteMovesJustified == Spec => RouteMovesForAReason
<1> DEFINE P == route # NoService /\ route' # route
                  => routedBy' # routedBy \/ Length(route') = Length(route)
<1>1. ASSUME CatalogInv, [Next]_vars PROVE P
  <2> SUFFICES ASSUME route # NoService, route' # route, routedBy' = routedBy
               PROVE  Length(route') = Length(route)
    OBVIOUS
  <2>1. EnsureHTTPRoute
    BY <1>1 DEF Next, vars, user, run, cluster, HandleCreateTemplate, HandleDeleteTemplate, EditTemplate,
                WriteTemplate, HandleListTemplates, CreateFromPage, CreateByKubectl, NewEnv, Begin,
                ResolveAgain, Deploy, DiscoverService, Shift
  <2>2. route' = chosen /\ basis = routedBy /\ pc = "route"
    BY <2>1 DEF EnsureHTTPRoute
  <2>3. /\ chosen \in Best(routedBy.services, routedBy.name)
        /\ route \in Best(routedBy.services, routedBy.name)
    BY <1>1, <2>2 DEF CatalogInv, ChosenOfBasis, RouteOfBasis
  <2>4. routedBy.services \in SUBSET Services
    BY <1>1, Types DEF CatalogInv, IsBasis
  <2> QED
    BY <2>2, <2>3, <2>4, BestLength
<1>2. CatalogInv /\ [Next]_vars => [P]_vars
  BY <1>1
<1> QED
  BY <1>2, CatalogCorrect, PTL DEF Spec, RouteMovesForAReason
=============================================================================
