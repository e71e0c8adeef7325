------------------------------ MODULE FiguresProofs ------------------------------
(***************************************************************************)
(* What the application's pure functions answer, for any input of theirs.  *)
(* The mapping of an organisation: a household made under it is found      *)
(* again, and it picks a pattern the scan found.  Compliance: a failed     *)
(* check has a plan that ends with operations, and a report accounts for   *)
(* every household.  Records: the requests of an opening are taken and     *)
(* leave what a scan looks for, the paperwork meets the custodian's rules  *)
(* and is on each owner's own data, and an imported file's clients are made*)
(* or reported.  Figures: home, the task manager, the dashboard and the    *)
(* pages of a household agree with each other.  Each section has the       *)
(* general theorems first and ends with the states of Figures they are     *)
(* about.                                                                  *)
(***************************************************************************)
EXTENDS Figures, FiniteSetTheorems, FunctionTheorems, WellFoundedInduction, TLAPS

-------------------------------------------------------------------------------
(* Lists, by the places their elements come from. *)

\* A strict total order of a set.
Orders(before, S) ==
  /\ \A x \in S : <<x, x>> \notin before
  /\ \A x, y, z \in S : <<x, y>> \in before /\ <<y, z>> \in before => <<x, z>> \in before
  /\ \A x, y \in S : x = y \/ <<x, y>> \in before \/ <<y, x>> \in before

\* The numbers up to n are n.
LEMMA UpTo == \A n \in Nat : IsFiniteSet(1..n) /\ Cardinality(1..n) = n
<1> SUFFICES ASSUME NEW n \in Nat PROVE IsFiniteSet(1..n) /\ Cardinality(1..n) = n
  OBVIOUS
<1> QED BY FS_Interval

\* A finite set in a strict total order is listed whole, once, and in that order: the
\* number of elements before one grows along the order, so it is a numbering.
LEMMA InOrderOf ==
  ASSUME NEW S, IsFiniteSet(S), NEW before, Orders(before, S)
  PROVE  /\ Cardinality(S) \in Nat
         /\ InOrder(S, before) \in Bijection(1..Cardinality(S), S)
         /\ \A k, l \in 1..Cardinality(S) :
              k < l => <<InOrder(S, before)[k], InOrder(S, before)[l]>> \in before
<1> DEFINE n == Cardinality(S)
           Below(x) == {y \in S : <<y, x>> \in before}
           rank == [x \in S |-> Cardinality(Below(x)) + 1]
           L == InOrder(S, before)
<1>1. n \in Nat
  BY FS_CardinalityType
<1>2. \A x \in S : IsFiniteSet(Below(x)) /\ Cardinality(Below(x)) \in Nat
                   /\ Cardinality(Below(x)) <= n
  BY FS_Subset, FS_CardinalityType
<1>3. ASSUME NEW x \in S, NEW y \in S, <<x, y>> \in before
      PROVE  Cardinality(Below(x)) < Cardinality(Below(y))
  <2>1. Below(x) \subseteq Below(y) /\ x \in Below(y) /\ x \notin Below(x)
    BY <1>3 DEF Orders
  <2>2. Cardinality(Below(x)) <= Cardinality(Below(y))
        /\ (Cardinality(Below(y)) = Cardinality(Below(x)) => Below(y) = Below(x))
    BY <1>2, <2>1, FS_Subset
  <2>3. Below(y) # Below(x)
    BY <2>1
  <2> HIDE DEF Below
  <2> QED BY <1>2, <2>2, <2>3
<1>4. rank \in [S -> 1..n]
  <2>1. ASSUME NEW x \in S PROVE Cardinality(Below(x)) # n
    <3>1. Below(x) \in SUBSET S /\ x \notin Below(x)
      BY DEF Orders
    <3>2. Cardinality(S) = Cardinality(Below(x)) => S = Below(x)
      BY <3>1, FS_Subset
    <3> QED BY <3>1, <3>2
  <2> HIDE DEF Below, n
  <2>2. \A x \in S : Cardinality(Below(x)) + 1 \in 1..n
    BY <1>1, <1>2, <2>1
  <2> QED BY <2>2
<1>5. rank \in Injection(S, 1..n)
  <2> HIDE DEF Below
  <2>1. ASSUME NEW x \in S, NEW y \in S, rank[x] = rank[y]
        PROVE  x = y
    <3>1. Cardinality(Below(x)) = Cardinality(Below(y))
      BY <1>2, <2>1
    <3>2. <<x, y>> \notin before /\ <<y, x>> \notin before
      BY <1>2, <1>3, <3>1
    <3> QED BY <3>2 DEF Orders
  <2> HIDE DEF rank
  <2> QED BY <1>4, <2>1, Fun_IsInj
<1>6. \A k \in 1..n : \E x \in S : rank[x] = k
  <2>1. IsFiniteSet(1..n) /\ Cardinality(1..n) = n
    BY <1>1, FS_Interval
  <2>2. rank \in Surjection(S, 1..n)
    BY <1>5, <2>1, FS_Injection
  <2> HIDE DEF rank, n
  <2> QED BY <2>2, Fun_SurjectionProperties
<1>7. DOMAIN L = 1..n /\ \A k \in 1..n : L[k] = CHOOSE x \in S : Cardinality(Below(x)) = k - 1
  BY DEF InOrder
<1>8. \A k \in 1..n : L[k] \in S /\ rank[L[k]] = k
  <2> TAKE k \in 1..n
  <2>1. PICK x \in S : rank[x] = k
    BY <1>6
  <2> HIDE DEF Below, L
  <2>2. Cardinality(Below(x)) = k - 1
    BY <1>1, <1>2, <2>1
  <2>3. L[k] = CHOOSE y \in S : Cardinality(Below(y)) = k - 1
    BY <1>7
  <2>4. L[k] \in S /\ Cardinality(Below(L[k])) = k - 1
    BY <2>2, <2>3
  <2> QED BY <1>1, <2>4
<1>9. \A k, l \in 1..n : k < l => <<L[k], L[l]>> \in before
  <2> TAKE k, l \in 1..n
  <2> HAVE k < l
  <2>1. L[k] \in S /\ L[l] \in S /\ rank[L[k]] = k /\ rank[L[l]] = l
    BY <1>8
  <2>2. Cardinality(Below(L[k])) + 1 = k /\ Cardinality(Below(L[l])) + 1 = l
    BY <2>1
  <2> HIDE DEF Below, L, rank
  <2>3. L[k] # L[l]
    BY <1>1, <2>1
  <2>4. ~(<<L[l], L[k]>> \in before)
    BY <1>1, <1>2, <1>3, <2>1, <2>2
  <2> QED BY <2>1, <2>3, <2>4 DEF Orders
<1>10. L \in Bijection(1..n, S)
  <2>1. L \in [1..n -> S]
    BY <1>7, <1>8 DEF InOrder
  <2>2. \A x \in S : rank[x] \in 1..n /\ L[rank[x]] = x
    <3> TAKE x \in S
    <3>1. rank[x] \in 1..n
      BY <1>4
    <3>2. L[rank[x]] \in S /\ rank[L[rank[x]]] = rank[x]
      BY <1>8, <3>1
    <3> QED BY <1>5, <3>1, <3>2, Fun_InjectionProperties
  <2>3. \A k, l \in 1..n : L[k] = L[l] => k = l
    BY <1>8
  <2> HIDE DEF L, rank, n
  <2> QED BY <2>1, <2>2, <2>3, Fun_IsBij
<1> QED BY <1>1, <1>9, <1>10

\* So is what a list has at some of its places.
LEMMA ArrangedOf ==
  ASSUME NEW X, NEW list \in Seq(X), NEW places \in SUBSET DOMAIN list,
         NEW before, Orders(before, places)
  PROVE  LET n == Cardinality(places)
             L == Arranged(list, places, before)
         IN  /\ n \in Nat /\ n <= Len(list) /\ L \in Seq(X) /\ Len(L) = n
             /\ \E at \in [1..n -> places] :
                  /\ \A i \in places : \E k \in 1..n : at[k] = i
                  /\ \A k, l \in 1..n : at[k] = at[l] => k = l
                  /\ \A k \in 1..n : L[k] = list[at[k]]
                  /\ \A k, l \in 1..n : k < l => <<at[k], at[l]>> \in before
<1> DEFINE n == Cardinality(places)
           at == InOrder(places, before)
           L == Arranged(list, places, before)
<1>1. IsFiniteSet(places) /\ n \in Nat /\ n <= Len(list)
  <2>1. Len(list) \in Nat /\ DOMAIN list = 1..Len(list)
    OBVIOUS
  <2>2. IsFiniteSet(1..Len(list)) /\ Cardinality(1..Len(list)) = Len(list)
    BY <2>1, UpTo
  <2>3. places \in SUBSET (1..Len(list))
    BY <2>1
  <2>4. IsFiniteSet(places) /\ n <= Len(list)
    BY <2>2, <2>3, FS_Subset
  <2> QED BY <2>4, FS_CardinalityType
<1>2. /\ at \in Bijection(1..n, places)
      /\ \A k, l \in 1..n : k < l => <<at[k], at[l]>> \in before
  BY <1>1, InOrderOf
<1>3. /\ at \in [1..n -> places]
      /\ \A i \in places : \E k \in 1..n : at[k] = i
      /\ \A k, l \in 1..n : at[k] = at[l] => k = l
  <2> DEFINE D == 1..n
  <2>1. at \in Bijection(D, places)
    BY <1>2
  <2> HIDE DEF at, D
  <2>2. /\ at \in [D -> places]
        /\ \A i \in places : \E k \in D : at[k] = i
        /\ \A k, l \in D : at[k] = at[l] => k = l
    BY <2>1, Fun_BijectionProperties
  <2> QED BY <2>2 DEF D
<1>4. L = [k \in 1..n |-> list[at[k]]]
  BY <1>3 DEF Arranged
<1> HIDE DEF at
<1>5. \A k \in 1..n : list[at[k]] \in X
  BY <1>3
<1>6. L \in Seq(X) /\ Len(L) = n
  <2> HIDE DEF L, n
  <2>1. [k \in 1..n |-> list[at[k]]] \in Seq(X) /\ Len([k \in 1..n |-> list[at[k]]]) = n
    BY <1>1, <1>5
  <2> QED BY <1>4, <2>1
<1>7. \A k \in 1..n : L[k] = list[at[k]]
  BY <1>4
<1> HIDE DEF L, n
<1>8. \E f \in [1..n -> places] :
        /\ \A i \in places : \E k \in 1..n : f[k] = i
        /\ \A k, l \in 1..n : f[k] = f[l] => k = l
        /\ \A k \in 1..n : L[k] = list[f[k]]
        /\ \A k, l \in 1..n : k < l => <<f[k], f[l]>> \in before
  BY <1>2, <1>3, <1>7
<1> QED BY <1>1, <1>6, <1>8 DEF L, n

\* Of numbers the smaller is first.
LEMMA AscendingOf ==
  ASSUME NEW places, places \subseteq Nat
  PROVE  Orders(Ascending(places), places)
<1>1. \A i, j \in places : <<i, j>> \in Ascending(places) <=> i < j
  BY DEF Ascending
<1>2. \A i, j, k \in places :
        /\ ~(i < i)
        /\ i < j /\ j < k => i < k
        /\ i = j \/ i < j \/ j < i
  OBVIOUS
<1> QED BY <1>1, <1>2 DEF Orders

\* What passes a test is in the list, and is all of it that does.
LEMMA FilterOf ==
  ASSUME NEW X, NEW list \in Seq(X), NEW places \in SUBSET DOMAIN list
  PROVE  LET L == Arranged(list, places, Ascending(places))
         IN  /\ L \in Seq(X) /\ Len(L) = Cardinality(places) /\ Len(L) <= Len(list)
             /\ Range(L) = {list[i] : i \in places}
<1> DEFINE n == Cardinality(places)
           L == Arranged(list, places, Ascending(places))
<1>1. places \subseteq Nat
  OBVIOUS
<1>2. Orders(Ascending(places), places)
  BY <1>1, AscendingOf
<1>3. n \in Nat /\ n <= Len(list) /\ L \in Seq(X) /\ Len(L) = n
  BY <1>2, ArrangedOf
<1>4. PICK at \in [1..n -> places] :
        /\ \A i \in places : \E k \in 1..n : at[k] = i
        /\ \A k \in 1..n : L[k] = list[at[k]]
  BY <1>2, ArrangedOf
<1> HIDE DEF L, n
<1>5. DOMAIN L = 1..n
  BY <1>3
<1>6. Range(L) = {list[i] : i \in places}
  BY <1>4, <1>5 DEF Range
<1> QED BY <1>3, <1>6 DEF L, n

\* A sorted list has the elements of the list, each that comes before another first.
LEMMA SortedOf ==
  ASSUME NEW X, NEW list \in Seq(X), NEW before, Orders(before, DOMAIN list)
  PROVE  LET L == Arranged(list, DOMAIN list, before)
         IN  /\ L \in Seq(X) /\ Len(L) = Len(list) /\ DOMAIN L = DOMAIN list
             /\ \A k \in DOMAIN L : \E i \in DOMAIN list : L[k] = list[i]
             /\ \A k, l \in DOMAIN L : k < l =>
                  \E i, j \in DOMAIN list :
                    L[k] = list[i] /\ L[l] = list[j] /\ <<i, j>> \in before
<1> DEFINE D == DOMAIN list
           n == Cardinality(D)
           L == Arranged(list, D, before)
<1>1. D \in SUBSET DOMAIN list /\ Orders(before, D)
  OBVIOUS
<1>2. n = Len(list) /\ D = 1..Len(list) /\ Len(list) \in Nat
  <2>1. Len(list) \in Nat /\ D = 1..Len(list)
    OBVIOUS
  <2> HIDE DEF D
  <2> QED BY <2>1, UpTo
<1> HIDE DEF D
<1>3. n \in Nat /\ n <= Len(list) /\ L \in Seq(X) /\ Len(L) = n
  BY <1>1, ArrangedOf
<1>4. PICK at \in [1..n -> D] :
        /\ \A k \in 1..n : L[k] = list[at[k]]
        /\ \A k, l \in 1..n : k < l => <<at[k], at[l]>> \in before
  BY <1>1, ArrangedOf
<1> HIDE DEF L, n
<1>5. DOMAIN L = 1..n
  BY <1>2, <1>3
<1>6. \A k \in 1..n : at[k] \in D
  OBVIOUS
<1>7. \A k \in DOMAIN L : \E i \in D : L[k] = list[i]
  BY <1>4, <1>5, <1>6
<1>8. \A k, l \in DOMAIN L : k < l =>
        \E i, j \in D : L[k] = list[i] /\ L[l] = list[j] /\ <<i, j>> \in before
  BY <1>4, <1>5, <1>6
<1>9. DOMAIN L = D
  BY <1>2, <1>5
<1> QED BY <1>2, <1>3, <1>7, <1>8, <1>9 DEF L, D

-------------------------------------------------------------------------------
(* What is made of the organisation connected: searching in order of preference. *)

\* A set of numbers has a least one.
LEMMA LeastIn ==
  ASSUME NEW S, S \subseteq Nat, S # {}
  PROVE  Min(S) \in S /\ \A y \in S : Min(S) <= y
<1>1. PICK x \in S : \A y \in S : ~(<<y, x>> \in {ss \in Nat \X Nat : ss[1] < ss[2]})
  BY NatLessThanWellFounded, WFMin DEF OpToRel
<1>2. ASSUME NEW y \in S
      PROVE  x <= y
  <2>1. x \in Nat /\ y \in Nat
    OBVIOUS
  <2>2. ~(y < x)
    BY <1>1, <2>1
  <2> QED BY <2>1, <2>2
<1> QED BY <1>2 DEF Min

\* What is found in a sequence is in the set looked for, and it is found if it is there.
LEMMA FirstInOf ==
  ASSUME NEW seq, DOMAIN seq \subseteq Nat, NEW S, None \notin S
  PROVE  /\ FirstIn(seq, S) # None <=> \E i \in DOMAIN seq : seq[i] \in S
         /\ FirstIn(seq, S) # None => FirstIn(seq, S) \in S
<1>0. DOMAIN seq \subseteq Nat
  OBVIOUS
<1> DEFINE hits == {i \in DOMAIN seq : seq[i] \in S}
<1>1. FirstIn(seq, S) = (IF hits = {} THEN None ELSE seq[Min(hits)])
  BY DEF FirstIn
<1>2. ASSUME hits # {}
      PROVE  Min(hits) \in hits
  <2>1. hits \subseteq Nat
    OBVIOUS
  <2> QED BY <1>2, <2>1, LeastIn
<1>3. CASE hits = {}
  BY <1>1, <1>3
<1>4. CASE hits # {}
  <2>1. FirstIn(seq, S) = seq[Min(hits)] /\ Min(hits) \in hits
    BY <1>1, <1>2, <1>4
  <2> QED BY <2>1
<1> QED BY <1>3, <1>4

\* What the classification reads of an organisation.
LEMMA BundleOf ==
  ASSUME NEW org, NEW refused
  PROVE  LET b == DiscoverOrg(org, refused)
         IN  /\ b.catalog = Catalog(org, refused)
             /\ b.account = DescribeAccount(org, refused)
             /\ b.packages = {p \in Range(Packages) : ObjectsOf(p) \intersect b.catalog # {}}
             /\ b.candidates = Candidates(b.catalog, refused)
  BY DEF DiscoverOrg

\* The packages looked for, and what they are not.
LEMMA KnownPackages ==
  /\ DOMAIN Packages = 1..3
  /\ \A p \in Range(Packages) : p.household \in ObjectsOf(p) /\ ObjectsOf(p) \subseteq PackageObjects
  /\ None \notin PackageObjects \union CustomObjects \union HouseholdLike
  /\ "Account" \notin PackageObjects \union CustomObjects
<1>1. DOMAIN Packages = 1..3
  BY DEF Packages
<1>2. /\ Packages[1].household = "cloupra__Household__c"
      /\ Packages[1].junction = "cloupra__Client_Group_Member__c"
  BY DEF Packages
<1>3. /\ Packages[2].household = "XLR8__Client_Group__c"
      /\ Packages[2].junction = "XLR8__Client_Group_Member__c"
  BY DEF Packages
<1>4. Packages[3].household = "wealthbox__Household__c" /\ Packages[3].junction = "none"
  BY DEF Packages, None
<1>5. \A i \in 1..3 :
        /\ Packages[i].household # "none" /\ Packages[i].household # "Account"
        /\ Packages[i].junction # "Account"
  BY <1>2, <1>3, <1>4
<1>6. \A p \in Range(Packages) : \E i \in 1..3 : p = Packages[i]
  BY <1>1 DEF Range
<1>7. \A p \in Range(Packages) :
        p.household \in ObjectsOf(p) /\ ObjectsOf(p) \subseteq PackageObjects
  BY <1>1, <1>5, <1>6 DEF ObjectsOf, PackageObjects, None
<1>8. \A o \in PackageObjects : o # "none" /\ o # "Account"
  BY <1>1, <1>5 DEF PackageObjects, ObjectsOf, None
<1>9. None \notin HouseholdLike /\ None \notin CustomObjects /\ "Account" \notin CustomObjects
  BY DEF HouseholdLike, CustomObjects, None
<1> QED BY <1>1, <1>7, <1>8, <1>9 DEF None

\* The package picked is one that was recognised and whose household object was described.
LEMMA PackageHouseholdOf ==
  ASSUME NEW b, b.packages \subseteq Range(Packages)
  PROVE  /\ PackageHousehold(b) # None
              <=> \E p \in b.packages : p.household \in b.catalog \intersect b.candidates
         /\ PackageHousehold(b) # None =>
              \E p \in b.packages : p.household = PackageHousehold(b) /\ p.household \in b.catalog
<1> DEFINE names == [i \in DOMAIN Packages |-> Packages[i].household]
           found == {p.household : p \in b.packages} \intersect b.catalog \intersect b.candidates
<1>1. PackageHousehold(b) = FirstIn(names, found)
  BY DEF PackageHousehold
<1>2. \A p \in b.packages : p.household # None /\ \E i \in DOMAIN names : names[i] = p.household
  BY KnownPackages DEF Range
<1>3. None \notin found
  BY <1>2
<1>4. DOMAIN names \subseteq Nat
  BY KnownPackages
<1> HIDE DEF names
<1>5. /\ FirstIn(names, found) # None <=> \E i \in DOMAIN names : names[i] \in found
      /\ FirstIn(names, found) # None => FirstIn(names, found) \in found
  BY <1>3, <1>4, FirstInOf
<1>6. (\E i \in DOMAIN names : names[i] \in found)
        <=> \E p \in b.packages : p.household \in b.catalog \intersect b.candidates
  BY <1>2
<1> QED BY <1>1, <1>5, <1>6

\* A custom household object is a candidate, and there is one if a candidate is like one.
LEMMA CustomHouseholdOf ==
  ASSUME NEW b
  PROVE  CustomHousehold(b) # None => CustomHousehold(b) \in b.candidates \intersect HouseholdLike
<1>1. DOMAIN CandidateOrder \subseteq Nat
  BY DEF CandidateOrder
<1>2. None \notin b.candidates \intersect HouseholdLike
  BY KnownPackages
<1> HIDE DEF CandidateOrder
<1> QED BY <1>1, <1>2, FirstInOf DEF CustomHousehold

-------------------------------------------------------------------------------
(* A household made under a mapping is found under it. *)

\* What a mapping says of the household when it was made for an organisation whose
\* record type has an id.
Usable(h) ==
  /\ h.object # None
  /\ h.rt # None => h.rtId # None
  /\ h.field \in {None, "Type"}

\* Such a mapping lists what it makes, unless an account filter is ambiguous.
LEMMA UsableFinds ==
  ASSUME NEW m, Usable(m.household), IsFiniteSet(AccountFilters(m))
  PROVE  FindsItsOwn(m)
<1> SUFFICES ASSUME Cardinality(AccountFilters(m)) < 2
             PROVE  Lists(m, NewHousehold(m))
  BY DEF FindsItsOwn
<1>1. m # NoMapping
  BY DEF NoMapping, Usable
<1>2. ~(Cardinality(AccountFilters(m)) > 1)
  BY FS_CardinalityType
<1>3. NewHousehold(m).object = HouseholdObject(m)
  BY DEF NewHousehold
<1>4. CASE m.household.rt # None
  <2>1. HouseholdFilter(m) = {<<"RecordType", m.household.rt>>}
    BY <1>1, <1>2, <1>4 DEF HouseholdFilter
  <2>2. <<"RecordType", m.household.rt>> \in NewHousehold(m).has
    BY <1>1, <1>4 DEF NewHousehold, HouseholdRecordTypeId, Usable
  <2> QED BY <1>3, <2>1, <2>2 DEF Lists
<1>5. CASE m.household.rt = None /\ m.household.field # None /\ m.household.value # None
  <2>1. m.household.field = "Type"
    BY <1>5 DEF Usable
  <2>2. HouseholdFilter(m) = {<<"Type", m.household.value>>}
    BY <1>1, <1>2, <1>5, <2>1 DEF HouseholdFilter
  <2>3. <<"Type", m.household.value>> \in NewHousehold(m).has
    BY <1>1, <1>5, <2>1 DEF NewHousehold, HouseholdTypeValue
  <2> QED BY <1>3, <2>2, <2>3 DEF Lists
<1>6. CASE m.household.rt = None /\ ~(m.household.field # None /\ m.household.value # None)
  <2>1. HouseholdFilter(m) = {}
    BY <1>1, <1>2, <1>6 DEF HouseholdFilter
  <2> QED BY <1>3, <2>1 DEF Lists
<1> QED BY <1>4, <1>5, <1>6

\* Filters on accounts come from the record type and the Type of households alone.
LEMMA FewFilters ==
  ASSUME NEW b, NEW m, m.patterns = HouseholdPatterns(b)
  PROVE  IsFiniteSet(AccountFilters(m))
<1> DEFINE all == {<<"RecordType", b.account.rt>>, <<"Type", "Household">>}
<1>1. AccountFilters(m) \subseteq all
  BY DEF AccountFilters, HouseholdPatterns, NoFilter
<1>2. IsFiniteSet(all)
  <2>1. IsFiniteSet({<<"RecordType", b.account.rt>>})
    BY FS_Singleton
  <2>2. all = {<<"RecordType", b.account.rt>>} \union {<<"Type", "Household">>}
    OBVIOUS
  <2> QED BY <2>1, <2>2, FS_AddElement
<1> QED BY <1>1, <1>2, FS_Subset

\* A bundle as discovery makes it.
Bundle(b) ==
  /\ b.packages \subseteq Range(Packages)
  /\ b.candidates \subseteq CustomObjects \union PackageObjects
  /\ b.account.rt # None => b.account.rtId # None

\* Discovery makes such a bundle, whatever the organisation refuses.
LEMMA DiscoveredBundle ==
  ASSUME NEW org, NEW refused, org.rt # None => org.rtId # None
  PROVE  Bundle(DiscoverOrg(org, refused))
<1>1. Candidates(Catalog(org, refused), refused) \subseteq CustomObjects \union PackageObjects
  BY DEF Candidates
<1>2. DescribeAccount(org, refused).rt # None => DescribeAccount(org, refused).rtId # None
  BY DEF DescribeAccount, NoAccount
<1> QED BY <1>1, <1>2, BundleOf DEF Bundle

\* What is rebuilt of it for the answers given by hand is such a bundle too, with the
\* same choices.
LEMMA StoredBundle ==
  ASSUME NEW org, NEW refused, Bundle(DiscoverOrg(org, refused))
  PROVE  LET b == DiscoverOrg(org, refused)
         IN  /\ Bundle(Stored(b))
             /\ HouseholdChoices(Stored(b)) = HouseholdChoices(b)
<1> DEFINE b == DiscoverOrg(org, refused)
<1>1. /\ DOMAIN b = {"catalog", "account", "contact", "financial", "packages", "candidates",
                     "automation", "counts", "dataTypes", "hierarchy", "required"}
      /\ DOMAIN b.account = {"described", "rt", "rtId", "types", "fields", "hidden", "person"}
  BY DEF DiscoverOrg, DescribeAccount, NoAccount
<1>2. Bundle(b)
  OBVIOUS
<1> HIDE DEF b
<1>3. /\ Stored(b).packages = {}
      /\ Stored(b).candidates = b.candidates /\ Stored(b).dataTypes = b.dataTypes
      /\ Stored(b).account.rt = b.account.rt /\ Stored(b).account.rtId = b.account.rtId
      /\ Stored(b).account.types = b.account.types
  BY <1>1 DEF Stored
<1>4. Bundle(Stored(b))
  BY <1>2, <1>3 DEF Bundle
<1>5. HouseholdChoices(Stored(b)) = HouseholdChoices(b)
  BY <1>3 DEF HouseholdChoices
<1> QED BY <1>4, <1>5 DEF b

\* The automatic classification of a bundle is usable.
LEMMA ClassifiedUsable ==
  ASSUME NEW b, Bundle(b)
  PROVE  Usable(DetectHousehold(b))
<1>1. \A o, conf : o # None => Usable(OnCustomObject(o, conf))
  BY DEF Usable, OnCustomObject
<1>2. \A rt, rtId, field, value, conf :
        (rt # None => rtId # None) /\ field \in {None, "Type"} =>
          Usable(OnAccount(b, rt, rtId, field, value, conf))
  BY DEF Usable, OnAccount, None
<1> QED BY <1>1, <1>2 DEF DetectHousehold, Bundle

\* The fields of the household part of a mapping.
Fields == {"object", "rt", "rtId", "field", "value", "advisor", "aum", "tier", "status",
           "hierarchy", "conf"}

\* So is the part of a mapping that follows from the answers given by hand, for each
\* household choice the page offers.
LEMMA ManualUsable ==
  ASSUME NEW b, Bundle(b), NEW choice \in HouseholdChoices(b), NEW advisor
  PROVE  Usable([ManualHousehold(DetectHousehold(b), b, choice) EXCEPT
                   !.advisor = advisor, !.aum = None])
<1> DEFINE base == DetectHousehold(b)
           On(object, rt, rtId, field, value) ==
             [[base EXCEPT !.conf = 100] EXCEPT
                !.object = object, !.rt = rt, !.rtId = rtId, !.field = field, !.value = value]
           With(h) == [h EXCEPT !.advisor = advisor, !.aum = None]
<1>1. DOMAIN base = Fields
  <2>1. \A o, conf : DOMAIN OnCustomObject(o, conf) = Fields
    BY DEF OnCustomObject, Fields
  <2>2. \A rt, rtId, field, value, conf :
          DOMAIN OnAccount(b, rt, rtId, field, value, conf) = Fields
    BY DEF OnAccount, Fields
  <2> QED BY <2>1, <2>2 DEF DetectHousehold
<1> HIDE DEF base
<1>2. ASSUME NEW object, NEW rt, NEW rtId, NEW field, NEW value,
             object # None, rt # None => rtId # None, field \in {None, "Type"}
      PROVE  Usable(With(On(object, rt, rtId, field, value)))
  BY <1>1, <1>2 DEF Usable, Fields
<1>3. \/ choice[1] = "recordType" /\ choice[2] = b.account.rt /\ choice[2] # None
      \/ choice[1] = "typePicklist"
      \/ choice[1] = "customObject" /\ choice[2] \in b.candidates
      \/ choice[1] = "allAccounts"
  BY DEF HouseholdChoices
<1> HIDE DEF On, With
<1>4. CASE choice[1] = "recordType" /\ choice[2] = b.account.rt /\ choice[2] # None
  <2>1. ManualHousehold(base, b, choice)
          = On("Account", choice[2], b.account.rtId, None, None)
    BY <1>4 DEF ManualHousehold, On
  <2>2. b.account.rtId # None
    BY <1>4 DEF Bundle
  <2> QED BY <1>2, <2>1, <2>2 DEF base, None, With
<1>5. CASE choice[1] = "typePicklist"
  <2>1. ManualHousehold(base, b, choice) = On("Account", None, None, "Type", choice[2])
    BY <1>5 DEF ManualHousehold, On
  <2> QED BY <1>2, <2>1 DEF base, None, With
<1>6. CASE choice[1] = "customObject" /\ choice[2] \in b.candidates
  <2>1. ManualHousehold(base, b, choice) = On(choice[2], None, None, None, None)
    BY <1>6 DEF ManualHousehold, On
  <2>2. choice[2] # None
    BY <1>6, KnownPackages DEF Bundle
  <2> QED BY <1>2, <2>1, <2>2 DEF base, With
<1>7. CASE choice[1] = "allAccounts"
  <2>1. ManualHousehold(base, b, choice) = On("Account", None, None, None, None)
    BY <1>7 DEF ManualHousehold, On
  <2> QED BY <1>2, <2>1 DEF base, None, With
<1> QED BY <1>3, <1>4, <1>5, <1>6, <1>7

\* For every organisation whose record type comes with its id, whatever calls it refuses:
\* a household created under the mapping (households.ts) is among those the searches of
\* org-query.ts list under it, unless the filters of two patterns on accounts come before
\* the mapping; both for the mapping as classified and for one completed by any answers the
\* setup page offers.
THEOREM HouseholdsAreFoundAgain ==
  ASSUME NEW org, org.rt # None => org.rtId # None, NEW refused, NEW advisor, NEW aumField
  PROVE  LET b == DiscoverOrg(org, refused)
         IN  /\ FindsItsOwn(Classify(b))
             /\ \A choice \in HouseholdChoices(b) :
                  FindsItsOwn(ApplyManual(b, choice, advisor, aumField))
<1> DEFINE b == DiscoverOrg(org, refused)
<1>1. Bundle(b) /\ Bundle(Stored(b)) /\ HouseholdChoices(Stored(b)) = HouseholdChoices(b)
  BY DiscoveredBundle, StoredBundle
<1> HIDE DEF b
<1>2. FindsItsOwn(Classify(b))
  <2>1. /\ Classify(b).household = DetectHousehold(b)
        /\ Classify(b).patterns = HouseholdPatterns(b)
    BY DEF Classify
  <2> QED BY <1>1, <2>1, ClassifiedUsable, FewFilters, UsableFinds
<1>3. ASSUME NEW choice \in HouseholdChoices(b)
      PROVE  FindsItsOwn(ApplyManual(b, choice, advisor, aumField))
  <2> DEFINE m == ApplyManual(b, choice, advisor, aumField)
  <2>1. /\ m.household
             = [ManualHousehold(Classify(Stored(b)).household, Stored(b), choice) EXCEPT
                  !.advisor = advisor, !.aum = None]
        /\ m.patterns = Classify(Stored(b)).patterns
    BY DEF ApplyManual, Classify
  <2>2. /\ Classify(Stored(b)).household = DetectHousehold(Stored(b))
        /\ Classify(Stored(b)).patterns = HouseholdPatterns(Stored(b))
    BY DEF Classify
  <2> HIDE DEF m
  <2>3. Usable(m.household)
    <3> DEFINE s == Stored(b)
    <3>1. Bundle(s) /\ choice \in HouseholdChoices(s)
      BY <1>1
    <3>2. m.household = [ManualHousehold(DetectHousehold(s), s, choice) EXCEPT
                           !.advisor = advisor, !.aum = None]
      BY <2>1, <2>2
    <3> HIDE DEF s
    <3>3. Usable([ManualHousehold(DetectHousehold(s), s, choice) EXCEPT
                    !.advisor = advisor, !.aum = None])
      BY <3>1, ManualUsable
    <3> QED BY <3>2, <3>3
  <2>4. FindsItsOwn(m)
    BY <2>1, <2>2, <2>3, FewFilters, UsableFinds
  <2> QED BY <2>4 DEF m
<1> QED BY <1>2, <1>3 DEF b

-------------------------------------------------------------------------------
(* The household picked is one of the patterns. *)

\* The objects of the patterns.
LEMMA PatternsOf ==
  ASSUME NEW b
  PROVE  /\ \A p \in b.packages : p.household \in b.catalog =>
              \E q \in HouseholdPatterns(b) : q.object = p.household
         /\ b.account.rt # None \/ "Household" \in b.account.types \union b.dataTypes =>
              \E q \in HouseholdPatterns(b) : q.object = "Account"
         /\ CustomHousehold(b) # None =>
              \E q \in HouseholdPatterns(b) : q.object = CustomHousehold(b)
         /\ \/ HouseholdPatterns(b) = {}
            \/ \E p \in b.packages : p.household \in b.catalog
            \/ b.account.rt # None
            \/ "Household" \in b.account.types \union b.dataTypes
            \/ CustomHousehold(b) # None
<1> DEFINE A(p) == [type |-> "managed_package", object |-> p.household, filter |-> NoFilter]
           B(r) == [type |-> "recordType", object |-> "Account", filter |-> <<"RecordType", r>>]
           C(t) == [type |-> "typePicklist", object |-> "Account", filter |-> <<"Type", t>>]
           D(t) == [type |-> "dataTypeValue", object |-> "Account", filter |-> <<"Type", t>>]
           E(o) == [type |-> "customObject", object |-> o, filter |-> NoFilter]
<1>1. HouseholdPatterns(b)
        = {A(p) : p \in {q \in b.packages : q.household \in b.catalog}}
            \union {B(r) : r \in {b.account.rt} \ {None}}
            \union {C(t) : t \in b.account.types \intersect {"Household"}}
            \union {D(t) : t \in (b.dataTypes \intersect {"Household"}) \ b.account.types}
            \union {E(o) : o \in {CustomHousehold(b)} \ {None}}
  BY DEF HouseholdPatterns
<1>2. /\ \A p : A(p).object = p.household
      /\ \A r : B(r).object = "Account"
      /\ \A t : C(t).object = "Account" /\ D(t).object = "Account"
      /\ \A o : E(o).object = o
  OBVIOUS
<1> HIDE DEF A, B, C, D, E
<1>3. ASSUME NEW p \in b.packages, p.household \in b.catalog
      PROVE  \E q \in HouseholdPatterns(b) : q.object = p.household
  BY <1>1, <1>2, <1>3
<1>4. ASSUME b.account.rt # None
      PROVE  \E q \in HouseholdPatterns(b) : q.object = "Account"
  <2>1. B(b.account.rt) \in HouseholdPatterns(b)
    BY <1>1, <1>4
  <2> QED BY <1>2, <2>1
<1>5. ASSUME "Household" \in b.account.types \union b.dataTypes
      PROVE  \E q \in HouseholdPatterns(b) : q.object = "Account"
  <2>1. C("Household") \in HouseholdPatterns(b) \/ D("Household") \in HouseholdPatterns(b)
    BY <1>1, <1>5
  <2> QED BY <1>2, <2>1
<1>6. ASSUME CustomHousehold(b) # None
      PROVE  \E q \in HouseholdPatterns(b) : q.object = CustomHousehold(b)
  <2>1. E(CustomHousehold(b)) \in HouseholdPatterns(b)
    BY <1>1, <1>6
  <2> QED BY <1>2, <2>1
<1>7. ASSUME NEW q \in HouseholdPatterns(b)
      PROVE  \/ \E p \in b.packages : p.household \in b.catalog
             \/ b.account.rt # None
             \/ "Household" \in b.account.types \union b.dataTypes
             \/ CustomHousehold(b) # None
  BY <1>1
<1> QED BY <1>3, <1>4, <1>5, <1>6, <1>7

\* With nothing refused about packages, every package household of the catalog is
\* described.
LEMMA PackagesDescribed ==
  ASSUME NEW org, NEW refused, "package" \notin refused
  PROVE  LET b == DiscoverOrg(org, refused)
         IN  /\ b.packages \subseteq Range(Packages)
             /\ \A p \in b.packages : p.household \in b.catalog => p.household \in b.candidates
<1> DEFINE b == DiscoverOrg(org, refused)
<1>1. b.packages \subseteq Range(Packages) /\ b.candidates = Candidates(b.catalog, refused)
  BY BundleOf
<1> HIDE DEF b
<1>2. \A p \in b.packages : p.household \in PackageObjects
  BY <1>1, KnownPackages
<1>3. \A p \in b.packages : p.household \in b.catalog => p.household \in b.candidates
  BY <1>1, <1>2 DEF Candidates
<1> QED BY <1>1, <1>3 DEF b

\* For every organisation, whatever calls it refuses besides the describes of packages: the
\* household object the classification picks is that of one of the patterns it lists, and
\* it reports a low confidence when it found no pattern.
THEOREM PatternIsPicked ==
  ASSUME NEW org, NEW refused, "package" \notin refused
  PROVE  PicksAPattern(Classify(DiscoverOrg(org, refused)))
<1> DEFINE b == DiscoverOrg(org, refused)
           m == Classify(b)
<1>1. /\ b.packages \subseteq Range(Packages)
      /\ \A p \in b.packages : p.household \in b.catalog => p.household \in b.candidates
  BY PackagesDescribed
<1> HIDE DEF b
<1>2. m.household = DetectHousehold(b) /\ m.patterns = HouseholdPatterns(b)
  BY DEF Classify
<1> HIDE DEF m
<1>3. /\ PackageHousehold(b) # None <=> \E p \in b.packages : p.household \in b.catalog
      /\ PackageHousehold(b) # None =>
           \E p \in b.packages : p.household = PackageHousehold(b) /\ p.household \in b.catalog
  BY <1>1, PackageHouseholdOf
<1> DEFINE noPattern == /\ PackageHousehold(b) = None /\ b.account.rt = None
                        /\ "Household" \notin b.account.types
                        /\ "Household" \notin b.dataTypes /\ CustomHousehold(b) = None
<1>4. m.patterns = {} <=> noPattern
  BY <1>2, <1>3, PatternsOf
<1>5. m.household.conf = 40 <=> noPattern
  BY <1>2 DEF DetectHousehold, OnAccount, OnCustomObject
<1>6. m.household.conf = 40 => IsLowConfidence(m)
  BY DEF IsLowConfidence
<1>7. ASSUME ~noPattern
      PROVE  \E p \in m.patterns : p.object = m.household.object
  <2>1. CASE PackageHousehold(b) # None
    <3>1. m.household.object = PackageHousehold(b)
      BY <1>2, <2>1 DEF DetectHousehold, OnCustomObject
    <3> QED BY <1>2, <1>3, <2>1, <3>1, PatternsOf
  <2>2. CASE PackageHousehold(b) = None /\ b.account.rt # None
    <3>1. m.household.object = "Account"
      BY <1>2, <2>2 DEF DetectHousehold, OnAccount
    <3> QED BY <1>2, <2>2, <3>1, PatternsOf
  <2>3. CASE /\ PackageHousehold(b) = None /\ b.account.rt = None
             /\ "Household" \in b.account.types \union b.dataTypes
    <3>1. m.household.object = "Account"
      BY <1>2, <2>3 DEF DetectHousehold, OnAccount
    <3> QED BY <1>2, <2>3, <3>1, PatternsOf
  <2>4. CASE /\ PackageHousehold(b) = None /\ b.account.rt = None
             /\ "Household" \notin b.account.types \union b.dataTypes
             /\ CustomHousehold(b) # None
    <3>1. m.household.object = CustomHousehold(b)
      BY <1>2, <2>4 DEF DetectHousehold, OnCustomObject
    <3> QED BY <1>2, <2>4, <3>1, PatternsOf
  <2> QED BY <1>7, <2>1, <2>2, <2>3, <2>4
<1>8. PicksAPattern(m)
  BY <1>4, <1>5, <1>6, <1>7 DEF PicksAPattern
<1> QED BY <1>8 DEF m, b

-------------------------------------------------------------------------------
(* The inputs of Figures. *)

\* Each action takes an input of its own kind.
LEMMA KindOf ==
  /\ OpenAccount => input'.kind = "opening"
  /\ MapOrganisation => input'.kind = "organisation"
  /\ ShowPractice => input'.kind = "practice"
  /\ ShowHousehold => input'.kind = "household"
  /\ ScanHousehold => input'.kind = "scan"
  /\ ScanBook => input'.kind = "batch"
  /\ ImportFile => input'.kind = "import"
  /\ RunWizard => input'.kind = "wizard"
<1>1. MapOrganisation => input'.kind = "organisation"
  <2> SUFFICES ASSUME MapOrganisation PROVE input'.kind = "organisation"
    OBVIOUS
  <2>1. PICK organisation, refused :
          input' = [kind |-> "organisation", refused |-> refused, org |-> organisation]
    BY Zenon DEF MapOrganisation
  <2> QED BY <2>1
<1>2. OpenAccount => input'.kind = "opening"
  BY DEF OpenAccount
<1>3. ShowPractice => input'.kind = "practice"
  BY DEF ShowPractice
<1>4. ShowHousehold => input'.kind = "household"
  BY DEF ShowHousehold
<1>5. ScanHousehold => input'.kind = "scan"
  BY DEF ScanHousehold
<1>6. ScanBook => input'.kind = "batch"
  BY DEF ScanBook
<1>7. ImportFile => input'.kind = "import"
  BY DEF ImportFile
<1>8. RunWizard => input'.kind = "wizard"
  BY DEF RunWizard
<1> QED BY <1>1, <1>2, <1>3, <1>4, <1>5, <1>6, <1>7, <1>8

\* An organisation's record type comes with its id.
OrgInv == At("organisation") => (input.org.rt # None => input.org.rtId # None)

\* Every organisation the runs map satisfies it.
LEMMA OrgInvariant == FiguresSpec => []OrgInv
<1>1. FiguresInit => OrgInv
  BY DEF FiguresInit, OrgInv, At
<1>2. OrgInv /\ [FiguresNext]_input => OrgInv'
  <2> SUFFICES ASSUME OrgInv, [FiguresNext]_input PROVE OrgInv'
    OBVIOUS
  <2>1. CASE MapOrganisation
    <3>1. PICK objects \in SUBSET SomeObjects, rt \in {None, "Household", "Household Group"},
               types \in {{}, {"Household"}, {"Household", "Client"}},
               dataTypes \in {{}, {"Household"}, {"Client"}},
               fields \in {{}, {"advisor", "aum"}}, refused \in Refusals :
            input' = [kind |-> "organisation", refused |-> refused,
                      org |-> Organisation(objects, rt, types, dataTypes, fields)]
      BY <2>1, Zenon DEF MapOrganisation
    <3> DEFINE org == Organisation(objects, rt, types, dataTypes, fields)
    <3>2. org.rt # None => org.rtId # None
      BY DEF Organisation, None
    <3> HIDE DEF org
    <3>3. input'.org = org
      BY <3>1 DEF org
    <3> QED BY <3>2, <3>3 DEF OrgInv
  <2>2. CASE UNCHANGED input
    BY <2>2 DEF OrgInv, At
  <2> QED BY <2>1, <2>2, KindOf DEF FiguresNext, OrgInv, At
<1> QED BY <1>1, <1>2, PTL DEF FiguresSpec

\* A household made under a mapping is found under it, of every organisation mapped.
THEOREM FoundAgainHolds == FiguresSpec => []FoundAgain
<1>1. OrgInv => FoundAgain
  BY HouseholdsAreFoundAgain DEF OrgInv, FoundAgain
<1> QED BY <1>1, OrgInvariant, PTL

\* The two readings of the scan, household and patterns, agree in every state.
THEOREM ScansAgreeHolds == FiguresSpec => []ScansAgree
<1>1. ScansAgree
  BY PatternIsPicked DEF ScansAgree
<1> QED BY <1>1, PTL

-------------------------------------------------------------------------------
(* A failure comes with a plan. *)

\* The checks that fail rather than warn when their evidence is missing.
MustPass == {"kyc-profile", "identity-verified", "suitability-profile", "form-crs", "signatures",
             "completeness-check", "trust-certification", "authorized-signers",
             "entity-resolution"}

\* Only those checks, and the firm's own, fail.
LEMMA OnlyTheseFail ==
  ASSUME NEW hh, NEW firm, NEW c \in RunComplianceChecks(hh, firm), c.status = "fail"
  PROVE  c.id \in MustPass \/ \E d \in firm.customs : c.id = d.id
<1> DEFINE map == EffectiveKeywords(firm.keywords)
<1>1. /\ \A id : Check(map, id, hh.text, "warn").status # "fail"
      /\ \A id, missing : Check(map, id, hh.text, missing).id = id
  BY DEF Check
<1> HIDE DEF map
<1>2. CASE c \in IdentityChecks(map, hh.text)
  BY <1>1, <1>2 DEF IdentityChecks, MustPass
<1>3. CASE c \in SuitabilityChecks(map, hh.text)
  BY <1>1, <1>3 DEF SuitabilityChecks, MustPass
<1>4. CASE c \in DocumentChecks(map, hh.text)
  BY <1>1, <1>4 DEF DocumentChecks, MustPass
<1>5. CASE c \in AccountChecks(map, hh.text)
  BY <1>1, <1>5 DEF AccountChecks, MustPass
<1>6. CASE c \in RegulatoryChecks(map, hh.text, hh.olderThanAYear)
  BY <1>1, <1>6 DEF RegulatoryChecks, MustPass
<1>7. CASE c \in AccountTypeChecks(map, hh.text, hh.type)
  BY <1>1, <1>7 DEF AccountTypeChecks, MustPass
<1>8. CASE c \in CustomChecks(firm.customs, hh.text)
  BY <1>8 DEF CustomChecks
<1> QED BY <1>2, <1>3, <1>4, <1>5, <1>6, <1>7, <1>8 DEF RunComplianceChecks, map

\* Each of them has a plan, and its last step is for operations.
LEMMA PlansEndWithOps ==
  ASSUME NEW id \in MustPass
  PROVE  Remediation(id) # <<>> /\ Last(Remediation(id)) = "ops"
<1>1. \E p \in {<<"advisor", "advisor", "ops">>, <<"advisor", "client", "ops">>,
                <<"ops", "client", "advisor", "ops">>, <<"ops", "ops", "ops">>,
                <<"ops", "ops", "client", "ops">>, <<"ops", "advisor", "ops">>,
                <<"advisor", "ops", "ops">>} : Remediation(id) = p
  BY DEF MustPass, Remediation
<1>2. \A a1, a2, a3 : <<a1, a2, a3>> # <<>> /\ Last(<<a1, a2, a3>>) = a3
  BY DEF Last
<1>3. \A a1, a2, a3, a4 : <<a1, a2, a3, a4>> # <<>> /\ Last(<<a1, a2, a3, a4>>) = a4
  BY DEF Last
<1> QED BY <1>1, <1>2, <1>3

\* For every record and every firm's settings: a built-in check that fails comes with a
\* remediation plan that ends with operations.
THEOREM FailuresAreRepairable ==
  ASSUME NEW hh, NEW firm, NEW c \in RunComplianceChecks(hh, firm), c.status = "fail",
         \A d \in firm.customs : c.id # d.id
  PROVE  RemediationOf(c) # <<>> /\ Last(RemediationOf(c)) = "ops"
  BY OnlyTheseFail, PlansEndWithOps DEF RemediationOf

\* The same of every household scanned.
THEOREM FailuresHavePlansHolds == FiguresSpec => []FailuresHavePlans
<1>1. FailuresHavePlans
  <2> SUFFICES ASSUME At("scan"), NEW c \in RunComplianceChecks(input.household, input.firm),
                      c.status = "fail", c.id \notin {d.id : d \in input.firm.customs}
               PROVE  RemediationOf(c) # <<>> /\ Last(RemediationOf(c)) = "ops"
    BY DEF FailuresHavePlans
  <2> QED BY FailuresAreRepairable
<1> QED BY <1>1, PTL

-------------------------------------------------------------------------------
(* The requests of an opening are taken. *)

\* An opening with names of up to 232 letters: two of them and the longest type make
\* an envelope's name of less than 500.
Opening(o) ==
  /\ \E Account : o.accounts \in Seq(Account)
  /\ o.accounts # <<>>
  /\ o.benes \in Nat /\ o.name \in 1..232 /\ o.source \in Nat

\* The parts of a request, and the fields of its data.
LEMMA RequestOf ==
  ASSUME NEW action, NEW data, NEW text
  PROVE  /\ Request(action, data, text).action = action
         /\ Request(action, data, text).text = text
         /\ Request(action, data, text).data = Over(data, ForHousehold)
  BY DEF Request

\* A field of its own is what the request says it is.
LEMMA OwnField ==
  ASSUME NEW data, NEW f \in DOMAIN data
  PROVE  Over(data, ForHousehold)[f] = data[f]
  BY DEF Over

\* The fields of the household are in every request.
LEMMA HouseholdFields ==
  ASSUME NEW data, "householdId" \notin DOMAIN data, "familyName" \notin DOMAIN data
  PROVE  /\ Over(data, ForHousehold).householdId = TRUE
         /\ Over(data, ForHousehold).familyName = 8
  BY DEF Over, ForHousehold

\* A list with no more places than the limit is accepted.
LEMMA ShortList ==
  ASSUME NEW n \in Nat, NEW list, DOMAIN list \subseteq 1..n, NEW limit \in Nat, n <= limit
  PROVE  RequiredList(list, limit)
<1>1. IsFiniteSet(1..n) /\ Cardinality(1..n) = n
  BY UpTo
<1>2. IsFiniteSet(DOMAIN list) /\ Cardinality(DOMAIN list) <= n
  BY <1>1, FS_Subset
<1>3. Cardinality(DOMAIN list) \in Nat
  BY <1>2, FS_CardinalityType
<1> QED BY <1>2, <1>3 DEF RequiredList

\* The accounts of an opening and the lengths of their texts.
LEMMA AccountsOf ==
  ASSUME NEW o, Opening(o)
  PROVE  /\ Len(o.accounts) \in Nat \ {0} /\ DOMAIN o.accounts = 1..Len(o.accounts)
         /\ \A i \in DOMAIN o.accounts :
              /\ OwnerLength(o, o.accounts[i]) \in 1..467
              /\ AccountLabel(o, o.accounts[i]) \in 22..488
              /\ BeneficiaryText(o, o.accounts[i]) \in Nat \ {0}
<1>1. Len(o.accounts) \in Nat /\ DOMAIN o.accounts = 1..Len(o.accounts) /\ o.accounts # <<>>
  BY DEF Opening
<1>2. Len(o.accounts) # 0
  BY <1>1 DEF Opening
<1>3. ASSUME NEW i \in DOMAIN o.accounts
      PROVE  /\ OwnerLength(o, o.accounts[i]) \in 1..467
             /\ AccountLabel(o, o.accounts[i]) \in 22..488
             /\ BeneficiaryText(o, o.accounts[i]) \in Nat \ {0}
  <2>1. o.name \in 1..232 /\ o.benes \in Nat
    BY DEF Opening
  <2>2. OwnerLength(o, o.accounts[i]) \in 1..467
    BY <2>1 DEF OwnerLength
  <2>3. AccountLabel(o, o.accounts[i]) \in 22..488
    BY <2>2 DEF AccountLabel
  <2>4. ASSUME o.benes # 0
        PROVE  o.benes * (o.name + 25) - 2 \in Nat \ {0}
    <3>1. ASSUME NEW b \in Nat \ {0}, NEW k \in Nat, k > 2 PROVE b * k - 2 \in Nat \ {0}
      BY <3>1
    <3>2. o.benes \in Nat \ {0} /\ o.name + 25 \in Nat /\ o.name + 25 > 2
      BY <2>1, <2>4
    <3> QED BY <3>1, <3>2
  <2>5. BeneficiaryText(o, o.accounts[i]) \in Nat \ {0}
    <3> DEFINE designated == o.benes * (o.name + 25) - 2
    <3>1. BeneficiaryText(o, o.accounts[i]) \in {19, 4} \union (IF o.benes = 0 THEN {} ELSE {designated})
      BY Zenon DEF BeneficiaryText
    <3>2. o.benes # 0 => designated \in Nat \ {0}
      BY <2>4
    <3> HIDE DEF designated
    <3> QED BY <3>1, <3>2
  <2> QED BY <2>2, <2>3, <2>5
<1> QED BY <1>1, <1>2, <1>3

\* One of no more accounts than a household may be made for.
Taken(o) == Opening(o) /\ Len(o.accounts) <= 20

\* The lengths of an account's texts, of an opening that is taken.
LEMMA LabelsOf ==
  ASSUME NEW o, Taken(o), NEW i \in DOMAIN o.accounts
  PROVE  /\ AccountLabel(o, o.accounts[i]) \in 22..488
         /\ BeneficiaryText(o, o.accounts[i]) \in Nat \ {0}
  BY AccountsOf DEF Taken

\* A list made of the accounts has a place for each.
LEMMA PerAccount ==
  ASSUME NEW o, Taken(o), NEW list, DOMAIN list \subseteq DOMAIN o.accounts,
         NEW limit \in Nat, 20 <= limit
  PROVE  RequiredList(list, limit)
<1>1. PICK n \in Nat : DOMAIN o.accounts = 1..n /\ n <= 20
  BY AccountsOf DEF Taken
<1>2. DOMAIN list \subseteq 1..n /\ n <= limit
  BY <1>1
<1> QED BY <1>2, ShortList

\* The documents of an account are nine at most.
LEMMA FewDocuments ==
  ASSUME NEW a, NEW ach
  PROVE  RequiredList([doc \in DocsFor(a, ach) |-> 20], MaxList)
<1> DEFINE all == {"application", "crs", "addendum", "beneficiary", "ach", "rollover", "pte",
                   "transfer", "loa"}
           nth == [i \in 1..9 |-> CASE i = 1 -> "application" [] i = 2 -> "crs"
                     [] i = 3 -> "addendum" [] i = 4 -> "beneficiary" [] i = 5 -> "ach"
                     [] i = 6 -> "rollover" [] i = 7 -> "pte" [] i = 8 -> "transfer"
                     [] i = 9 -> "loa"]
<1>1. DocsFor(a, ach) \subseteq all
  BY DEF DocsFor
<1>2. nth \in [1..9 -> all]
  OBVIOUS
<1>3. \A d \in all : \E i \in 1..9 : nth[i] = d
  <2>1. /\ nth[1] = "application" /\ nth[2] = "crs" /\ nth[3] = "addendum"
        /\ nth[4] = "beneficiary" /\ nth[5] = "ach" /\ nth[6] = "rollover"
        /\ nth[7] = "pte" /\ nth[8] = "transfer" /\ nth[9] = "loa"
    OBVIOUS
  <2> HIDE DEF nth
  <2> QED BY <2>1
<1>4. IsFiniteSet(1..9) /\ Cardinality(1..9) = 9
  BY UpTo, 9 \in Nat
<1>5. IsFiniteSet(all) /\ Cardinality(all) <= 9
  <2> HIDE DEF nth, all
  <2>1. nth \in Surjection(1..9, all)
    BY <1>2, <1>3 DEF Surjection
  <2> QED BY <1>4, <2>1, FS_Surjection
<1> HIDE DEF all
<1>6. IsFiniteSet(DocsFor(a, ach)) /\ Cardinality(DocsFor(a, ach)) <= 9
  <2>1. IsFiniteSet(DocsFor(a, ach)) /\ Cardinality(DocsFor(a, ach)) <= Cardinality(all)
    BY <1>1, <1>5, FS_Subset
  <2>2. Cardinality(DocsFor(a, ach)) \in Nat /\ Cardinality(all) \in Nat
    BY <1>5, <2>1, FS_CardinalityType
  <2> QED BY <1>5, <2>1, <2>2
<1>7. Cardinality(DocsFor(a, ach)) \in Nat
  BY <1>6, FS_CardinalityType
<1> QED BY <1>6, <1>7 DEF RequiredList, MaxList

\* Operations may ask for everything an opening asks for.
LEMMA OperationsMay ==
  \A action : action # "recordMeetingNote" => MayRequest("operations", action)
  BY DEF MayRequest

\* A household is made for twenty accounts at most.
LEMMA ConfirmTaken ==
  ASSUME NEW o, Opening(o), Accepts("operations", ConfirmOpening(o))
  PROVE  Len(o.accounts) <= 20
<1> DEFINE accounts == ForAccounts(o, LAMBDA a : [type |-> 18, owner |-> OwnerLength(o, a)])
           data == [assignedAdvisor |-> 0, members |-> <<Client, Client>>, accounts |-> accounts]
           r == ConfirmOpening(o)
<1>1. r = Request("confirmIntent", data, {})
  BY DEF ConfirmOpening
<1>2. DOMAIN data = {"assignedAdvisor", "members", "accounts"} /\ data.accounts = accounts
  OBVIOUS
<1>3. DOMAIN accounts = DOMAIN o.accounts
  BY DEF ForAccounts
<1> HIDE DEF accounts, data, r
<1>4. r.action = "confirmIntent" /\ r.data.accounts = accounts
  <2>1. Over(data, ForHousehold).accounts = data.accounts
    BY <1>2, OwnField
  <2>2. r.action = "confirmIntent" /\ r.data = Over(data, ForHousehold)
    BY <1>1, RequestOf
  <2> QED BY <1>2, <2>1, <2>2
<1>5. RequiredList(accounts, 20)
  BY <1>4 DEF Accepts, ValidConfirmIntent, r
<1>6. Cardinality(DOMAIN accounts) = Len(o.accounts)
  BY <1>3, AccountsOf, UpTo
<1> QED BY <1>5, <1>6 DEF RequiredList

\* The funding is taken, twenty labels of less than 500 letters, exactly if none is
\* recorded or what is typed of a source fits a text.
LEMMA FundingTaken ==
  ASSUME NEW o, Taken(o)
  PROVE  /\ FundingRequest(o).action = "recordFunding"
         /\ Accepts("operations", FundingRequest(o))
              <=> ~(Funded(o) # {} /\ FundingDetail(o) > MaxText)
<1> DEFINE details == [i \in Funded(o) |-> [account |-> AccountLabel(o, o.accounts[i]),
                                    detail |-> FundingDetail(o)]]
           data == [fundingDetails |-> details]
           text == FundingText({a.funding : a \in Range(o.accounts)})
           r == FundingRequest(o)
<1>1. r = Request("recordFunding", data, text)
  BY DEF FundingRequest
<1>2. DOMAIN data = {"fundingDetails"} /\ data.fundingDetails = details
  OBVIOUS
<1>3. DOMAIN details \subseteq DOMAIN o.accounts
  BY DEF Funded
<1>4. /\ \A f \in Range(details) : f.account \in 22..488 /\ f.detail = FundingDetail(o)
      /\ Range(details) = {} <=> Funded(o) = {}
  <2>1. ASSUME NEW i \in Funded(o)
        PROVE  details[i].account \in 22..488 /\ details[i].detail = FundingDetail(o)
    <3>1. /\ details[i].account = AccountLabel(o, o.accounts[i])
          /\ details[i].detail = FundingDetail(o)
      OBVIOUS
    <3> QED BY <3>1, LabelsOf DEF Funded
  <2>2. DOMAIN details = Funded(o)
    OBVIOUS
  <2> HIDE DEF details
  <2> QED BY <2>1, <2>2 DEF Range
<1> HIDE DEF details, data, text, r
<1>5. /\ r.action = "recordFunding" /\ r.data.householdId = TRUE /\ r.data.familyName = 8
      /\ r.data.fundingDetails = details
  <2>1. Over(data, ForHousehold).fundingDetails = data.fundingDetails
    BY <1>2, OwnField
  <2>2. Over(data, ForHousehold).householdId = TRUE /\ Over(data, ForHousehold).familyName = 8
    BY <1>2, HouseholdFields
  <2>3. r.action = "recordFunding" /\ r.data = Over(data, ForHousehold)
    BY <1>1, RequestOf
  <2> QED BY <1>2, <2>1, <2>2, <2>3
<1>6. RequiredList(details, 100)
  BY <1>3, PerAccount
<1>7. FundingDetail(o) \in Nat \ {0}
  BY DEF FundingDetail, Opening, Taken
<1>8. ValidRecordFunding(r.data) <=> ~(Funded(o) # {} /\ FundingDetail(o) > MaxText)
  <2>1. \A f \in Range(details) : RequiredText(f.account, MaxText)
    BY <1>4 DEF RequiredText, MaxText
  <2>2. RequiredText(FundingDetail(o), MaxText) <=> ~(FundingDetail(o) > MaxText)
    BY <1>7 DEF RequiredText, MaxText
  <2>3. (\A f \in Range(details) : RequiredText(f.detail, MaxText))
          <=> (Range(details) # {} => RequiredText(FundingDetail(o), MaxText))
    BY <1>4
  <2>4. RequiredText(8, MaxText) /\ RequiredList(details, MaxList)
    BY <1>6 DEF RequiredText, MaxText, MaxList
  <2>5. ValidRecordFunding(r.data) <=> \A f \in Range(details) : RequiredText(f.detail, MaxText)
    BY <1>5, <2>1, <2>4 DEF ValidRecordFunding
  <2> QED BY <1>4, <2>2, <2>3, <2>5
<1> QED BY <1>5, <1>8, OperationsMay DEF Accepts, r

\* The money link fits.
LEMMA MoneyLinkTaken == Accepts("operations", MoneyLinkRequest)
<1> DEFINE data == [bankName |-> 10, lastFour |-> 4, routingLastFour |-> 4]
           r == MoneyLinkRequest
<1>1. r = Request("recordMoneyLink", data, MoneyLinkText)
  BY DEF MoneyLinkRequest
<1>2. /\ DOMAIN data = {"bankName", "lastFour", "routingLastFour"}
      /\ data.bankName = 10 /\ data.lastFour = 4 /\ data.routingLastFour = 4
  OBVIOUS
<1> HIDE DEF data, r
<1>3. /\ r.action = "recordMoneyLink" /\ r.data.householdId = TRUE
      /\ r.data.bankName = 10 /\ r.data.lastFour = 4 /\ r.data.routingLastFour = 4
  <2>1. Over(data, ForHousehold).bankName = data.bankName /\ Over(data, ForHousehold).lastFour = data.lastFour /\ Over(data, ForHousehold).routingLastFour = data.routingLastFour
    BY <1>2, OwnField
  <2>2. Over(data, ForHousehold).householdId = TRUE /\ Over(data, ForHousehold).familyName = 8
    BY <1>2, HouseholdFields
  <2>3. r.action = "recordMoneyLink" /\ r.data = Over(data, ForHousehold)
    BY <1>1, RequestOf
  <2> QED BY <1>2, <2>1, <2>2, <2>3
<1>4. ValidRecordMoneyLink(r.data)
  BY <1>3 DEF ValidRecordMoneyLink, RequiredText, MaxText
<1> QED BY <1>3, <1>4, OperationsMay DEF Accepts, r

\* The beneficiaries are taken exactly if each account's fit a text.
LEMMA BeneficiariesTaken ==
  ASSUME NEW o, Taken(o)
  PROVE  Accepts("operations", BeneficiariesRequest(o))
           <=> ~\E a \in Range(o.accounts) : BeneficiaryText(o, a) > MaxText
<1> DEFINE list == ForAccounts(o, LAMBDA a :
                     [account |-> AccountLabel(o, a), beneficiary |-> BeneficiaryText(o, a)])
           data == [designations |-> list]
           r == BeneficiariesRequest(o)
<1>1. r = Request("recordBeneficiaries", data, BeneficiariesText)
  BY DEF BeneficiariesRequest
<1>2. DOMAIN data = {"designations"} /\ data.designations = list
  OBVIOUS
<1>3. /\ DOMAIN list = DOMAIN o.accounts
      /\ \A i \in DOMAIN o.accounts :
           /\ list[i].account = AccountLabel(o, o.accounts[i])
           /\ list[i].beneficiary = BeneficiaryText(o, o.accounts[i])
  BY DEF ForAccounts
<1> HIDE DEF list, data, r
<1>4. /\ r.action = "recordBeneficiaries" /\ r.data.householdId = TRUE /\ r.data.familyName = 8
      /\ r.data.designations = list
  <2>1. Over(data, ForHousehold).designations = data.designations
    BY <1>2, OwnField
  <2>2. Over(data, ForHousehold).householdId = TRUE /\ Over(data, ForHousehold).familyName = 8
    BY <1>2, HouseholdFields
  <2>3. r.action = "recordBeneficiaries" /\ r.data = Over(data, ForHousehold)
    BY <1>1, RequestOf
  <2> QED BY <1>2, <2>1, <2>2, <2>3
<1>5. RequiredList(list, 100)
  BY <1>3, PerAccount
<1>6. ValidRecordBeneficiaries(r.data)
        <=> \A i \in DOMAIN o.accounts : BeneficiaryText(o, o.accounts[i]) \in 1..500
  <2>1. \A i \in DOMAIN o.accounts :
          /\ list[i].account \in 22..488
          /\ list[i].beneficiary = BeneficiaryText(o, o.accounts[i])
    BY <1>3, LabelsOf
  <2>2. Range(list) = {list[i] : i \in DOMAIN o.accounts}
    BY <1>3 DEF Range
  <2>3. ValidRecordBeneficiaries(r.data)
          <=> \A x \in Range(list) : x.account \in 1..500 /\ x.beneficiary \in 1..500
    BY <1>4, <1>5 DEF ValidRecordBeneficiaries, RequiredText, MaxText, MaxList
  <2>4. (\A x \in Range(list) : x.account \in 1..500 /\ x.beneficiary \in 1..500)
          <=> \A i \in DOMAIN o.accounts :
                list[i].account \in 1..500 /\ list[i].beneficiary \in 1..500
    BY <2>2
  <2>5. \A i \in DOMAIN o.accounts : list[i].account \in 1..500
    BY <2>1
  <2> QED BY <2>1, <2>3, <2>4, <2>5
<1>7. (\E a \in Range(o.accounts) : BeneficiaryText(o, a) > MaxText)
        <=> \E i \in DOMAIN o.accounts : BeneficiaryText(o, o.accounts[i]) > 500
  BY DEF Range, MaxText
<1>8. Accepts("operations", r) <=> ValidRecordBeneficiaries(r.data)
  BY <1>4, OperationsMay DEF Accepts
<1>9. \A i \in DOMAIN o.accounts :
        BeneficiaryText(o, o.accounts[i]) \in 1..500
          <=> ~(BeneficiaryText(o, o.accounts[i]) > 500)
  BY LabelsOf
<1> QED BY <1>6, <1>7, <1>8, <1>9 DEF r

\* The completeness check fits.
LEMMA CompletenessTaken ==
  ASSUME NEW o
  PROVE  Accepts("operations", CompletenessRequest(o))
<1> DEFINE data == [checks |-> <<20, 20, 20>>]
           r == CompletenessRequest(o)
<1>1. r = Request("recordCompleteness", data, CompletenessText(OpeningLabels(o.ach)))
  BY DEF CompletenessRequest
<1>2. DOMAIN data = {"checks"} /\ data.checks = <<20, 20, 20>>
  OBVIOUS
<1> HIDE DEF data, r
<1>3. /\ r.action = "recordCompleteness" /\ r.data.householdId = TRUE /\ r.data.familyName = 8
      /\ r.data.checks = <<20, 20, 20>>
  <2>1. Over(data, ForHousehold).checks = data.checks
    BY <1>2, OwnField
  <2>2. Over(data, ForHousehold).householdId = TRUE /\ Over(data, ForHousehold).familyName = 8
    BY <1>2, HouseholdFields
  <2>3. r.action = "recordCompleteness" /\ r.data = Over(data, ForHousehold)
    BY <1>1, RequestOf
  <2> QED BY <1>2, <2>1, <2>2, <2>3
<1>4. RequiredList(<<20, 20, 20>>, 100)
  <2>1. DOMAIN <<20, 20, 20>> \subseteq 1..3 /\ 3 \in Nat /\ 100 \in Nat /\ 3 <= 100
    OBVIOUS
  <2> QED BY <2>1, ShortList
<1>5. ValidRecordCompleteness(r.data)
  BY <1>3, <1>4 DEF ValidRecordCompleteness, RequiredText, MaxText, MaxList
<1> QED BY <1>3, <1>5, OperationsMay DEF Accepts, r

\* The paperwork fits: twenty accounts of nine documents each.
LEMMA PaperworkTaken ==
  ASSUME NEW o, Taken(o)
  PROVE  Accepts("operations", PaperworkRequest(o))
<1> DEFINE list == ForAccounts(o, LAMBDA a :
                     [name |-> AccountLabel(o, a) + 9,
                      documents |-> [doc \in DocsFor(a, o.ach) |-> 20]])
           data == [envelopes |-> list]
           text == PaperworkText(o.custodian, UNION {DocsFor(a, o.ach) : a \in Range(o.accounts)})
           r == PaperworkRequest(o)
<1>1. r = Request("recordPaperwork", data, text)
  BY DEF PaperworkRequest
<1>2. DOMAIN data = {"envelopes"} /\ data.envelopes = list
  OBVIOUS
<1>3. /\ DOMAIN list = DOMAIN o.accounts
      /\ \A i \in DOMAIN o.accounts :
           /\ list[i].name = AccountLabel(o, o.accounts[i]) + 9
           /\ list[i].documents = [doc \in DocsFor(o.accounts[i], o.ach) |-> 20]
  BY DEF ForAccounts
<1> HIDE DEF list, data, text, r
<1>4. /\ r.action = "recordPaperwork" /\ r.data.householdId = TRUE /\ r.data.envelopes = list
  <2>1. Over(data, ForHousehold).envelopes = data.envelopes
    BY <1>2, OwnField
  <2>2. Over(data, ForHousehold).householdId = TRUE /\ Over(data, ForHousehold).familyName = 8
    BY <1>2, HouseholdFields
  <2>3. r.action = "recordPaperwork" /\ r.data = Over(data, ForHousehold)
    BY <1>1, RequestOf
  <2> QED BY <1>2, <2>1, <2>2, <2>3
<1>5. RequiredList(list, 25)
  BY <1>3, PerAccount
<1>6. \A e \in Range(list) : e.name \in 1..500 /\ RequiredList(e.documents, MaxList)
  <2>1. ASSUME NEW i \in DOMAIN o.accounts
        PROVE  list[i].name \in 1..500 /\ RequiredList(list[i].documents, MaxList)
    <3>1. AccountLabel(o, o.accounts[i]) \in 22..488
      BY LabelsOf
    <3>2. /\ list[i].name = AccountLabel(o, o.accounts[i]) + 9
          /\ list[i].documents = [doc \in DocsFor(o.accounts[i], o.ach) |-> 20]
      BY <1>3
    <3> QED BY <3>1, <3>2, FewDocuments
  <2> QED BY <1>3, <2>1 DEF Range
<1>7. ValidRecordPaperwork(r.data)
  BY <1>4, <1>5, <1>6 DEF ValidRecordPaperwork, RequiredText, MaxText
<1> QED BY <1>4, <1>7, OperationsMay DEF Accepts, r

\* The envelopes' configuration fits: twenty names of less than 500 letters.
LEMMA ConfigTaken ==
  ASSUME NEW o, Taken(o)
  PROVE  Accepts("operations", DocusignConfigRequest(o))
<1> DEFINE list == ForAccounts(o, LAMBDA a :
                     [envelope |-> AccountLabel(o, a) + 11,
                      recipients |-> IF a.owner = "both" THEN 2 * o.name + 12 ELSE o.name + 9])
           data == [config |-> list]
           r == DocusignConfigRequest(o)
<1>1. r = Request("recordDocusignConfig", data, DocusignConfigText)
  BY DEF DocusignConfigRequest
<1>2. DOMAIN data = {"config"} /\ data.config = list
  OBVIOUS
<1>3. /\ DOMAIN list = DOMAIN o.accounts
      /\ \A i \in DOMAIN o.accounts :
           /\ list[i].envelope = AccountLabel(o, o.accounts[i]) + 11
           /\ list[i].recipients \in {2 * o.name + 12, o.name + 9}
  BY DEF ForAccounts
<1> HIDE DEF list, data, r
<1>4. /\ r.action = "recordDocusignConfig" /\ r.data.householdId = TRUE
      /\ r.data.familyName = 8 /\ r.data.config = list
  <2>1. Over(data, ForHousehold).config = data.config
    BY <1>2, OwnField
  <2>2. Over(data, ForHousehold).householdId = TRUE /\ Over(data, ForHousehold).familyName = 8
    BY <1>2, HouseholdFields
  <2>3. r.action = "recordDocusignConfig" /\ r.data = Over(data, ForHousehold)
    BY <1>1, RequestOf
  <2> QED BY <1>2, <2>1, <2>2, <2>3
<1>5. RequiredList(list, 100)
  BY <1>3, PerAccount
<1>6. \A c \in Range(list) : c.envelope \in 1..500 /\ c.recipients \in 1..500
  <2>1. ASSUME NEW i \in DOMAIN o.accounts
        PROVE  list[i].envelope \in 1..500 /\ list[i].recipients \in 1..500
    <3>1. AccountLabel(o, o.accounts[i]) \in 22..488 /\ o.name \in 1..232
      BY LabelsOf DEF Taken, Opening
    <3> QED BY <1>3, <3>1
  <2> QED BY <1>3, <2>1 DEF Range
<1>7. ValidRecordDocusignConfig(r.data)
  BY <1>4, <1>5, <1>6 DEF ValidRecordDocusignConfig, RequiredText, MaxText, MaxList
<1> QED BY <1>4, <1>7, OperationsMay DEF Accepts, r

\* The envelopes fit: twenty of nine documents each.
LEMMA SendTaken ==
  ASSUME NEW o, Taken(o)
  PROVE  Accepts("operations", SendRequest(o))
<1> DEFINE list == ForAccounts(o, LAMBDA a :
                     [name |-> AccountLabel(o, a), signers |-> SignerNames(a), emailSubject |-> 44])
           data == [envelopes |-> list]
           r == SendRequest(o)
<1>1. r = Request("sendDocusign", data, SendDocusignText)
  BY DEF SendRequest
<1>2. DOMAIN data = {"envelopes"} /\ data.envelopes = list
  OBVIOUS
<1>3. /\ DOMAIN list = DOMAIN o.accounts
      /\ \A i \in DOMAIN o.accounts :
           /\ list[i].name = AccountLabel(o, o.accounts[i])
           /\ list[i].signers = SignerNames(o.accounts[i]) /\ list[i].emailSubject = 44
  BY DEF ForAccounts
<1> HIDE DEF list, data, r
<1>4. /\ r.action = "sendDocusign" /\ r.data.householdId = TRUE /\ r.data.envelopes = list
  <2>1. Over(data, ForHousehold).envelopes = data.envelopes
    BY <1>2, OwnField
  <2>2. Over(data, ForHousehold).householdId = TRUE /\ Over(data, ForHousehold).familyName = 8
    BY <1>2, HouseholdFields
  <2>3. r.action = "sendDocusign" /\ r.data = Over(data, ForHousehold)
    BY <1>1, RequestOf
  <2> QED BY <1>2, <2>1, <2>2, <2>3
<1>5. RequiredList(list, 25)
  BY <1>3, PerAccount
<1>6. \A a : RequiredList(SignerNames(a), MaxList)
  <2>1. \A a : DOMAIN SignerNames(a) \subseteq 1..2
    BY DEF SignerNames
  <2> QED BY <2>1, ShortList, 2 \in Nat, 100 \in Nat, 2 <= 100 DEF MaxList
<1>7. \A e \in Range(list) :
        e.name \in 1..500 /\ e.emailSubject \in 1..500 /\ RequiredList(e.signers, MaxList)
  <2>1. ASSUME NEW i \in DOMAIN o.accounts
        PROVE  /\ list[i].name \in 1..500 /\ list[i].emailSubject \in 1..500
               /\ RequiredList(list[i].signers, MaxList)
    <3>1. AccountLabel(o, o.accounts[i]) \in 22..488
      BY LabelsOf
    <3> QED BY <1>3, <1>6, <3>1
  <2> QED BY <1>3, <2>1 DEF Range
<1>8. ValidSendDocusign(r.data)
  BY <1>4, <1>5, <1>7 DEF ValidSendDocusign, RequiredText, MaxText
<1> QED BY <1>4, <1>8, OperationsMay DEF Accepts, r

\* What each request of an opening is for, and the text of the task it leaves.
LEMMA RequestsOf ==
  ASSUME NEW o
  PROVE  /\ ConfirmOpening(o).action = "confirmIntent" /\ ConfirmOpening(o).text = {}
         /\ FundingRequest(o).text = FundingText({a.funding : a \in Range(o.accounts)})
         /\ MoneyLinkRequest.text = MoneyLinkText
         /\ BeneficiariesRequest(o).action = "recordBeneficiaries"
         /\ BeneficiariesRequest(o).text = BeneficiariesText
         /\ CompletenessRequest(o).text = CompletenessText(OpeningLabels(o.ach))
         /\ PaperworkRequest(o).action = "recordPaperwork"
         /\ PaperworkRequest(o).text
              = PaperworkText(o.custodian, UNION {DocsFor(a, o.ach) : a \in Range(o.accounts)})
         /\ DocusignConfigRequest(o).text = DocusignConfigText
         /\ SendRequest(o).text = SendDocusignText
<1>1. ConfirmOpening(o).action = "confirmIntent" /\ ConfirmOpening(o).text = {}
  BY DEF ConfirmOpening, ForAccounts, Request
<1>2. FundingRequest(o).text = FundingText({a.funding : a \in Range(o.accounts)})
  BY DEF FundingRequest, Request
<1>3. MoneyLinkRequest.text = MoneyLinkText
  BY DEF MoneyLinkRequest, Request
<1>4. /\ BeneficiariesRequest(o).action = "recordBeneficiaries"
      /\ BeneficiariesRequest(o).text = BeneficiariesText
  BY DEF BeneficiariesRequest, ForAccounts, Request
<1>5. CompletenessRequest(o).text = CompletenessText(OpeningLabels(o.ach))
  BY DEF CompletenessRequest, Request
<1>6. /\ PaperworkRequest(o).action = "recordPaperwork"
      /\ PaperworkRequest(o).text
           = PaperworkText(o.custodian, UNION {DocsFor(a, o.ach) : a \in Range(o.accounts)})
  BY DEF PaperworkRequest, ForAccounts, Request
<1>7. DocusignConfigRequest(o).text = DocusignConfigText
  BY DEF DocusignConfigRequest, ForAccounts, Request
<1>8. SendRequest(o).text = SendDocusignText
  BY DEF SendRequest, ForAccounts, Request
<1> QED BY <1>1, <1>2, <1>3, <1>4, <1>5, <1>6, <1>7, <1>8

\* For any opening: a run that makes its household has all its requests taken, whatever the
\* number of accounts, of beneficiaries and (up to 232) of letters in a name, save the
\* beneficiaries' when an account's do not fit a text, and the funding when what is typed
\* of a source does not.
THEOREM OpeningsAreTaken ==
  ASSUME NEW o, Opening(o)
  PROVE  TakenWhole(o)
<1> DEFINE refused == Refused("operations", OpeningRequests(o))
           tooMany == \E a \in Range(o.accounts) : BeneficiaryText(o, a) > MaxText
           tooLong == Funded(o) # {} /\ FundingDetail(o) > MaxText
<1> SUFFICES ASSUME "confirmIntent" \notin refused
             PROVE  refused = (IF tooMany THEN {"recordBeneficiaries"} ELSE {})
                                \union (IF tooLong THEN {"recordFunding"} ELSE {})
  BY DEF TakenWhole
<1>1. refused = {q.action : q \in {r \in OpeningRequests(o) : ~Accepts("operations", r)}}
  BY DEF Refused
<1>2. /\ ConfirmOpening(o).action = "confirmIntent"
      /\ BeneficiariesRequest(o).action = "recordBeneficiaries"
  BY RequestsOf
<1>3. /\ {ConfirmOpening(o), BeneficiariesRequest(o)} \subseteq OpeningRequests(o)
      /\ OpeningRequests(o) \subseteq
           {ConfirmOpening(o), BeneficiariesRequest(o), CompletenessRequest(o),
            PaperworkRequest(o), DocusignConfigRequest(o), SendRequest(o), FundingRequest(o),
            MoneyLinkRequest}
  BY DEF OpeningRequests
<1>4. tooLong => FundingRequest(o) \in OpeningRequests(o)
  BY DEF OpeningRequests
<1> HIDE DEF refused, tooMany, tooLong
<1>5. Accepts("operations", ConfirmOpening(o))
  BY <1>1, <1>2, <1>3
<1>6. Taken(o)
  BY <1>5, ConfirmTaken DEF Taken
<1>7. /\ Accepts("operations", CompletenessRequest(o))
      /\ Accepts("operations", PaperworkRequest(o))
      /\ Accepts("operations", DocusignConfigRequest(o))
      /\ Accepts("operations", SendRequest(o))
      /\ Accepts("operations", MoneyLinkRequest)
  BY <1>6, CompletenessTaken, PaperworkTaken, ConfigTaken, SendTaken, MoneyLinkTaken
<1>8. Accepts("operations", BeneficiariesRequest(o)) <=> ~tooMany
  BY <1>6, BeneficiariesTaken DEF tooMany
<1>9. /\ FundingRequest(o).action = "recordFunding"
      /\ Accepts("operations", FundingRequest(o)) <=> ~tooLong
  BY <1>6, FundingTaken DEF tooLong
<1>10. \A r \in OpeningRequests(o) :
         ~Accepts("operations", r) <=> \/ (r = BeneficiariesRequest(o) /\ tooMany)
                                       \/ (r = FundingRequest(o) /\ tooLong)
  <2> TAKE r \in OpeningRequests(o)
  <2>1. \/ r \in {ConfirmOpening(o), CompletenessRequest(o), PaperworkRequest(o),
                 DocusignConfigRequest(o), SendRequest(o), MoneyLinkRequest}
        \/ r = BeneficiariesRequest(o) \/ r = FundingRequest(o)
    BY <1>3
  <2>2. r # BeneficiariesRequest(o) /\ r # FundingRequest(o) => Accepts("operations", r)
    BY <1>5, <1>7, <2>1
  <2>3. Accepts("operations", BeneficiariesRequest(o)) <=> ~tooMany
    BY <1>8
  <2>4. Accepts("operations", FundingRequest(o)) <=> ~tooLong
    BY <1>9
  <2>5. BeneficiariesRequest(o) # FundingRequest(o)
    BY <1>2, <1>9
  <2> QED BY <2>2, <2>3, <2>4, <2>5, Zenon
<1>11. \A action : action \in refused <=> \/ (action = "recordBeneficiaries" /\ tooMany)
                                         \/ (action = "recordFunding" /\ tooLong)
  <2>1. \A action : action \in refused <=>
          \E r \in OpeningRequests(o) : r.action = action /\ ~Accepts("operations", r)
    BY <1>1
  <2>2. /\ BeneficiariesRequest(o) \in OpeningRequests(o)
        /\ BeneficiariesRequest(o).action = "recordBeneficiaries"
        /\ FundingRequest(o).action = "recordFunding"
    BY <1>2, <1>3, <1>9
  <2> QED BY <1>4, <1>10, <2>1, <2>2, Zenon
<1> QED BY <1>11

-------------------------------------------------------------------------------
(* A scan finds what was recorded. *)

\* What each request of an opening leaves in a text.
LEMMA TextOf ==
  ASSUME NEW o, NEW r \in OpeningRequests(o)
  PROVE  \/ r = PaperworkRequest(o)
         \/ r.text \intersect {"form crs", "client relationship summary", "identity verified",
                              "gov id"} = {}
<1>1. \/ r.text = {} \/ r.text = FundingText({a.funding : a \in Range(o.accounts)})
      \/ r.text = MoneyLinkText \/ r.text = BeneficiariesText
      \/ r.text = CompletenessText(OpeningLabels(o.ach)) \/ r.text = DocusignConfigText
      \/ r.text = SendDocusignText \/ r = PaperworkRequest(o)
  <2>1. \/ r = ConfirmOpening(o) \/ r = FundingRequest(o) \/ r = MoneyLinkRequest
        \/ r = BeneficiariesRequest(o) \/ r = CompletenessRequest(o) \/ r = PaperworkRequest(o)
        \/ r = DocusignConfigRequest(o) \/ r = SendRequest(o)
    BY DEF OpeningRequests
  <2> QED BY <2>1, RequestsOf
<1>2. \A fundings : FundingText(fundings) \subseteq {"pte", "rollover"}
  BY DEF FundingText
<1>3. \A ach : CompletenessText(OpeningLabels(ach)) \subseteq {"completeness", "beneficiar", "ach"}
  BY DEF CompletenessText, OpeningLabels
<1>4. /\ MoneyLinkText \subseteq {"moneylink"} /\ BeneficiariesText \subseteq {"beneficiar", "adv"}
      /\ DocusignConfigText \subseteq {"docusign", "docu"}
      /\ SendDocusignText \subseteq {"docusign", "docu", "adv"}
  BY DEF MoneyLinkText, BeneficiariesText, DocusignConfigText, SendDocusignText
<1> QED BY <1>1, <1>2, <1>3, <1>4

\* The paperwork of an opening names the Form CRS and never an identity.
LEMMA PaperworkTextOf ==
  ASSUME NEW o, Opening(o)
  PROVE  /\ PaperworkRequest(o).action = "recordPaperwork"
         /\ "form crs" \in PaperworkRequest(o).text
         /\ PaperworkRequest(o).text \intersect {"identity verified", "gov id"} = {}
<1> DEFINE documents == UNION {DocsFor(a, o.ach) : a \in Range(o.accounts)}
<1>1. /\ PaperworkRequest(o).action = "recordPaperwork"
      /\ PaperworkRequest(o).text = PaperworkText(o.custodian, documents)
  BY RequestsOf
<1>2. "crs" \in documents
  <2>1. o.accounts[1] \in Range(o.accounts)
    BY AccountsOf DEF Range
  <2>2. "crs" \in DocsFor(o.accounts[1], o.ach)
    BY DEF DocsFor
  <2> QED BY <2>1, <2>2
<1>3. documents \subseteq {"application", "crs", "addendum", "beneficiary", "ach", "rollover",
                          "pte", "transfer", "loa"}
  BY DEF DocsFor
<1> HIDE DEF documents
<1>4. \A doc \in documents :
        DocumentText(o.custodian, doc) \intersect {"identity verified", "gov id"} = {}
  BY <1>3 DEF DocumentText
<1>5. "form crs" \in DocumentText(o.custodian, "crs")
  BY DEF DocumentText
<1> QED BY <1>1, <1>2, <1>4, <1>5 DEF PaperworkText

\* The checks that can fail for an individual account, without a firm's own settings.
FirmChecks == {"kyc-profile", "identity-verified", "suitability-profile", "form-crs",
               "signatures", "completeness-check"}

\* The built-in keywords of these checks.
LEMMA KeywordsOf ==
  LET map == EffectiveKeywords(<<>>)
  IN  /\ FirmChecks \subseteq DOMAIN map
      /\ map["kyc-profile"] = {"kyc", "suitability"}
      /\ map["identity-verified"] = {"identity verified", "gov id"}
      /\ map["suitability-profile"] = {"risk", "investment objective", "suitability"}
      /\ map["form-crs"] = {"form crs", "client relationship summary"}
      /\ map["signatures"] = {"docusign", "docu"}
      /\ map["completeness-check"] = {"completeness"}
<1> DEFINE map == EffectiveKeywords(<<>>)
<1>1. DOMAIN map = KeywordChecks /\ \A id \in KeywordChecks : map[id] = DefaultKeywords[id]
  <2>1. DOMAIN DefaultKeywords = KeywordChecks
    BY DEF DefaultKeywords
  <2> QED BY <2>1 DEF EffectiveKeywords, Over
<1>2. FirmChecks \subseteq KeywordChecks
  BY DEF FirmChecks, KeywordChecks
<1>3. /\ DefaultKeywords["kyc-profile"] = {"kyc", "suitability"}
      /\ DefaultKeywords["identity-verified"] = {"identity verified", "gov id"}
      /\ DefaultKeywords["suitability-profile"] = {"risk", "investment objective", "suitability"}
      /\ DefaultKeywords["form-crs"] = {"form crs", "client relationship summary"}
      /\ DefaultKeywords["signatures"] = {"docusign", "docu"}
      /\ DefaultKeywords["completeness-check"] = {"completeness"}
  BY <1>2 DEF DefaultKeywords, FirmChecks
<1> HIDE DEF map
<1>4. \A id \in FirmChecks : map[id] = DefaultKeywords[id]
  BY <1>1, <1>2
<1>5. /\ map["kyc-profile"] = DefaultKeywords["kyc-profile"]
      /\ map["identity-verified"] = DefaultKeywords["identity-verified"]
      /\ map["suitability-profile"] = DefaultKeywords["suitability-profile"]
      /\ map["form-crs"] = DefaultKeywords["form-crs"]
      /\ map["signatures"] = DefaultKeywords["signatures"]
      /\ map["completeness-check"] = DefaultKeywords["completeness-check"]
  BY <1>4 DEF FirmChecks
<1> QED BY <1>1, <1>2, <1>3, <1>5 DEF map

\* Each of them fails exactly when none of its keywords occurs.
LEMMA FailedChecks ==
  ASSUME NEW text, NEW type \in {"individual", "unknown"}
  PROVE  LET map == EffectiveKeywords(<<>>)
         IN  FailedBy(RunComplianceChecks([text |-> text, type |-> type,
                                           olderThanAYear |-> FALSE],
                                          [keywords |-> <<>>, customs |-> {}]))
               = {id \in FirmChecks : ~Has(map, id, text)}
<1> DEFINE map == EffectiveKeywords(<<>>)
           hh == [text |-> text, type |-> type, olderThanAYear |-> FALSE]
           firm == [keywords |-> <<>>, customs |-> {}]
           checks == RunComplianceChecks(hh, firm)
<1>1. checks = IdentityChecks(map, text) \union SuitabilityChecks(map, text)
                 \union DocumentChecks(map, text) \union AccountChecks(map, text)
                 \union RegulatoryChecks(map, text, FALSE)
                 \union AccountTypeChecks(map, text, type)
                 \union CustomChecks({}, text)
  BY DEF RunComplianceChecks
<1>2. AccountTypeChecks(map, text, type) = {} /\ CustomChecks({}, text) = {}
  BY DEF AccountTypeChecks, CustomChecks
<1> HIDE DEF map, checks
<1>3. /\ \A id, missing : Check(map, id, text, missing).id = id
      /\ \A id : Check(map, id, text, "warn").status # "fail"
      /\ \A id : Check(map, id, text, "fail").status = "fail" <=> ~Has(map, id, text)
  BY DEF Check
<1>4. ASSUME NEW id \in FirmChecks
      PROVE  Check(map, id, text, "fail") \in checks
  BY <1>1 DEF FirmChecks, IdentityChecks, SuitabilityChecks, DocumentChecks, AccountChecks,
       RegulatoryChecks
<1>5. ASSUME NEW c \in checks, c.status = "fail"
      PROVE  \E id \in FirmChecks : c = Check(map, id, text, "fail")
  BY <1>1, <1>2, <1>3, <1>5 DEF FirmChecks, IdentityChecks, SuitabilityChecks,
       DocumentChecks, AccountChecks, RegulatoryChecks
<1>6. FailedBy(checks) = {id \in FirmChecks : ~Has(map, id, text)}
  BY <1>3, <1>4, <1>5 DEF FailedBy
<1> QED BY <1>6 DEF map, checks

\* For any opening and any failures: what a scan finds missing follows what was recorded.
THEOREM ScansFollowRecords ==
  ASSUME NEW o, Opening(o), NEW failing
  PROVE  ScannedAsRecorded(o, failing)
<1> DEFINE text == OpeningText(o, "operations", failing)
           refused == Refused("operations", OpeningRequests(o))
           failed == FailedBy(RunComplianceChecks([text |-> text, type |-> "individual",
                                                   olderThanAYear |-> FALSE],
                                                  [keywords |-> <<>>, customs |-> {}]))
           sent == {q \in OpeningRequests(o) : q.action \notin refused \union failing}
<1> SUFFICES ASSUME text # {}
             PROVE  /\ "identity-verified" \in failed
                    /\ "form-crs" \in failed <=> "recordPaperwork" \in failing
                    /\ "workflow" \notin failing =>
                         failed \subseteq {"identity-verified", "form-crs"}
  BY DEF ScannedAsRecorded
<1>1. /\ "confirmIntent" \notin refused
      /\ text = (IF "workflow" \in failing THEN {} ELSE WorkflowText)
                   \union UNION {r.text : r \in sent}
  BY DEF OpeningText
<1>2. failed = {id \in FirmChecks : ~Has(EffectiveKeywords(<<>>), id, text)}
  BY FailedChecks
<1>3. refused \subseteq {"recordBeneficiaries", "recordFunding"}
  BY <1>1, OpeningsAreTaken DEF TakenWhole
<1>4. \A r \in sent : r \in OpeningRequests(o) /\ r.action \notin failing
  OBVIOUS
<1>5. "recordPaperwork" \notin failing => PaperworkRequest(o) \in sent
  BY <1>3, PaperworkTextOf DEF OpeningRequests
<1> HIDE DEF text, failed, refused, sent
<1>6. WorkflowText \intersect {"identity verified", "gov id", "form crs",
                              "client relationship summary"} = {}
  BY DEF WorkflowText
<1>7. "identity verified" \notin text /\ "gov id" \notin text
  BY <1>1, <1>4, <1>6, TextOf, PaperworkTextOf
<1>8. "recordPaperwork" \notin failing => "form crs" \in text
  BY <1>1, <1>5, PaperworkTextOf
<1>9. "recordPaperwork" \in failing =>
        "form crs" \notin text /\ "client relationship summary" \notin text
  BY <1>1, <1>4, <1>6, TextOf, PaperworkTextOf
<1>10. "workflow" \notin failing =>
         {"kyc", "risk", "docusign", "completeness"} \subseteq text
  BY <1>1 DEF WorkflowText
<1>11. \A id \in FirmChecks :
         Has(EffectiveKeywords(<<>>), id, text)
           <=> EffectiveKeywords(<<>>)[id] \intersect text # {}
  BY KeywordsOf DEF Has
<1>12. "identity-verified" \in failed
  <2>1. EffectiveKeywords(<<>>)["identity-verified"] \intersect text = {}
    BY <1>7, KeywordsOf
  <2> QED BY <1>2, <1>11, <2>1 DEF FirmChecks
<1>13. "form-crs" \in failed <=> "recordPaperwork" \in failing
  BY <1>2, <1>8, <1>9, <1>11, KeywordsOf DEF FirmChecks
<1>14. "workflow" \notin failing => failed \subseteq {"identity-verified", "form-crs"}
  BY <1>2, <1>10, <1>11, KeywordsOf DEF FirmChecks
<1> QED BY <1>12, <1>13, <1>14

-------------------------------------------------------------------------------
(* The openings of Figures. *)

\* The wizard's openings are such openings.
WizardInv == At("wizard") => Opening(input.opening)

\* Accounts of one kind, names of one length.
LEMMA WizardOpening ==
  ASSUME NEW Account, NEW accounts \in Seq(Account), accounts # <<>>,
         NEW benes \in Nat, NEW name \in 1..232, NEW source \in Nat, NEW ach
  PROVE  Opening(Wizard(accounts, benes, name, source, ach))
<1> DEFINE o == Wizard(accounts, benes, name, source, ach)
<1>3. o.accounts = accounts /\ o.benes = benes /\ o.name = name /\ o.source = source
  BY DEF Wizard
<1> HIDE DEF o
<1>4. Opening(o)
  BY <1>3 DEF Opening
<1> QED BY <1>4 DEF o

\* Every opening the runs take is such an opening.
LEMMA WizardInvariant == FiguresSpec => []WizardInv
<1>1. FiguresInit => WizardInv
  BY DEF FiguresInit, WizardInv, At
<1>2. WizardInv /\ [FiguresNext]_input => WizardInv'
  <2> SUFFICES ASSUME WizardInv, [FiguresNext]_input PROVE WizardInv'
    OBVIOUS
  <2>1. CASE RunWizard
    <3>1. PICK a \in RunAccounts, n \in {1, 20, 21}, benes \in {0, 13, 14},
               name \in {12, 200}, source \in {0, 478, 479}, ach \in BOOLEAN,
               failing \in SUBSET Recorded :
            /\ n > 1 => failing = {}
            /\ input' = [kind |-> "wizard", failing |-> failing,
                         opening |-> Wizard([i \in 1..n |-> a], benes, name, source, ach)]
      BY <2>1, Zenon DEF RunWizard
    <3> DEFINE accounts == [i \in 1..n |-> a]
               o == Wizard(accounts, benes, name, source, ach)
    <3>2. n \in Nat \ {0} /\ benes \in Nat /\ name \in 1..232 /\ source \in Nat
      OBVIOUS
    <3>3. accounts \in Seq({a})
      BY <3>2
    <3>4. accounts # <<>>
      <4>1. DOMAIN accounts = 1..n /\ 1 \in 1..n
        BY <3>2
      <4>2. DOMAIN <<>> = {}
        OBVIOUS
      <4> HIDE DEF accounts
      <4> QED BY <4>1, <4>2
    <3>5. input' = [kind |-> "wizard", failing |-> failing, opening |-> o]
      BY <3>1
    <3> HIDE DEF accounts
    <3>6. Opening(o)
      BY <3>2, <3>3, <3>4, WizardOpening
    <3> HIDE DEF o
    <3>7. input'.opening = o
      BY <3>5
    <3> QED BY <3>6, <3>7 DEF WizardInv
  <2>2. CASE UNCHANGED input
    BY <2>2 DEF WizardInv, At
  <2> QED BY <2>1, <2>2, KindOf DEF FiguresNext, WizardInv, At
<1> QED BY <1>1, <1>2, PTL DEF FiguresSpec

\* A run of the wizard that makes its household has all its requests taken, the
\* beneficiaries' and the funding's aside.
THEOREM RunIsTakenHolds == FiguresSpec => []RunIsTaken
<1>1. WizardInv => RunIsTaken
  BY OpeningsAreTaken DEF WizardInv, RunIsTaken
<1> QED BY <1>1, WizardInvariant, PTL

\* What a scan finds missing follows what was recorded of a run.
THEOREM ScanFollowsRecordsHolds == FiguresSpec => []ScanFollowsRecords
<1>1. WizardInv => ScanFollowsRecords
  BY ScansFollowRecords DEF WizardInv, ScanFollowsRecords
<1> QED BY <1>1, WizardInvariant, PTL

-------------------------------------------------------------------------------
(* The report of a scan of all households. *)

\* The checks of a household are finitely many, if the firm's own are.
LEMMA FewChecks ==
  ASSUME NEW hh, NEW firm, IsFiniteSet(firm.customs)
  PROVE  IsFiniteSet(RunComplianceChecks(hh, firm))
<1> DEFINE map == EffectiveKeywords(firm.keywords)
<1>1. /\ IsFiniteSet({}) /\ \A x : IsFiniteSet({x})
      /\ \A S, T : IsFiniteSet(S) /\ IsFiniteSet(T) => IsFiniteSet(S \union T)
  <2>1. ASSUME NEW S, NEW T, IsFiniteSet(S), IsFiniteSet(T) PROVE IsFiniteSet(S \union T)
    BY <2>1, FS_Union
  <2> QED BY <2>1, FS_EmptySet, FS_Singleton
<1>2. \A x, y, z : IsFiniteSet({x, y}) /\ IsFiniteSet({x, y, z})
  <2> SUFFICES ASSUME NEW x, NEW y, NEW z PROVE IsFiniteSet({x, y}) /\ IsFiniteSet({x, y, z})
    OBVIOUS
  <2>1. IsFiniteSet({x} \union {y})
    BY <1>1
  <2>2. {x, y} = {x} \union {y} /\ {x, y, z} = ({x} \union {y}) \union {z}
    OBVIOUS
  <2>3. IsFiniteSet(({x} \union {y}) \union {z})
    BY <1>1, <2>1
  <2> QED BY <2>1, <2>2, <2>3
<1> HIDE DEF map
<1>3. /\ IsFiniteSet(IdentityChecks(map, hh.text)) /\ IsFiniteSet(DocumentChecks(map, hh.text))
  BY <1>2 DEF IdentityChecks, DocumentChecks
<1>4. /\ IsFiniteSet(SuitabilityChecks(map, hh.text)) /\ IsFiniteSet(AccountChecks(map, hh.text))
      /\ IsFiniteSet(RegulatoryChecks(map, hh.text, hh.olderThanAYear))
  BY <1>1, <1>2 DEF SuitabilityChecks, AccountChecks, RegulatoryChecks
<1>5. IsFiniteSet(AccountTypeChecks(map, hh.text, hh.type))
  BY <1>1, <1>2 DEF AccountTypeChecks
<1>6. IsFiniteSet(CustomChecks(firm.customs, hh.text))
  <2> DEFINE C(c) == [id |-> c.id, status |-> IF c.keyword \in hh.text THEN "pass" ELSE c.missing]
             T == {C(c) : c \in firm.customs}
             f == [c \in firm.customs |-> C(c)]
  <2>1. f \in Surjection(firm.customs, T)
    <3> HIDE DEF C
    <3>1. f \in [firm.customs -> T] /\ \A t \in T : \E c \in firm.customs : f[c] = t
      OBVIOUS
    <3> HIDE DEF f, T
    <3> QED BY <3>1, Fun_IsSurj
  <2>2. IsFiniteSet(T)
    BY <2>1, FS_Surjection
  <2> QED BY <2>2 DEF CustomChecks
<1> QED BY <1>1, <1>3, <1>4, <1>5, <1>6 DEF RunComplianceChecks, map

\* What a scan says of a household: its counts are numbers, and with no failure none
\* of the checks that do not ask for the type fails.
LEMMA ResultOf ==
  ASSUME NEW hh, NEW firm, IsFiniteSet(firm.customs)
  PROVE  /\ BatchResult(hh, firm).household = hh.id
         /\ BatchResult(hh, firm).fail \in Nat /\ BatchResult(hh, firm).warn \in Nat
         /\ BatchResult(hh, firm).fail = 0 =>
              FailedBy(RunComplianceChecks([text |-> hh.text, type |-> "unknown",
                                            olderThanAYear |-> hh.olderThanAYear], firm)) = {}
<1> DEFINE Of(type) == [text |-> hh.text, olderThanAYear |-> hh.olderThanAYear, type |-> type]
           checks == RunComplianceChecks(Of(DetectAccountType(hh.words)), firm)
           Failing == {c \in checks : c.status = "fail"}
           Warning == {c \in checks : c.status = "warn"}
<1>1. IsFiniteSet(checks)
  BY FewChecks
<1>2. IsFiniteSet(Failing) /\ IsFiniteSet(Warning)
  <2> HIDE DEF checks
  <2> QED BY <1>1, FS_Subset
<1>3. /\ BatchResult(hh, firm).household = hh.id
      /\ BatchResult(hh, firm).fail = Cardinality(Failing)
      /\ BatchResult(hh, firm).warn = Cardinality(Warning)
  BY DEF BatchResult, WithStatus
<1>4. RunComplianceChecks(Of("unknown"), firm) \subseteq checks
  <2>1. AccountTypeChecks(EffectiveKeywords(firm.keywords), hh.text, "unknown") = {}
    BY DEF AccountTypeChecks
  <2> QED BY <2>1 DEF RunComplianceChecks
<1>5. Cardinality(Failing) = 0 => Failing = {}
  <2> HIDE DEF Failing
  <2> QED BY <1>2, FS_EmptySet
<1>6. Cardinality(Failing) = 0 => FailedBy(RunComplianceChecks(Of("unknown"), firm)) = {}
  <2> HIDE DEF checks
  <2> QED BY <1>4, <1>5 DEF FailedBy
<1>7. Cardinality(Failing) \in Nat /\ Cardinality(Warning) \in Nat
  <2> HIDE DEF Failing, Warning
  <2> QED BY <1>2, FS_CardinalityType
<1>8. Of("unknown") = [text |-> hh.text, type |-> "unknown", olderThanAYear |-> hh.olderThanAYear]
  OBVIOUS
<1> HIDE DEF Failing, Warning, checks, Of
<1> QED BY <1>3, <1>6, <1>7, <1>8

\* The results are in an order: by failures, then warnings, then where they were.
LEMMA ResultsInOrder ==
  ASSUME NEW R, NEW results \in Seq(R), \A r \in R : r.fail \in Nat /\ r.warn \in Nat
  PROVE  /\ Orders(Places(results, NeedsMore), DOMAIN results)
         /\ \A p \in Places(results, NeedsMore) : ~NeedsMore(results[p[2]], results[p[1]])
<1> DEFINE D == DOMAIN results
           f == [i \in D |-> results[i].fail]
           w == [i \in D |-> results[i].warn]
           Before(i, j) == \/ f[i] > f[j] \/ (f[i] = f[j] /\ w[i] > w[j])
                           \/ (f[i] = f[j] /\ w[i] = w[j] /\ i < j)
<1>1. f \in [D -> Nat] /\ w \in [D -> Nat] /\ D \subseteq Nat
  OBVIOUS
<1>2. \A i, j \in D : NeedsMore(results[i], results[j])
                        <=> f[i] > f[j] \/ (f[i] = f[j] /\ w[i] > w[j])
  BY DEF NeedsMore
<1>3. \A i, j \in D : <<i, j>> \in Places(results, NeedsMore) <=>
                        \/ NeedsMore(results[i], results[j])
                        \/ ~NeedsMore(results[j], results[i]) /\ i < j
  BY DEF Places
<1>4. Places(results, NeedsMore) \subseteq D \X D
  BY DEF Places
<1> HIDE DEF f, w, D
<1>5. \A i, j \in D : <<i, j>> \in Places(results, NeedsMore) <=> Before(i, j)
  <2> TAKE i, j \in D
  <2>1. f[i] \in Nat /\ f[j] \in Nat /\ w[i] \in Nat /\ w[j] \in Nat
    BY <1>1
  <2>2. /\ NeedsMore(results[i], results[j])
             <=> f[i] > f[j] \/ (f[i] = f[j] /\ w[i] > w[j])
        /\ NeedsMore(results[j], results[i])
             <=> f[j] > f[i] \/ (f[j] = f[i] /\ w[j] > w[i])
    BY <1>2
  <2>3. <<i, j>> \in Places(results, NeedsMore) <=>
          \/ f[i] > f[j] \/ (f[i] = f[j] /\ w[i] > w[j])
          \/ ~(f[j] > f[i] \/ (f[j] = f[i] /\ w[j] > w[i])) /\ i < j
    BY <1>3, <2>2
  <2> QED BY <2>1, <2>3
<1>6. /\ \A i \in D : ~Before(i, i)
      /\ \A i, j \in D : i = j \/ Before(i, j) \/ Before(j, i)
  BY <1>1
<1>7. \A i, j, k \in D : Before(i, j) /\ Before(j, k) => Before(i, k)
  BY <1>1
<1>8. \A i, j \in D : Before(i, j) => ~NeedsMore(results[j], results[i])
  BY <1>1, <1>2
<1> HIDE DEF Before
<1>9. Orders(Places(results, NeedsMore), D)
  BY <1>5, <1>6, <1>7 DEF Orders
<1>10. \A p \in Places(results, NeedsMore) : ~NeedsMore(results[p[2]], results[p[1]])
  <2> TAKE p \in Places(results, NeedsMore)
  <2>1. p \in D \X D
    BY <1>4
  <2>2. p[1] \in D /\ p[2] \in D /\ p = <<p[1], p[2]>>
    BY <2>1
  <2>3. Before(p[1], p[2])
    BY <1>5, <2>2
  <2> QED BY <1>8, <2>2, <2>3
<1> QED BY <1>9, <1>10 DEF D

\* A report accounts for the households of the book.
Accounts(page, households, firm) ==
  LET r == page.results
  IN  /\ page.cancelled \/ Len(r) + page.skipped = Len(households)
      /\ \A i, j \in DOMAIN r : i < j => ~NeedsMore(r[j], r[i])
      /\ \A hh \in Range(households) :
           hh.id \in {c.household : c \in Range(Clean(page))} =>
             FailedBy(RunComplianceChecks([text |-> hh.text, type |-> "unknown",
                                           olderThanAYear |-> hh.olderThanAYear], firm)) = {}

\* What is scanned before Cancel is noticed is the beginning of the book.
LEMMA ScannedOf ==
  ASSUME NEW X, NEW households \in Seq(X), NEW stop \in Nat
  PROVE  LET m == Cardinality(Scanned(households, stop))
             scanned == SubSeq(households, 1, m)
         IN  /\ m \in Nat /\ m <= Len(households)
             /\ scanned \in Seq(X) /\ Len(scanned) = m
             /\ Range(scanned) \subseteq Range(households)
<1> DEFINE n == Len(households)
           S == Scanned(households, stop)
           m == Cardinality(S)
           scanned == SubSeq(households, 1, m)
<1>1. n \in Nat /\ DOMAIN households = 1..n /\ stop * CHUNK_SIZE \in Nat
  BY DEF CHUNK_SIZE
<1>2. m \in Nat /\ m <= n
  <2>1. S \in SUBSET (1..n)
    BY <1>1 DEF Scanned
  <2>2. IsFiniteSet(1..n) /\ Cardinality(1..n) = n
    BY <1>1, UpTo
  <2>3. IsFiniteSet(S) /\ m <= n
    BY <2>1, <2>2, FS_Subset
  <2> HIDE DEF S
  <2> QED BY <2>3, FS_CardinalityType
<1> HIDE DEF m, S
<1>3. scanned = [i \in 1..m |-> households[i]]
  BY <1>1, <1>2
<1> HIDE DEF scanned
<1>4. \A i \in 1..m : households[i] \in X /\ i \in DOMAIN households
  BY <1>1, <1>2
<1>5. scanned \in Seq(X) /\ Len(scanned) = m
  BY <1>2, <1>3, <1>4
<1>6. Range(scanned) \subseteq Range(households)
  BY <1>3, <1>4 DEF Range
<1> QED BY <1>2, <1>5, <1>6 DEF m, S, scanned

\* For any book with a number for each household, any households refused, any
\* moment of Cancel and any firm: the report of a scan accounts for the book.
THEOREM ReportsAccount ==
  ASSUME NEW X, NEW households \in Seq(X), NEW listed, NEW refused, NEW stop \in Nat, NEW kept,
         NEW firm, IsFiniteSet(firm.customs),
         \A h, k \in Range(households) : h.id = k.id => h = k,
         Shows(RunBatchScan(Page(kept), households, listed, refused, stop, firm)) = "report"
  PROVE  Accounts(RunBatchScan(Page(kept), households, listed, refused, stop, firm),
                  households, firm)
<1> DEFINE page == RunBatchScan(Page(kept), households, listed, refused, stop, firm)
           m == Cardinality(Scanned(households, stop))
           scanned == SubSeq(households, 1, m)
           places == {i \in DOMAIN scanned : scanned[i].id \notin refused}
           done == Arranged(scanned, places, Ascending(places))
           R == {BatchResult(hh, firm) : hh \in Range(done)}
           found == [i \in DOMAIN done |-> BatchResult(done[i], firm)]
           r == Arranged(found, DOMAIN found, Places(found, NeedsMore))
<1>1. listed
  BY DEF RunBatchScan, Shows, Page
<1>2. /\ page.cancelled = (Len(scanned) < Len(households))
      /\ page.results = r /\ page.skipped = Len(scanned) - Len(done)
  BY <1>1, Zenon DEF RunBatchScan, Page, Filter, Sorted
<1>3. /\ m \in Nat /\ m <= Len(households) /\ scanned \in Seq(X) /\ Len(scanned) = m
      /\ Range(scanned) \subseteq Range(households)
  BY ScannedOf
<1> HIDE DEF page, m, scanned
<1>4. /\ done \in Seq(X) /\ Len(done) <= m
      /\ Range(done) = {scanned[i] : i \in places}
  BY <1>3, FilterOf
<1>5. Range(done) \subseteq Range(households)
  BY <1>3, <1>4 DEF Range
<1> HIDE DEF places, done
<1>6. found \in Seq(R) /\ Len(found) = Len(done) /\ DOMAIN found = 1..Len(done)
  <2>1. Len(done) \in Nat /\ DOMAIN done = 1..Len(done)
    BY <1>4
  <2>2. \A i \in 1..Len(done) : BatchResult(done[i], firm) \in R
    BY <2>1 DEF Range
  <2> HIDE DEF R
  <2> QED BY <2>1, <2>2
<1>7. \A c \in R : c.fail \in Nat /\ c.warn \in Nat
  BY ResultOf
<1>8. \A i \in DOMAIN found : \E hh \in Range(done) : found[i] = BatchResult(hh, firm)
  BY DEF Range
<1> HIDE DEF found, R
<1>9. /\ Orders(Places(found, NeedsMore), DOMAIN found)
      /\ \A p \in Places(found, NeedsMore) : ~NeedsMore(found[p[2]], found[p[1]])
  BY <1>6, <1>7, ResultsInOrder
<1>10. Len(done) \in Nat
  BY <1>4
<1>11. /\ r \in Seq(R) /\ Len(r) = Len(found) /\ DOMAIN r = DOMAIN found
       /\ \A k \in DOMAIN r : \E i \in DOMAIN found : r[k] = found[i]
       /\ \A k, l \in DOMAIN r : k < l =>
            \E i, j \in DOMAIN found :
              r[k] = found[i] /\ r[l] = found[j] /\ <<i, j>> \in Places(found, NeedsMore)
  <2>1. found \in Seq(R)
    BY <1>6
  <2> QED BY <1>9, <2>1, SortedOf
<1> HIDE DEF r
<1>14. page.cancelled \/ Len(page.results) + page.skipped = Len(households)
  <2>1. m = Len(households) \/ m < Len(households)
    BY <1>3
  <2>2. m < Len(households) => page.cancelled
    BY <1>2, <1>3
  <2>3. Len(page.results) + page.skipped = Len(done) + (m - Len(done))
    BY <1>2, <1>3, <1>6, <1>11
  <2>4. Len(done) + (m - Len(done)) = m
    BY <1>3, <1>10
  <2> QED BY <2>1, <2>2, <2>3, <2>4
<1>15. \A i, j \in DOMAIN r : i < j => ~NeedsMore(r[j], r[i])
  <2> TAKE i, j \in DOMAIN r
  <2> HAVE i < j
  <2>1. PICK k, l \in DOMAIN found :
          r[i] = found[k] /\ r[j] = found[l] /\ <<k, l>> \in Places(found, NeedsMore)
    BY <1>11
  <2>2. ~NeedsMore(found[<<k, l>>[2]], found[<<k, l>>[1]])
    BY <1>9, <2>1
  <2> QED BY <2>1, <2>2
<1>16. ASSUME NEW hh \in Range(households), NEW c \in Range(Clean(page)), c.household = hh.id
       PROVE  FailedBy(RunComplianceChecks([text |-> hh.text, type |-> "unknown",
                                            olderThanAYear |-> hh.olderThanAYear], firm)) = {}
  <2> DEFINE clean == {i \in DOMAIN r : r[i].fail = 0}
  <2>1. Clean(page) = Arranged(r, clean, Ascending(clean))
    BY <1>2 DEF Clean, Filter
  <2>2. Range(Clean(page)) = {r[i] : i \in clean}
    <3>1. clean \in SUBSET DOMAIN r /\ r \in Seq(R)
      BY <1>11
    <3> HIDE DEF clean
    <3> QED BY <2>1, <3>1, FilterOf
  <2>3. PICK i \in DOMAIN r : c = r[i] /\ c.fail = 0
    BY <1>16, <2>2
  <2>4. PICK j \in DOMAIN found : c = found[j]
    BY <1>11, <2>3
  <2>5. PICK k \in Range(done) : c = BatchResult(k, firm)
    BY <1>8, <2>4
  <2>6. /\ k.id = hh.id
        /\ FailedBy(RunComplianceChecks([text |-> k.text, type |-> "unknown",
                                         olderThanAYear |-> k.olderThanAYear], firm)) = {}
    BY <1>16, <2>3, <2>5, ResultOf
  <2>7. k = hh
    BY <1>5, <2>6
  <2> QED BY <2>6, <2>7
<1> QED BY <1>2, <1>14, <1>15, <1>16 DEF page, Accounts

\* The books of the runs have a number for each household.
LEMMA BookOf ==
  ASSUME NEW shape
  PROVE  LET households == [i \in 1..4 |-> Household(<<"h1", "h2", "h3", "h4">>[i], shape[i])]
         IN  /\ households \in Seq(Range(households))
             /\ \A h, k \in Range(households) : h.id = k.id => h = k
<1> DEFINE ids == <<"h1", "h2", "h3", "h4">>
           households == [i \in 1..4 |-> Household(ids[i], shape[i])]
<1>1. \A i, j \in 1..4 : ids[i] = ids[j] => i = j
  OBVIOUS
<1>2. \A i \in 1..4 : households[i].id = ids[i]
  BY DEF Household
<1> HIDE DEF ids
<1>3. \A i \in 1..4 : households[i] \in Range(households)
  BY DEF Range
<1>4. \A h \in Range(households) : \E i \in 1..4 : h = households[i]
  BY DEF Range
<1>5. DOMAIN households = 1..4
  OBVIOUS
<1>6. households \in Seq(Range(households))
  <2> DEFINE R == Range(households)
  <2>1. \A i \in 1..4 : Household(ids[i], shape[i]) \in R
    BY <1>3
  <2> HIDE DEF R
  <2>2. households \in Seq(R)
    BY <2>1
  <2> QED BY <2>2 DEF R
<1> HIDE DEF households
<1>7. \A h, k \in Range(households) : h.id = k.id => h = k
  BY <1>1, <1>2, <1>4
<1> QED BY <1>6, <1>7 DEF households, ids

\* A report that is shown accounts for the book, and has the worst first.
THEOREM ReportAccountsHolds == FiguresSpec => []ReportAccounts
<1>1. FiguresInit => ReportAccounts
  BY DEF FiguresInit, ReportAccounts, At
<1>2. ReportAccounts /\ [FiguresNext]_input => ReportAccounts'
  <2> SUFFICES ASSUME ReportAccounts, [FiguresNext]_input PROVE ReportAccounts'
    OBVIOUS
  <2>1. CASE ScanBook
    <3>1. PICK shape \in [1..4 -> HouseholdShapes], listed \in BOOLEAN, viewed \in BOOLEAN,
               refused \in SUBSET {"h1", "h2", "h4"}, stop \in {0, 1, Never} :
            LET households == [i \in 1..4 |-> Household(<<"h1", "h2", "h3", "h4">>[i], shape[i])]
            IN  input' = [kind |-> "batch", households |-> households,
                          page |-> LET scan == RunBatchScan(Page(FALSE), households, listed,
                                                            refused, stop, NoFirm)
                                   IN  IF viewed THEN LoadCachedResults(Page(TRUE), scan)
                                       ELSE scan]
      BY <2>1, Zenon DEF ScanBook
    <3> DEFINE households == [i \in 1..4 |-> Household(<<"h1", "h2", "h3", "h4">>[i], shape[i])]
               scan == RunBatchScan(Page(FALSE), households, listed, refused, stop, NoFirm)
    <3>2. /\ households \in Seq(Range(households))
          /\ \A h, k \in Range(households) : h.id = k.id => h = k
      BY BookOf
    <3> HIDE DEF households
    <3>3. stop \in Nat /\ IsFiniteSet(NoFirm.customs)
      BY FS_EmptySet DEF Never, NoFirm
    <3>4. Shows(scan) = "report" => Accounts(scan, households, NoFirm)
      BY <3>2, <3>3, ReportsAccount
    <3>5. Shows(LoadCachedResults(Page(TRUE), scan)) = "offer"
      <4> HIDE DEF scan
      <4> QED BY DEF Shows, LoadCachedResults, Page
    <3>6. /\ input'.households = households
          /\ input'.page = IF viewed THEN LoadCachedResults(Page(TRUE), scan) ELSE scan
      BY <3>1 DEF households
    <3> HIDE DEF scan
    <3>7. Shows(input'.page) = "report" => Accounts(input'.page, input'.households, NoFirm)
      BY <3>4, <3>5, <3>6
    <3> QED BY <3>7 DEF ReportAccounts, Accounts, At
  <2>2. CASE UNCHANGED input
    BY <2>2 DEF ReportAccounts, At
  <2> QED BY <2>1, <2>2, KindOf DEF FiguresNext, ReportAccounts, At
<1> QED BY <1>1, <1>2, PTL DEF FiguresSpec

\* A review leaves nothing out: no household of the book, no failure without a plan.
THEOREM ReviewsAccountHolds == FiguresSpec => []ReviewsAccount
<1>1. ReportAccounts /\ FailuresHavePlans => ReviewsAccount
  BY DEF ReviewsAccount
<1> QED BY <1>1, ReportAccountsHolds, FailuresHavePlansHolds, PTL

-------------------------------------------------------------------------------
(* The paperwork of an account. *)

\* The documents of an account are of nine kinds; two have a custodian's own name.
Kinds == {"application", "crs", "addendum", "beneficiary", "ach", "rollover", "pte", "transfer",
          "loa"}
Unmatched == {<<"fidelity", "ach">>, <<"pershing", "transfer">>}

\* The words of a generator, and its form.
LEMMA GeneratorOf ==
  ASSUME NEW i, NEW words, NEW form, Generators[i] = [words |-> words, form |-> form]
  PROVE  Generators[i].words = words /\ Generators[i].form = form
  OBVIOUS

LEMMA GeneratorsOf ==
  /\ DOMAIN Generators = 1..9
  /\ Generators[1].words = {"account application"} /\ Generators[1].form = "application"
  /\ Generators[2].words = {"form crs"} /\ Generators[2].form = "crs"
  /\ Generators[3].words = {"beneficiary"} /\ Generators[3].form = "beneficiary"
  /\ Generators[4].words = {"rollover recommendation"} /\ Generators[4].form = "rollover"
  /\ Generators[5].words = {"transfer of assets", "toa form"} /\ Generators[5].form = "transfer"
  /\ Generators[6].words = {"ach", "moneylink"} /\ Generators[6].form = "ach"
  /\ Generators[7].words = {"letter of authorization", "loa"} /\ Generators[7].form = "loa"
  /\ Generators[8].words = {"pte", "prohibited transaction"} /\ Generators[8].form = "pte"
  /\ Generators[9].words = {"advisory", "addendum"} /\ Generators[9].form = "addendum"
<1>0. DOMAIN Generators = 1..9
  BY DEF Generators
<1>1. Generators[1].words = {"account application"} /\ Generators[1].form = "application"
  <2> DEFINE words == {"account application"}
             form == "application"
  <2>1. Generators[1] = [words |-> words, form |-> form]
    BY DEF Generators
  <2> HIDE DEF words, form
  <2>2. Generators[1].words = words /\ Generators[1].form = form
    BY <2>1, GeneratorOf
  <2> QED BY <2>2 DEF words, form
<1>2. Generators[2].words = {"form crs"} /\ Generators[2].form = "crs"
  <2> DEFINE words == {"form crs"}
             form == "crs"
  <2>1. Generators[2] = [words |-> words, form |-> form]
    BY DEF Generators
  <2> HIDE DEF words, form
  <2>2. Generators[2].words = words /\ Generators[2].form = form
    BY <2>1, GeneratorOf
  <2> QED BY <2>2 DEF words, form
<1>3. Generators[3].words = {"beneficiary"} /\ Generators[3].form = "beneficiary"
  <2> DEFINE words == {"beneficiary"}
             form == "beneficiary"
  <2>1. Generators[3] = [words |-> words, form |-> form]
    BY DEF Generators
  <2> HIDE DEF words, form
  <2>2. Generators[3].words = words /\ Generators[3].form = form
    BY <2>1, GeneratorOf
  <2> QED BY <2>2 DEF words, form
<1>4. Generators[4].words = {"rollover recommendation"} /\ Generators[4].form = "rollover"
  <2> DEFINE words == {"rollover recommendation"}
             form == "rollover"
  <2>1. Generators[4] = [words |-> words, form |-> form]
    BY DEF Generators
  <2> HIDE DEF words, form
  <2>2. Generators[4].words = words /\ Generators[4].form = form
    BY <2>1, GeneratorOf
  <2> QED BY <2>2 DEF words, form
<1>5. Generators[5].words = {"transfer of assets", "toa form"} /\ Generators[5].form = "transfer"
  <2> DEFINE words == {"transfer of assets", "toa form"}
             form == "transfer"
  <2>1. Generators[5] = [words |-> words, form |-> form]
    BY DEF Generators
  <2> HIDE DEF words, form
  <2>2. Generators[5].words = words /\ Generators[5].form = form
    BY <2>1, GeneratorOf
  <2> QED BY <2>2 DEF words, form
<1>6. Generators[6].words = {"ach", "moneylink"} /\ Generators[6].form = "ach"
  <2> DEFINE words == {"ach", "moneylink"}
             form == "ach"
  <2>1. Generators[6] = [words |-> words, form |-> form]
    BY DEF Generators
  <2> HIDE DEF words, form
  <2>2. Generators[6].words = words /\ Generators[6].form = form
    BY <2>1, GeneratorOf
  <2> QED BY <2>2 DEF words, form
<1>7. Generators[7].words = {"letter of authorization", "loa"} /\ Generators[7].form = "loa"
  <2> DEFINE words == {"letter of authorization", "loa"}
             form == "loa"
  <2>1. Generators[7] = [words |-> words, form |-> form]
    BY DEF Generators
  <2> HIDE DEF words, form
  <2>2. Generators[7].words = words /\ Generators[7].form = form
    BY <2>1, GeneratorOf
  <2> QED BY <2>2 DEF words, form
<1>8. Generators[8].words = {"pte", "prohibited transaction"} /\ Generators[8].form = "pte"
  <2> DEFINE words == {"pte", "prohibited transaction"}
             form == "pte"
  <2>1. Generators[8] = [words |-> words, form |-> form]
    BY DEF Generators
  <2> HIDE DEF words, form
  <2>2. Generators[8].words = words /\ Generators[8].form = form
    BY <2>1, GeneratorOf
  <2> QED BY <2>2 DEF words, form
<1>9. Generators[9].words = {"advisory", "addendum"} /\ Generators[9].form = "addendum"
  <2> DEFINE words == {"advisory", "addendum"}
             form == "addendum"
  <2>1. Generators[9] = [words |-> words, form |-> form]
    BY DEF Generators
  <2> HIDE DEF words, form
  <2>2. Generators[9].words = words /\ Generators[9].form = form
    BY <2>1, GeneratorOf
  <2> QED BY <2>2 DEF words, form
<1> QED BY <1>0, <1>1, <1>2, <1>3, <1>4, <1>5, <1>6, <1>7, <1>8, <1>9

\* The generators a document's words match are those of its own form.
LEMMA MatchesOwn ==
  ASSUME NEW c \in Custodians, NEW doc \in Kinds, NEW i \in 1..9,
         Generators[i].words \intersect Words(c, doc) # {}
  PROVE  Generators[i].form = doc
<1>1. i \in {1, 2, 3, 4, 5, 6, 7, 8, 9}
  OBVIOUS
<1>2. CASE i = 1
  <2>1. {"account application"} \intersect Words(c, doc) # {} => doc = "application"
    BY DEF Words, Kinds
  <2>2. Generators[i].words = {"account application"} /\ Generators[i].form = "application"
    BY <1>2, GeneratorsOf
  <2> QED BY <2>1, <2>2
<1>3. CASE i = 2
  <2>1. {"form crs"} \intersect Words(c, doc) # {} => doc = "crs"
    BY DEF Words, Kinds
  <2>2. Generators[i].words = {"form crs"} /\ Generators[i].form = "crs"
    BY <1>3, GeneratorsOf
  <2> QED BY <2>1, <2>2
<1>4. CASE i = 3
  <2>1. {"beneficiary"} \intersect Words(c, doc) # {} => doc = "beneficiary"
    BY DEF Words, Kinds
  <2>2. Generators[i].words = {"beneficiary"} /\ Generators[i].form = "beneficiary"
    BY <1>4, GeneratorsOf
  <2> QED BY <2>1, <2>2
<1>5. CASE i = 4
  <2>1. {"rollover recommendation"} \intersect Words(c, doc) # {} => doc = "rollover"
    BY DEF Words, Kinds
  <2>2. Generators[i].words = {"rollover recommendation"} /\ Generators[i].form = "rollover"
    BY <1>5, GeneratorsOf
  <2> QED BY <2>1, <2>2
<1>6. CASE i = 5
  <2>1. {"transfer of assets", "toa form"} \intersect Words(c, doc) # {} => doc = "transfer"
    BY DEF Words, Kinds
  <2>2. Generators[i].words = {"transfer of assets", "toa form"} /\ Generators[i].form = "transfer"
    BY <1>6, GeneratorsOf
  <2> QED BY <2>1, <2>2
<1>7. CASE i = 6
  <2>1. {"ach", "moneylink"} \intersect Words(c, doc) # {} => doc = "ach"
    BY DEF Words, Kinds
  <2>2. Generators[i].words = {"ach", "moneylink"} /\ Generators[i].form = "ach"
    BY <1>7, GeneratorsOf
  <2> QED BY <2>1, <2>2
<1>8. CASE i = 7
  <2>1. {"letter of authorization", "loa"} \intersect Words(c, doc) # {} => doc = "loa"
    BY DEF Words, Kinds
  <2>2. Generators[i].words = {"letter of authorization", "loa"} /\ Generators[i].form = "loa"
    BY <1>8, GeneratorsOf
  <2> QED BY <2>1, <2>2
<1>9. CASE i = 8
  <2>1. {"pte", "prohibited transaction"} \intersect Words(c, doc) # {} => doc = "pte"
    BY DEF Words, Kinds
  <2>2. Generators[i].words = {"pte", "prohibited transaction"} /\ Generators[i].form = "pte"
    BY <1>9, GeneratorsOf
  <2> QED BY <2>1, <2>2
<1>10. CASE i = 9
  <2>1. {"advisory", "addendum"} \intersect Words(c, doc) # {} => doc = "addendum"
    BY DEF Words, Kinds
  <2>2. Generators[i].words = {"advisory", "addendum"} /\ Generators[i].form = "addendum"
    BY <1>10, GeneratorsOf
  <2> QED BY <2>1, <2>2
<1> QED BY <1>1, <1>2, <1>3, <1>4, <1>5, <1>6, <1>7, <1>8, <1>9, <1>10

\* A document has a generator, but for the two forms with the custodian's own names.
LEMMA MatchesOne ==
  ASSUME NEW c \in Custodians, NEW doc \in Kinds, <<c, doc>> \notin Unmatched
  PROVE  \E i \in 1..9 : Generators[i].words \intersect Words(c, doc) # {}
<1> DEFINE Hit(i) == Generators[i].words \intersect Words(c, doc) # {}
<1>1. /\ doc = "ach" => c # "fidelity"
      /\ doc = "transfer" => c # "pershing"
  BY DEF Unmatched
<1>2. \A i : \A word \in Words(c, doc) : word \in Generators[i].words => Hit(i)
  OBVIOUS
<1>3. doc = "application" => Hit(1)
  <2> DEFINE word == "account application"
  <2>1. word \in Generators[1].words
    BY GeneratorsOf
  <2>2. doc = "application" => word \in Words(c, doc)
    BY <1>1 DEF Words
  <2> HIDE DEF word, Hit
  <2> QED BY <1>2, <2>1, <2>2
<1>4. doc = "crs" => Hit(2)
  <2> DEFINE word == "form crs"
  <2>1. word \in Generators[2].words
    BY GeneratorsOf
  <2>2. doc = "crs" => word \in Words(c, doc)
    BY <1>1 DEF Words
  <2> HIDE DEF word, Hit
  <2> QED BY <1>2, <2>1, <2>2
<1>5. doc = "beneficiary" => Hit(3)
  <2> DEFINE word == "beneficiary"
  <2>1. word \in Generators[3].words
    BY GeneratorsOf
  <2>2. doc = "beneficiary" => word \in Words(c, doc)
    BY <1>1 DEF Words
  <2> HIDE DEF word, Hit
  <2> QED BY <1>2, <2>1, <2>2
<1>6. doc = "rollover" => Hit(4)
  <2> DEFINE word == "rollover recommendation"
  <2>1. word \in Generators[4].words
    BY GeneratorsOf
  <2>2. doc = "rollover" => word \in Words(c, doc)
    BY <1>1 DEF Words
  <2> HIDE DEF word, Hit
  <2> QED BY <1>2, <2>1, <2>2
<1>7. doc = "transfer" => Hit(5)
  <2> DEFINE word == "transfer of assets"
  <2>1. word \in Generators[5].words
    BY GeneratorsOf
  <2>2. doc = "transfer" => word \in Words(c, doc)
    BY <1>1 DEF Words
  <2> HIDE DEF word, Hit
  <2> QED BY <1>2, <2>1, <2>2
<1>8. doc = "ach" => Hit(6)
  <2> DEFINE word == IF c = "schwab" THEN "moneylink" ELSE "ach"
  <2>1. word \in Generators[6].words
    BY GeneratorsOf
  <2>2. doc = "ach" => word \in Words(c, doc)
    BY <1>1 DEF Words
  <2> HIDE DEF word, Hit
  <2> QED BY <1>2, <2>1, <2>2
<1>9. doc = "loa" => Hit(7)
  <2> DEFINE word == "loa"
  <2>1. word \in Generators[7].words
    BY GeneratorsOf
  <2>2. doc = "loa" => word \in Words(c, doc)
    BY <1>1 DEF Words
  <2> HIDE DEF word, Hit
  <2> QED BY <1>2, <2>1, <2>2
<1>10. doc = "pte" => Hit(8)
  <2> DEFINE word == "prohibited transaction"
  <2>1. word \in Generators[8].words
    BY GeneratorsOf
  <2>2. doc = "pte" => word \in Words(c, doc)
    BY <1>1 DEF Words
  <2> HIDE DEF word, Hit
  <2> QED BY <1>2, <2>1, <2>2
<1>11. doc = "addendum" => Hit(9)
  <2> DEFINE word == "addendum"
  <2>1. word \in Generators[9].words
    BY GeneratorsOf
  <2>2. doc = "addendum" => word \in Words(c, doc)
    BY <1>1 DEF Words
  <2> HIDE DEF word, Hit
  <2> QED BY <1>2, <2>1, <2>2
<1> HIDE DEF Hit
<1>12. \E i \in 1..9 : Hit(i)
  BY <1>3, <1>4, <1>5, <1>6, <1>7, <1>8, <1>9, <1>10, <1>11 DEF Kinds
<1> QED BY <1>12 DEF Hit

\* A document is printed on its own form, or, if none matches, on the generic page.
LEMMA FormIsOwn ==
  ASSUME NEW c \in Custodians, NEW doc \in Kinds
  PROVE  /\ FormOf(c, doc) \in {doc, "generic"}
         /\ <<c, doc>> \notin Unmatched => FormOf(c, doc) = doc
<1> DEFINE D == DOMAIN Generators
           places == {i \in D : Generators[i].words \intersect Words(c, doc) # {}}
<1>1. FormOf(c, doc) = IF places = {} THEN "generic" ELSE Generators[Min(places)].form
  BY DEF FormOf, Find
<1>2. D = 1..9
  BY GeneratorsOf
<1> HIDE DEF D
<1>3. \A i \in places : i \in 1..9 /\ Generators[i].form = doc
  BY <1>2, MatchesOwn
<1>4. <<c, doc>> \notin Unmatched => places # {}
  BY <1>2, MatchesOne
<1> HIDE DEF places
<1>5. places # {} => Min(places) \in places
  <2>1. places \subseteq Nat
    BY <1>3
  <2> QED BY <2>1, LeastIn
<1> QED BY <1>1, <1>3, <1>4, <1>5

\* An envelope whose owners sign at their own addresses, with nobody else's data, and
\* with the documents on their own forms.
OwnersEnvelope(e, c, owners) ==
  /\ {r.name : r \in Range(e.recipients)} = owners
  /\ \A r \in Range(e.recipients) : r.email = r.name
  /\ \A d \in e.documents : /\ d.data.about \subseteq owners
                            /\ d.form = d.name \/ <<c, d.name>> \in Unmatched
Owners(a) == IF a.owner = "both" THEN {"p1", "p2"} ELSE {a.owner}

\* For any account the first client owns, alone or with a second who gave an address:
\* the owners sign at their own addresses, no form is about anybody else, and the
\* documents are on their own forms.
THEOREM PaperworkIsOwn ==
  ASSUME NEW c \in Custodians, NEW a, NEW ach, NEW p2Email,
         a.owner = "p1" \/ (a.owner = "both" /\ p2Email)
  PROVE  OwnersEnvelope(Envelope(c, a, ach, p2Email), c, Owners(a))
<1> DEFINE e == Envelope(c, a, ach, p2Email)
           owners == IF a.owner = "both" THEN {"p1", "p2"} ELSE {a.owner}
           recipients == [i \in DOMAIN SignerEmails(a, p2Email) |->
                            [name |-> SignerNames(a)[i], email |-> SignerEmails(a, p2Email)[i]]]
<1>1. /\ e.documents = {[name |-> doc, form |-> FormOf(c, doc),
                         data |-> FillIn(FormOf(c, doc), "p1")] : doc \in DocsFor(a, ach)}
      /\ e.recipients = recipients
  BY DEF Envelope
<1>2. /\ SignerNames(a) = SignerEmails(a, p2Email)
      /\ Range(SignerEmails(a, p2Email)) = owners
  <2>1. CASE a.owner = "both"
    <3>1. SignerNames(a) = <<"p1", "p2">> /\ SignerEmails(a, p2Email) = <<"p1", "p2">>
      BY <2>1 DEF SignerNames, SignerEmails
    <3>2. Range(<<"p1", "p2">>) = {"p1", "p2"}
      BY DEF Range
    <3> QED BY <2>1, <3>1, <3>2
  <2>2. CASE a.owner = "p1"
    <3>1. SignerNames(a) = <<"p1">> /\ SignerEmails(a, p2Email) = <<"p1">>
      BY <2>2 DEF SignerNames, SignerEmails
    <3>2. Range(<<"p1">>) = {"p1"}
      BY DEF Range
    <3> QED BY <2>2, <3>1, <3>2
  <2> QED BY <2>1, <2>2
<1> HIDE DEF e
<1>3. /\ {r.name : r \in Range(e.recipients)} = owners
      /\ \A r \in Range(e.recipients) : r.email = r.name
  <2> DEFINE emails == SignerEmails(a, p2Email)
  <2>1. SignerNames(a) = emails /\ Range(emails) = owners
    BY <1>2
  <2> HIDE DEF emails, owners
  <2>2. e.recipients = [i \in DOMAIN emails |-> [name |-> emails[i], email |-> emails[i]]]
    BY <1>1, <2>1 DEF emails
  <2>3. Range(e.recipients) = {[name |-> n, email |-> n] : n \in Range(emails)}
    BY <2>2 DEF Range
  <2> DEFINE E == Range(e.recipients)
  <2> HIDE DEF E
  <2>4. \A r \in E : r.email = r.name /\ r.name \in Range(emails)
    BY <2>3 DEF E
  <2>5. \A n \in Range(emails) : \E r \in E : r.name = n
    <3> TAKE n \in Range(emails)
    <3>1. [name |-> n, email |-> n] \in E /\ [name |-> n, email |-> n].name = n
      BY <2>3 DEF E
    <3> QED BY <3>1
  <2>6. {r.name : r \in E} = Range(emails)
    BY <2>4, <2>5
  <2> QED BY <2>1, <2>4, <2>6 DEF E
<1>4. DocsFor(a, ach) \subseteq Kinds
  BY DEF DocsFor, Kinds
<1>5. "p1" \in owners
  OBVIOUS
<1>6. \A doc \in Kinds : FillIn(FormOf(c, doc), "p1").about \subseteq {"p1"}
  <2> TAKE doc \in Kinds
  <2>1. FormOf(c, doc) \in Kinds \union {"generic"}
    BY FormIsOwn
  <2> DEFINE form == FormOf(c, doc)
  <2> HIDE DEF form
  <2>2. FillIn(form, "p1") \in {[about |-> {"p1"}, lists |-> FALSE], [about |-> {}, lists |-> TRUE],
                                [about |-> {}, lists |-> FALSE]}
    BY <2>1 DEF form, FillIn, Kinds, FillInApplication, FillInFormCRS, FillInBeneficiaries,
         FillInRollover, FillInTransfer, FillInACH, FillInGeneric
  <2> QED BY <2>2 DEF form
<1> HIDE DEF owners
<1>7. ASSUME NEW d \in e.documents
      PROVE  d.data.about \subseteq owners /\ (d.form = d.name \/ <<c, d.name>> \in Unmatched)
  <2>1. PICK doc \in DocsFor(a, ach) :
          d = [name |-> doc, form |-> FormOf(c, doc), data |-> FillIn(FormOf(c, doc), "p1")]
    BY <1>1
  <2>2. d.name = doc /\ d.form = FormOf(c, doc) /\ d.data = FillIn(FormOf(c, doc), "p1")
    BY <2>1
  <2> QED BY <1>4, <1>5, <1>6, <2>2, FormIsOwn
<1> QED BY <1>3, <1>7 DEF e, owners, Owners, OwnersEnvelope

\* The parts of the rules the wizard's accounts can meet: documents the wizard has,
\* save the agreements, and conditions on the funding.
Agreements == {"sep plan", "custodial agreement", "customer agreement"}
Plain(rules) ==
  /\ rules.docs \subseteq Basic \union {"beneficiary"} \union Agreements
  /\ "beneficiary" \in rules.docs => rules.beneficiary
  /\ rules.when \subseteq WhenBrokerage \union WhenRetirement
WizardRules == {"Individual Brokerage", "JTWROS", "Joint TIC", "Traditional IRA", "Roth IRA",
                "SEP IRA"}

\* The rules of the wizard's types, of every custodian that has rules.
LEMMA RulesOf ==
  ASSUME NEW c \in {"schwab", "fidelity", "pershing"}, NEW type \in WizardRules
  PROVE  /\ Plain(RulesFor(c, type))
         /\ RulesFor(c, type).beneficiary =>
              type \in {"Joint TIC", "Traditional IRA", "Roth IRA", "SEP IRA"}
<1> DEFINE Fits(rules) == /\ Plain(rules)
                          /\ rules.beneficiary =>
                               type \in {"Joint TIC", "Traditional IRA", "Roth IRA", "SEP IRA"}
<1> SUFFICES Fits(RulesFor(c, type))
  OBVIOUS
<1>0. RulesFor(c, type) = Registry[c][type]
  BY DEF RulesFor
<1>1. CASE c = "schwab"
  <2> DEFINE rules == Registry["schwab"]
  <2>1. rules["Individual Brokerage"] = SchwabIndividual
    BY DEF Registry, RuledTypes
  <2>2. rules["JTWROS"] = SchwabJTWROS
    BY DEF Registry, RuledTypes
  <2>3. rules["Joint TIC"] = SchwabTIC
    BY DEF Registry, RuledTypes
  <2>4. rules["Traditional IRA"] = SchwabTraditionalIRA
    BY DEF Registry, RuledTypes
  <2>5. rules["Roth IRA"] = SchwabRothIRA
    BY DEF Registry, RuledTypes
  <2>6. rules["SEP IRA"] = SchwabSEPIRA
    BY DEF Registry, RuledTypes
  <2> HIDE DEF rules
  <2>7. CASE type = "Individual Brokerage"
    <3>1. Fits(SchwabIndividual)
      BY <2>7 DEF SchwabIndividual, Plain, Basic, Agreements, WhenBrokerage, WhenRetirement
    <3>2. RulesFor(c, type) = SchwabIndividual
      BY <1>0, <1>1, <2>1, <2>7 DEF rules
    <3> HIDE DEF Fits
    <3> QED BY <3>1, <3>2
  <2>8. CASE type = "JTWROS"
    <3>1. Fits(SchwabJTWROS)
      BY <2>8 DEF SchwabJTWROS, Plain, Basic, Agreements, WhenBrokerage, WhenRetirement
    <3>2. RulesFor(c, type) = SchwabJTWROS
      BY <1>0, <1>1, <2>2, <2>8 DEF rules
    <3> HIDE DEF Fits
    <3> QED BY <3>1, <3>2
  <2>9. CASE type = "Joint TIC"
    <3>1. Fits(SchwabTIC)
      BY <2>9 DEF SchwabTIC, Plain, Basic, Agreements, WhenBrokerage, WhenRetirement
    <3>2. RulesFor(c, type) = SchwabTIC
      BY <1>0, <1>1, <2>3, <2>9 DEF rules
    <3> HIDE DEF Fits
    <3> QED BY <3>1, <3>2
  <2>10. CASE type = "Traditional IRA"
    <3>1. Fits(SchwabTraditionalIRA)
      BY <2>10 DEF SchwabTraditionalIRA, Plain, Basic, Agreements, WhenBrokerage, WhenRetirement
    <3>2. RulesFor(c, type) = SchwabTraditionalIRA
      BY <1>0, <1>1, <2>4, <2>10 DEF rules
    <3> HIDE DEF Fits
    <3> QED BY <3>1, <3>2
  <2>11. CASE type = "Roth IRA"
    <3>1. Fits(SchwabRothIRA)
      BY <2>11 DEF SchwabRothIRA, Plain, Basic, Agreements, WhenBrokerage, WhenRetirement
    <3>2. RulesFor(c, type) = SchwabRothIRA
      BY <1>0, <1>1, <2>5, <2>11 DEF rules
    <3> HIDE DEF Fits
    <3> QED BY <3>1, <3>2
  <2>12. CASE type = "SEP IRA"
    <3>1. Fits(SchwabSEPIRA)
      BY <2>12 DEF SchwabSEPIRA, Plain, Basic, Agreements, WhenBrokerage, WhenRetirement
    <3>2. RulesFor(c, type) = SchwabSEPIRA
      BY <1>0, <1>1, <2>6, <2>12 DEF rules
    <3> HIDE DEF Fits
    <3> QED BY <3>1, <3>2
  <2> QED BY <2>7, <2>8, <2>9, <2>10, <2>11, <2>12 DEF WizardRules
<1>2. CASE c = "fidelity"
  <2> DEFINE rules == Registry["fidelity"]
  <2>1. rules["Individual Brokerage"] = FidelityIndividual
    BY DEF Registry, RuledTypes
  <2>2. rules["JTWROS"] = FidelityJTWROS
    BY DEF Registry, RuledTypes
  <2>3. rules["Joint TIC"] = FidelityTIC
    BY DEF Registry, RuledTypes
  <2>4. rules["Traditional IRA"] = FidelityTraditionalIRA
    BY DEF Registry, RuledTypes
  <2>5. rules["Roth IRA"] = FidelityRothIRA
    BY DEF Registry, RuledTypes
  <2>6. rules["SEP IRA"] = FidelitySEPIRA
    BY DEF Registry, RuledTypes
  <2> HIDE DEF rules
  <2>7. CASE type = "Individual Brokerage"
    <3>1. Fits(FidelityIndividual)
      BY <2>7 DEF FidelityIndividual, Plain, Basic, Agreements, WhenBrokerage, WhenRetirement
    <3>2. RulesFor(c, type) = FidelityIndividual
      BY <1>0, <1>2, <2>1, <2>7 DEF rules
    <3> HIDE DEF Fits
    <3> QED BY <3>1, <3>2
  <2>8. CASE type = "JTWROS"
    <3>1. Fits(FidelityJTWROS)
      BY <2>8 DEF FidelityJTWROS, Plain, Basic, Agreements, WhenBrokerage, WhenRetirement
    <3>2. RulesFor(c, type) = FidelityJTWROS
      BY <1>0, <1>2, <2>2, <2>8 DEF rules
    <3> HIDE DEF Fits
    <3> QED BY <3>1, <3>2
  <2>9. CASE type = "Joint TIC"
    <3>1. Fits(FidelityTIC)
      BY <2>9 DEF FidelityTIC, Plain, Basic, Agreements, WhenBrokerage, WhenRetirement
    <3>2. RulesFor(c, type) = FidelityTIC
      BY <1>0, <1>2, <2>3, <2>9 DEF rules
    <3> HIDE DEF Fits
    <3> QED BY <3>1, <3>2
  <2>10. CASE type = "Traditional IRA"
    <3>1. Fits(FidelityTraditionalIRA)
      BY <2>10 DEF FidelityTraditionalIRA, Plain, Basic, Agreements, WhenBrokerage, WhenRetirement
    <3>2. RulesFor(c, type) = FidelityTraditionalIRA
      BY <1>0, <1>2, <2>4, <2>10 DEF rules
    <3> HIDE DEF Fits
    <3> QED BY <3>1, <3>2
  <2>11. CASE type = "Roth IRA"
    <3>1. Fits(FidelityRothIRA)
      BY <2>11 DEF FidelityRothIRA, Plain, Basic, Agreements, WhenBrokerage, WhenRetirement
    <3>2. RulesFor(c, type) = FidelityRothIRA
      BY <1>0, <1>2, <2>5, <2>11 DEF rules
    <3> HIDE DEF Fits
    <3> QED BY <3>1, <3>2
  <2>12. CASE type = "SEP IRA"
    <3>1. Fits(FidelitySEPIRA)
      BY <2>12 DEF FidelitySEPIRA, Plain, Basic, Agreements, WhenBrokerage, WhenRetirement
    <3>2. RulesFor(c, type) = FidelitySEPIRA
      BY <1>0, <1>2, <2>6, <2>12 DEF rules
    <3> HIDE DEF Fits
    <3> QED BY <3>1, <3>2
  <2> QED BY <2>7, <2>8, <2>9, <2>10, <2>11, <2>12 DEF WizardRules
<1>3. CASE c = "pershing"
  <2> DEFINE rules == Registry["pershing"]
  <2>1. rules["Individual Brokerage"] = PershingIndividual
    BY DEF Registry, RuledTypes
  <2>2. rules["JTWROS"] = PershingJTWROS
    BY DEF Registry, RuledTypes
  <2>3. rules["Joint TIC"] = PershingTIC
    BY DEF Registry, RuledTypes
  <2>4. rules["Traditional IRA"] = PershingTraditionalIRA
    BY DEF Registry, RuledTypes
  <2>5. rules["Roth IRA"] = PershingRothIRA
    BY DEF Registry, RuledTypes
  <2>6. rules["SEP IRA"] = PershingSEPIRA
    BY DEF Registry, RuledTypes
  <2> HIDE DEF rules
  <2>7. CASE type = "Individual Brokerage"
    <3>1. Fits(PershingIndividual)
      BY <2>7 DEF PershingIndividual, Plain, Basic, Agreements, WhenBrokerage, WhenRetirement
    <3>2. RulesFor(c, type) = PershingIndividual
      BY <1>0, <1>3, <2>1, <2>7 DEF rules
    <3> HIDE DEF Fits
    <3> QED BY <3>1, <3>2
  <2>8. CASE type = "JTWROS"
    <3>1. Fits(PershingJTWROS)
      BY <2>8 DEF PershingJTWROS, Plain, Basic, Agreements, WhenBrokerage, WhenRetirement
    <3>2. RulesFor(c, type) = PershingJTWROS
      BY <1>0, <1>3, <2>2, <2>8 DEF rules
    <3> HIDE DEF Fits
    <3> QED BY <3>1, <3>2
  <2>9. CASE type = "Joint TIC"
    <3>1. Fits(PershingTIC)
      BY <2>9 DEF PershingTIC, Plain, Basic, Agreements, WhenBrokerage, WhenRetirement
    <3>2. RulesFor(c, type) = PershingTIC
      BY <1>0, <1>3, <2>3, <2>9 DEF rules
    <3> HIDE DEF Fits
    <3> QED BY <3>1, <3>2
  <2>10. CASE type = "Traditional IRA"
    <3>1. Fits(PershingTraditionalIRA)
      BY <2>10 DEF PershingTraditionalIRA, Plain, Basic, Agreements, WhenBrokerage, WhenRetirement
    <3>2. RulesFor(c, type) = PershingTraditionalIRA
      BY <1>0, <1>3, <2>4, <2>10 DEF rules
    <3> HIDE DEF Fits
    <3> QED BY <3>1, <3>2
  <2>11. CASE type = "Roth IRA"
    <3>1. Fits(PershingRothIRA)
      BY <2>11 DEF PershingRothIRA, Plain, Basic, Agreements, WhenBrokerage, WhenRetirement
    <3>2. RulesFor(c, type) = PershingRothIRA
      BY <1>0, <1>3, <2>5, <2>11 DEF rules
    <3> HIDE DEF Fits
    <3> QED BY <3>1, <3>2
  <2>12. CASE type = "SEP IRA"
    <3>1. Fits(PershingSEPIRA)
      BY <2>12 DEF PershingSEPIRA, Plain, Basic, Agreements, WhenBrokerage, WhenRetirement
    <3>2. RulesFor(c, type) = PershingSEPIRA
      BY <1>0, <1>3, <2>6, <2>12 DEF rules
    <3> HIDE DEF Fits
    <3> QED BY <3>1, <3>2
  <2> QED BY <2>7, <2>8, <2>9, <2>10, <2>11, <2>12 DEF WizardRules
<1> QED BY <1>1, <1>2, <1>3

\* For any account of the wizard's types and fundings, at any custodian: the documents
\* hold what the rules ask for, the agreements aside, and where a beneficiary is asked
\* for the form is there and the page that adds one.
THEOREM RulesAreMet ==
  ASSUME NEW c \in Custodians, NEW a, a.type \in IndivTypes \union JointTypes,
         a.funding \in Fundings, NEW ach \in BOOLEAN,
         a.type \in DOMAIN RulesType, HasRules(c, RulesType[a.type])
  PROVE  LET rule == RulesType[a.type]
             needed == UNION {RequiredDocuments(c, rule, x) : x \in Contexts(a, ach)}
         IN  /\ needed \ DocsFor(a, ach) \subseteq Agreements
             /\ RulesFor(c, rule).beneficiary =>
                  "beneficiary" \in DocsFor(a, ach) /\ CanAddBeneficiary(a)
<1> DEFINE rule == RulesType[a.type]
           rules == RulesFor(c, rule)
<1>1. c \in {"schwab", "fidelity", "pershing"}
  <2>1. DOMAIN Registry = {"schwab", "fidelity", "pershing"}
    BY DEF Registry
  <2> QED BY <2>1 DEF HasRules
<1>2. /\ a.type \in {"Individual", "Individual TOD", "IRA", "Roth IRA", "SEP IRA", "JTWROS",
                     "JTWROS TOD", "Joint TIC", "Community Property"}
      /\ rule \in WizardRules
      /\ rule \in {"Joint TIC", "Traditional IRA", "Roth IRA", "SEP IRA"} =>
           a.type \in {"Joint TIC", "IRA", "Roth IRA", "SEP IRA"}
  <2>1. a.type \in TypesWithRules
    BY DEF RulesType
  <2>2. a.type \in {"Individual", "Individual TOD", "IRA", "Roth IRA", "SEP IRA", "JTWROS",
                    "JTWROS TOD", "Joint TIC", "Community Property"}
    BY <2>1 DEF TypesWithRules, IndivTypes, JointTypes
  <2> QED BY <2>1, <2>2 DEF RulesType, WizardRules
<1> HIDE DEF rule
<1>3. Plain(rules)
  BY <1>1, <1>2, RulesOf
<1>4. rules.beneficiary => "beneficiary" \in DocsFor(a, ach) /\ CanAddBeneficiary(a)
  <2> SUFFICES ASSUME rules.beneficiary
               PROVE  "beneficiary" \in DocsFor(a, ach) /\ CanAddBeneficiary(a)
    OBVIOUS
  <2>1. a.type \in {"Joint TIC", "IRA", "Roth IRA", "SEP IRA"}
    BY <1>1, <1>2, RulesOf
  <2> QED BY <2>1 DEF DocsFor, CanAddBeneficiary, TOD, JTWROS
<1>5. ASSUME NEW x \in Contexts(a, ach), NEW doc \in RequiredDocuments(c, rule, x)
      PROVE  doc \in DocsFor(a, ach) \union Agreements
  <2>1. \/ doc \in rules.docs
        \/ \E w \in rules.when : /\ doc = w[3]
                                 /\ w[1] \in DOMAIN x /\ x[w[1]] = w[2]
    BY DEF RequiredDocuments, HasRules
  <2>2. CASE doc \in rules.docs
    <3>1. doc \in Basic \union {"beneficiary"} \union Agreements
      BY <1>3, <2>2 DEF Plain
    <3>2. doc = "beneficiary" => doc \in DocsFor(a, ach)
      BY <1>3, <1>4, <2>2 DEF Plain
    <3>3. Basic \subseteq DocsFor(a, ach)
      BY DEF Basic, DocsFor
    <3> QED BY <3>1, <3>2, <3>3
  <2>3. CASE \E w \in rules.when : /\ doc = w[3]
                                   /\ w[1] \in DOMAIN x /\ x[w[1]] = w[2]
    <3>1. PICK w \in rules.when : doc = w[3] /\ w[1] \in DOMAIN x /\ x[w[1]] = w[2]
      BY <2>3
    <3>2. w \in WhenBrokerage \union WhenRetirement
      BY <1>3, <3>1 DEF Plain
    <3>3. /\ w[1] = "funding_method"
          /\ \/ w[2] = "ACH" /\ doc = "ach"
             \/ w[2] = "Transfer" /\ doc \in {"transfer", "loa"}
             \/ w[2] = "Rollover" /\ doc \in {"rollover", "pte"}
      BY <3>1, <3>2 DEF WhenBrokerage, WhenRetirement
    <3>4. \/ ach /\ x.funding_method = "ACH"
          \/ a.funding = "Rollover" /\ x.funding_method = "Rollover"
          \/ IsTransfer(a) /\ x.funding_method = "Transfer"
          \/ x.funding_method = a.funding
      BY DEF Contexts
    <3>5. x.funding_method = w[2]
      BY <3>1, <3>3
    <3>6. a.funding # "ACH" /\ a.funding # "Transfer"
      BY DEF Fundings
    <3>7. /\ w[2] = "ACH" => ach
          /\ w[2] = "Transfer" => IsTransfer(a)
          /\ w[2] = "Rollover" => a.funding = "Rollover"
      BY <3>4, <3>5, <3>6
    <3> QED BY <3>3, <3>7 DEF DocsFor
  <2> QED BY <2>1, <2>2, <2>3
<1> QED BY <1>4, <1>5 DEF rule

-------------------------------------------------------------------------------
(* The accounts of Figures. *)

\* The wizard's accounts are of its types, fundings and owners.
OpeningInv ==
  At("opening") =>
    LET a == input.account
    IN  /\ input.custodian \in Custodians /\ input.ach \in BOOLEAN /\ input.p2Email \in BOOLEAN
        /\ a.type \in IndivTypes \union JointTypes /\ a.funding \in Fundings
        /\ a.owner \in {"p1", "p2", "both"}

LEMMA OpeningInvariant == FiguresSpec => []OpeningInv
<1>1. FiguresInit => OpeningInv
  BY DEF FiguresInit, OpeningInv, At
<1>2. OpeningInv /\ [FiguresNext]_input => OpeningInv'
  <2> SUFFICES ASSUME OpeningInv, [FiguresNext]_input PROVE OpeningInv'
    OBVIOUS
  <2>1. CASE OpenAccount
    <3>1. PICK c \in Custodians, a \in WizardAccounts, ach \in BOOLEAN, p2Email \in BOOLEAN :
            input' = [kind |-> "opening", custodian |-> c, account |-> a, ach |-> ach,
                      p2Email |-> p2Email]
      BY <2>1, Zenon DEF OpenAccount
    <3>2. /\ a.type \in IndivTypes \union JointTypes /\ a.funding \in Fundings
          /\ a.owner \in {"p1", "p2", "both"}
      BY DEF WizardAccounts
    <3>3. /\ input'.custodian = c /\ input'.account = a /\ input'.ach = ach
          /\ input'.p2Email = p2Email
      BY <3>1
    <3> QED BY <3>2, <3>3 DEF OpeningInv
  <2>2. CASE UNCHANGED input
    BY <2>2 DEF OpeningInv, At
  <2> QED BY <2>1, <2>2, KindOf DEF FiguresNext, OpeningInv, At
<1> QED BY <1>1, <1>2, PTL DEF FiguresSpec

\* The documents of every opening hold what the custodian's rules ask for.
THEOREM PaperworkMeetsRulesHolds == FiguresSpec => []PaperworkMeetsRules
<1>1. OpeningInv => PaperworkMeetsRules
  BY RulesAreMet DEF OpeningInv, PaperworkMeetsRules, Agreements
<1> QED BY <1>1, OpeningInvariant, PTL

\* Every envelope of the first client is the owners' own.
THEOREM OwnPaperworkHolds == FiguresSpec => []OwnPaperwork
<1>1. OpeningInv => OwnPaperwork
  <2> SUFFICES ASSUME OpeningInv, At("opening"), input.account.owner # "p2", input.p2Email
               PROVE  OwnPaperwork
    BY DEF OwnPaperwork
  <2> DEFINE c == input.custodian
             a == input.account
             p2Email == input.p2Email
  <2>1. c \in Custodians /\ (a.owner = "p1" \/ (a.owner = "both" /\ p2Email))
    BY DEF OpeningInv
  <2>2. OwnersEnvelope(Envelope(c, a, input.ach, p2Email), c, Owners(a))
    <3> HIDE DEF c, a, p2Email
    <3> QED BY <2>1, PaperworkIsOwn
  <2> QED BY <2>2, Zenon DEF OwnPaperwork, OwnersEnvelope, Owners, Unmatched
<1> QED BY <1>1, OpeningInvariant, PTL

-------------------------------------------------------------------------------
(* The clients of an imported file. *)

\* The first with a role, if there is one.
LEMMA FirstWithRoleOf ==
  ASSUME NEW R, NEW members \in Seq(R), NEW role, NEW otherwise
  PROVE  \/ /\ \A i \in DOMAIN members : members[i].role # role
            /\ FirstWithRole(members, role, otherwise) = otherwise
         \/ \E i \in DOMAIN members :
              /\ members[i].role = role
              /\ \A j \in DOMAIN members : members[j].role = role => i <= j
              /\ FirstWithRole(members, role, otherwise) = members[i]
<1> DEFINE places == {i \in DOMAIN members : members[i].role = role}
<1>1. FirstWithRole(members, role, otherwise)
        = IF places = {} THEN otherwise ELSE members[Min(places)]
  BY DEF FirstWithRole, Find
<1>2. places \subseteq Nat /\ \A i : i \in places <=> i \in DOMAIN members /\ members[i].role = role
  OBVIOUS
<1> HIDE DEF places
<1>3. CASE places = {}
  BY <1>1, <1>2, <1>3
<1>4. CASE places # {}
  <2>1. Min(places) \in places /\ \A j \in places : Min(places) <= j
    BY <1>2, <1>4, LeastIn
  <2>2. FirstWithRole(members, role, otherwise) = members[Min(places)]
    BY <1>1, <1>4
  <2> QED BY <1>2, <2>1, <2>2
<1> QED BY <1>3, <1>4

\* The rows of a last name are its own, each once.
Rowwise(g) == \A i, j \in DOMAIN g : g[i] = g[j] => i = j

\* Of the rows of a last name the household is sent one for each of its places, the same
\* for both exactly if they overlap.
LEMMA MembersOf ==
  ASSUME NEW R, NEW g \in Seq(R), \A r \in R : r.row # 0, Len(g) # 0, Rowwise(g)
  PROVE  LET m == Members(Family(g))
         IN  /\ m \in Seq(Range(g)) /\ Len(m) \in {1, 2} /\ DOMAIN m = Sent(g)
             /\ \A k, l \in DOMAIN m : k # l => (m[k] = m[l] <=> Overlap(g))
<1> DEFINE p1 == FirstWithRole(g, "primary", g[1])
           p2 == FirstWithRole(g, "spouse", SecondOf(g))
           n == Len(g)
<1>1. Members(Family(g)) = IF p2 = Nobody THEN <<p1>> ELSE <<p1, p2>>
  BY DEF Members, Family
<1>2. \A i \in DOMAIN g : g[i] # Nobody /\ g[i] \in Range(g)
  <2>1. Nobody.row = 0
    BY DEF Nobody
  <2>2. \A i \in DOMAIN g : g[i] \in Range(g)
    BY DEF Range
  <2> QED BY <2>1, <2>2
<1>3. n \in Nat \ {0} /\ DOMAIN g = 1..n /\ 1 \in DOMAIN g
  OBVIOUS
<1>4. PICK i \in DOMAIN g :
        /\ p1 = g[i]
        /\ \/ i = 1 /\ \A k \in DOMAIN g : g[k].role # "primary"
           \/ g[i].role = "primary" /\ \A k \in DOMAIN g : g[k].role = "primary" => i <= k
  BY <1>3, FirstWithRoleOf
<1>5. \/ (\A k \in DOMAIN g : g[k].role # "spouse") /\ p2 = SecondOf(g)
      \/ \E j \in DOMAIN g : /\ g[j].role = "spouse" /\ p2 = g[j]
                             /\ \A k \in DOMAIN g : g[k].role = "spouse" => j <= k
  BY FirstWithRoleOf
<1>6. ASSUME NEW x \in Range(g)
      PROVE  <<x>> \in Seq(Range(g)) /\ Len(<<x>>) = 1 /\ DOMAIN <<x>> = 1..1
  OBVIOUS
<1>7. ASSUME NEW x \in Range(g), NEW y \in Range(g), x = y <=> Overlap(g)
      PROVE  /\ <<x, y>> \in Seq(Range(g)) /\ Len(<<x, y>>) = 2 /\ DOMAIN <<x, y>> = 1..2
             /\ \A k, l \in DOMAIN <<x, y>> : k # l => (<<x, y>>[k] = <<x, y>>[l] <=> Overlap(g))
  <2>1. <<x, y>> \in Seq(Range(g)) /\ Len(<<x, y>>) = 2 /\ DOMAIN <<x, y>> = 1..2
    OBVIOUS
  <2>2. <<x, y>>[1] = x /\ <<x, y>>[2] = y
    OBVIOUS
  <2>3. \A k, l \in 1..2 : k # l => (k = 1 /\ l = 2) \/ (k = 2 /\ l = 1)
    OBVIOUS
  <2> QED BY <1>7, <2>1, <2>2, <2>3
<1>8. \A k, l \in DOMAIN g : k <= l /\ l <= k => k = l
  BY <1>3
<1> HIDE DEF p1, p2, n
<1>9. CASE \E j \in DOMAIN g : /\ g[j].role = "spouse" /\ p2 = g[j]
                               /\ \A k \in DOMAIN g : g[k].role = "spouse" => j <= k
  <2>1. PICK j \in DOMAIN g : /\ g[j].role = "spouse" /\ p2 = g[j]
                              /\ \A k \in DOMAIN g : g[k].role = "spouse" => j <= k
    BY <1>9
  <2>2. g[i] = g[j] <=> Overlap(g)
    <3>1. CASE \A k \in DOMAIN g : g[k].role # "primary"
      <4>1. i = 1
        BY <1>4, <3>1
      <4>2. Overlap(g) <=> g[1].role = "spouse"
        <5>1. n > 1 => 2 \in DOMAIN g
          BY <1>3
        <5> QED BY <2>1, <3>1, <5>1 DEF Overlap
      <4>3. g[1].role = "spouse" <=> j = 1
        <5>1. \A k \in DOMAIN g : k <= 1 => k = 1
          BY <1>3
        <5> QED BY <1>3, <2>1, <5>1
      <4> QED BY <2>1, <4>1, <4>2, <4>3 DEF Rowwise
    <3>2. CASE \E k \in DOMAIN g : g[k].role = "primary"
      <4>1. g[i].role = "primary"
        BY <1>4, <3>2
      <4> QED BY <2>1, <3>2, <4>1 DEF Overlap
    <3> QED BY <3>1, <3>2
  <2>3. Sent(g) = 1..2
    <3>1. n = 1 => i = 1 /\ j = 1
      BY <1>3, <2>1
    <3> QED BY <2>2, <3>1 DEF Sent, n
  <2>4. Members(Family(g)) = <<g[i], g[j]>>
    BY <1>1, <1>2, <1>4, <2>1
  <2> QED BY <1>2, <1>7, <2>1, <2>2, <2>3, <2>4
<1>10. CASE (\A k \in DOMAIN g : g[k].role # "spouse") /\ n > 1
  <2>1. 2 \in DOMAIN g /\ SecondOf(g) = g[2]
    BY <1>3, <1>10 DEF SecondOf, n
  <2>2. p2 = g[2]
    BY <1>5, <1>10, <2>1
  <2>3. i = 2 <=> g[1].role # "primary" /\ g[2].role = "primary"
    <3>1. \A k \in DOMAIN g : k <= 2 => k = 1 \/ k = 2
      BY <1>3
    <3>2. ~(2 <= 1) /\ 1 # 2
      OBVIOUS
    <3> QED BY <1>3, <1>4, <2>1, <3>1, <3>2
  <2>4. g[i] = g[2] <=> Overlap(g)
    <3>1. Overlap(g) <=> g[1].role # "primary" /\ g[2].role = "primary"
      BY <1>3, <1>10 DEF Overlap, n
    <3> QED BY <2>1, <2>3, <3>1 DEF Rowwise
  <2>5. Sent(g) = 1..2
    BY <1>3, <1>10 DEF Sent, n
  <2>6. Members(Family(g)) = <<g[i], g[2]>>
    BY <1>1, <1>2, <1>4, <2>1, <2>2
  <2> QED BY <1>2, <1>7, <2>1, <2>4, <2>5, <2>6
<1>11. CASE (\A k \in DOMAIN g : g[k].role # "spouse") /\ n = 1
  <2>1. p2 = Nobody /\ ~Overlap(g)
    BY <1>3, <1>5, <1>11 DEF SecondOf, Overlap, n
  <2>2. Members(Family(g)) = <<g[i]>> /\ Sent(g) = 1..1
    BY <1>1, <1>4, <1>11, <2>1 DEF Sent, n
  <2>3. \A k, l \in 1..1 : k = l
    OBVIOUS
  <2> QED BY <1>2, <1>6, <2>2, <2>3
<1>12. n > 1 \/ n = 1
  BY <1>3
<1> QED BY <1>5, <1>9, <1>10, <1>11, <1>12

\* Of those sent the household has the ones that are not refused, from places of their own.
AreTaken(c, m, refused) ==
  /\ Range(c) \subseteq Range(m) /\ Len(c) = Cardinality(DOMAIN m \ refused)
  /\ \A k, l \in DOMAIN c :
       k # l => \E i, j \in DOMAIN m : i # j /\ c[k] = m[i] /\ c[l] = m[j]
LEMMA CreatedOf ==
  ASSUME NEW m, m \in Seq(Range(m)), NEW refused
  PROVE  AreTaken(Created(m, refused), m, refused)
<1> DEFINE places == DOMAIN m \ refused
           n == Cardinality(places)
           c == Created(m, refused)
<1>1. c = Arranged(m, places, Ascending(places))
  BY DEF Created
<1>2. places \in SUBSET DOMAIN m /\ places \subseteq Nat
  OBVIOUS
<1>3. Orders(Ascending(places), places)
  BY <1>2, AscendingOf
<1> HIDE DEF places, c
<1>4. c \in Seq(Range(m)) /\ Len(c) = n /\ n \in Nat
  BY <1>1, <1>2, <1>3, ArrangedOf
<1>5. PICK at \in [1..n -> places] :
        /\ \A k, l \in 1..n : at[k] = at[l] => k = l
        /\ \A k \in 1..n : c[k] = m[at[k]]
  BY <1>1, <1>2, <1>3, ArrangedOf
<1> HIDE DEF n
<1>6. DOMAIN c = 1..n
  BY <1>4
<1>7. \A k, l \in DOMAIN c :
        k # l => \E i, j \in DOMAIN m : i # j /\ c[k] = m[i] /\ c[l] = m[j]
  <2> SUFFICES ASSUME NEW k \in 1..n, NEW l \in 1..n, k # l
               PROVE  \E i, j \in DOMAIN m : i # j /\ c[k] = m[i] /\ c[l] = m[j]
    BY <1>6
  <2>1. at[k] \in DOMAIN m /\ at[l] \in DOMAIN m /\ at[k] # at[l]
    BY <1>2, <1>5
  <2> QED BY <1>5, <2>1
<1>8. Range(c) \subseteq Range(m)
  BY <1>4, <1>6 DEF Range
<1> QED BY <1>4, <1>7, <1>8 DEF AreTaken, n, places, c

\* The group of a name is not empty, and has each of its rows once.
LEMMA GroupOf ==
  ASSUME NEW R, NEW rows \in Seq(R), Rowwise(rows), NEW name \in DOMAIN Groups(rows)
  PROVE  /\ Groups(rows)[name] \in Seq(R) /\ Len(Groups(rows)[name]) \in Nat \ {0}
         /\ Rowwise(Groups(rows)[name])
<1> DEFINE places == {i \in DOMAIN rows : rows[i].lastName = name}
           n == Cardinality(places)
           g == Arranged(rows, places, Ascending(places))
<1>1. /\ g = Arranged(rows, places, Ascending(places))
      /\ Groups(rows)[name] = g /\ places # {}
  BY DEF Groups, Filter, Range
<1>2. places \in SUBSET DOMAIN rows /\ places \subseteq Nat
  OBVIOUS
<1>3. Orders(Ascending(places), places)
  BY <1>2, AscendingOf
<1> HIDE DEF places, g
<1>4. g \in Seq(R) /\ Len(g) = n /\ n \in Nat
  BY <1>1, <1>2, <1>3, ArrangedOf
<1>5. PICK at \in [1..n -> places] :
        /\ \A i \in places : \E k \in 1..n : at[k] = i
        /\ \A k, l \in 1..n : at[k] = at[l] => k = l
        /\ \A k \in 1..n : g[k] = rows[at[k]]
  BY <1>1, <1>2, <1>3, ArrangedOf
<1> HIDE DEF n
<1>6. n # 0 /\ DOMAIN g = 1..n
  BY <1>1, <1>4, <1>5
<1>7. Rowwise(g)
  <2>1. \A k \in 1..n : at[k] \in DOMAIN rows
    BY <1>2, <1>5
  <2> QED BY <1>5, <1>6, <2>1 DEF Rowwise
<1> QED BY <1>1, <1>4, <1>6, <1>7

\* A family whose members have a name and an address may be made a household by whoever
\* may make one, and its checks recorded.
LEMMA ImportTaken ==
  ASSUME NEW name, NEW f, NEW role \in Roles, role # "advisor", NEW R, Members(f) \in Seq(R),
         Len(Members(f)) \in {1, 2},
         \A i \in DOMAIN Members(f) : Members(f)[i].email \in 1..MaxText /\ LastName(Members(f)[i]) = 4
  PROVE  Accepts(role, ImportConfirm(name, f, 11))
<1> DEFINE r == ImportConfirm(name, f, 11)
           members == [i \in DOMAIN Members(f) |->
                         [firstName |-> 3, lastName |-> LastName(Members(f)[i]),
                          email |-> Members(f)[i].email, phone |-> 10]]
<1>1. /\ r.action = "confirmIntent" /\ r.data.familyName = 4 /\ r.data.assignedAdvisor = 11
      /\ r.data.accounts = <<>> /\ r.data.members = members
  BY DEF ImportConfirm
<1>2. \A m \in Range(members) : \A field \in {"firstName", "lastName", "email", "phone"} :
        RequiredText(m[field], MaxText)
  <2> TAKE m \in Range(members)
  <2>1. PICK i \in DOMAIN Members(f) :
          m = [firstName |-> 3, lastName |-> LastName(Members(f)[i]),
               email |-> Members(f)[i].email, phone |-> 10]
    BY DEF Range
  <2>2. LastName(Members(f)[i]) = 4 /\ Members(f)[i].email \in 1..500
    BY DEF MaxText
  <2>3. /\ m["firstName"] = 3 /\ m["lastName"] = 4 /\ m["phone"] = 10
        /\ m["email"] \in 1..500
    BY <2>1, <2>2
  <2> TAKE field \in {"firstName", "lastName", "email", "phone"}
  <2>4. m[field] \in 1..500
    <3>1. CASE field = "firstName"
      BY <3>1, <2>3
    <3>2. CASE field = "lastName"
      BY <3>2, <2>3
    <3>3. CASE field = "email"
      BY <3>3, <2>3
    <3>4. CASE field = "phone"
      BY <3>4, <2>3
    <3> QED BY <3>1, <3>2, <3>3, <3>4
  <2> HIDE <2>1
  <2> QED BY <2>4 DEF RequiredText, MaxText
<1>3. RequiredList(members, 50)
  <2>1. DOMAIN members \subseteq 1..2
    OBVIOUS
  <2> HIDE DEF members
  <2>2. 2 \in Nat /\ 50 \in Nat /\ 2 <= 50
    OBVIOUS
  <2> QED BY <2>1, <2>2, ShortList
<1>4. RequiredList(<<>>, 20) /\ Range(<<>>) = {}
  <2>1. DOMAIN <<>> \subseteq 1..0 /\ 0 \in Nat /\ 20 \in Nat /\ 0 <= 20
    OBVIOUS
  <2> QED BY <2>1, ShortList DEF Range
<1> HIDE DEF members, r
<1>5. ValidConfirmIntent(r.data)
  BY <1>1, <1>2, <1>3, <1>4 DEF ValidConfirmIntent, RequiredText, OptionalText, MaxText
<1>6. MayRequest(role, "confirmIntent")
  BY DEF MayRequest, Roles
<1> QED BY <1>1, <1>5, <1>6 DEF Accepts, r

LEMMA ImportChecksTaken ==
  ASSUME NEW role \in Roles, role # "advisor", NEW n \in 1..100
  PROVE  Accepts(role, ImportChecks(n))
<1> DEFINE checks == [i \in 1..n |-> 40]
           r == ImportChecks(n)
<1>1. /\ r.action = "recordCompleteness" /\ r.data.householdId = TRUE /\ r.data.familyName = 4
      /\ r.data.checks = checks
  BY DEF ImportChecks
<1>2. RequiredList(checks, 100)
  <2>1. DOMAIN checks \subseteq 1..n /\ n \in Nat /\ n <= 100 /\ 100 \in Nat
    OBVIOUS
  <2> HIDE DEF checks
  <2> QED BY <2>1, ShortList
<1> HIDE DEF checks, r
<1>3. ValidRecordCompleteness(r.data)
  BY <1>1, <1>2 DEF ValidRecordCompleteness, RequiredText, MaxText, MaxList
<1>4. MayRequest(role, "recordCompleteness")
  BY DEF MayRequest, Roles
<1> QED BY <1>1, <1>3, <1>4 DEF Accepts, r

\* An advisor makes no household.
LEMMA AdvisorMakesNone ==
  ASSUME NEW name, NEW f
  PROVE  ~Accepts("advisor", ImportConfirm(name, f, 11))
<1>1. ImportConfirm(name, f, 11).action = "confirmIntent"
  BY DEF ImportConfirm
<1>2. ~MayRequest("advisor", "confirmIntent")
  BY DEF MayRequest, Reads
<1> QED BY <1>1, <1>2 DEF Accepts

\* What a scan finds missing of what an import recorded.
LEMMA ImportScanned ==
  ASSUME NEW text, NEW failing,
         text = (IF "workflow" \in failing THEN {} ELSE WorkflowText)
                  \union (IF "kyc" \in failing THEN {} ELSE CompletenessText(KycLabels))
                  \union (IF "review" \in failing THEN {} ELSE CompletenessText(ReviewLabels))
  PROVE  FailedBy(RunComplianceChecks([text |-> text, type |-> "unknown",
                                       olderThanAYear |-> FALSE], NoFirm)) = Missed(failing)
<1> DEFINE map == EffectiveKeywords(<<>>)
           failed == FailedBy(RunComplianceChecks([text |-> text, type |-> "unknown",
                                                   olderThanAYear |-> FALSE], NoFirm))
           none == {"workflow", "kyc", "review"} \subseteq failing
<1>1. failed = {id \in FirmChecks : ~Has(map, id, text)}
  BY FailedChecks DEF NoFirm
<1>2. \A id \in FirmChecks : Has(map, id, text) <=> \E w \in map[id] : w \in text
  <2>1. \A id \in FirmChecks : Has(map, id, text) <=> map[id] \intersect text # {}
    BY KeywordsOf DEF Has
  <2> QED BY <2>1
<1>3. \A w : w \in text <=>
        \/ "workflow" \notin failing /\ w \in WorkflowText
        \/ "kyc" \notin failing /\ w \in CompletenessText(KycLabels)
        \/ "review" \notin failing /\ w \in CompletenessText(ReviewLabels)
  OBVIOUS
<1> HIDE DEF map, failed
<1>4. /\ "form crs" \notin text /\ "client relationship summary" \notin text
      /\ "identity verified" \in text <=> "review" \notin failing
      /\ "gov id" \in text <=> "review" \notin failing
      /\ "docusign" \in text <=> "workflow" \notin failing
      /\ "docu" \in text <=> "workflow" \notin failing
      /\ "completeness" \in text <=> ~none
      /\ "kyc" \in text \/ "suitability" \in text <=> ~none
      /\ "risk" \in text \/ "investment objective" \in text \/ "suitability" \in text <=> ~none
  BY <1>3 DEF WorkflowText, CompletenessText, KycLabels, ReviewLabels
<1>5. /\ "form-crs" \in failed
      /\ "identity-verified" \in failed <=> "review" \in failing
      /\ "signatures" \in failed <=> "workflow" \in failing
  BY <1>1, <1>2, <1>4, KeywordsOf DEF map, FirmChecks
<1>6. /\ "kyc-profile" \in failed <=> none
      /\ "suitability-profile" \in failed <=> none
      /\ "completeness-check" \in failed <=> none
  BY <1>1, <1>2, <1>4, KeywordsOf DEF map, FirmChecks
<1>7. \A id \in failed : id \in FirmChecks
  BY <1>1
<1> HIDE DEF none
<1>8. \A id : id \in failed <=> id \in Missed(failing)
  BY <1>5, <1>6, <1>7 DEF Missed, FirmChecks, none
<1> QED BY <1>8 DEF failed

\* A family that is imported: reported as failed for a reason, or made as far as it was taken.
LEMMA FamilyReported ==
  ASSUME NEW name, NEW R, NEW g \in Seq(R), \A r \in R : r.row # 0 /\ r.email \in 0..MaxText,
         Len(g) # 0, Rowwise(g), NEW role \in Roles, NEW failing, NEW refused
  PROVE  MadeAsReported(g, RunFamily(name, Family(g), role, failing, refused),
                        role, failing, refused)
<1> DEFINE f == RunFamily(name, Family(g), role, failing, refused)
           members == Members(Family(g))
           taken == Accepts(role, ImportConfirm(name, Family(g), 11))
           workflow == IF "workflow" \in failing THEN FALSE ELSE TRUE
           kyc == "kyc" \notin failing /\ Accepts(role, ImportChecks(Len(members)))
           review == "review" \notin failing /\ Accepts(role, ImportChecks(5))
<1>0. Range(g) \subseteq R
  BY DEF Range
<1>1. /\ members \in Seq(Range(g)) /\ Len(members) \in {1, 2} /\ DOMAIN members = Sent(g)
      /\ \A k, l \in DOMAIN members : k # l => (members[k] = members[l] <=> Overlap(g))
  BY MembersOf
<1>2. /\ f.status = "error" => "confirmIntent" \in failing \/ ~taken
      /\ f.status = "done" =>
           /\ "confirmIntent" \notin failing /\ taken /\ f.contacts = Created(members, refused)
           /\ f.text = (IF workflow THEN WorkflowText ELSE {})
                         \union (IF kyc THEN CompletenessText(KycLabels) ELSE {})
                         \union (IF review THEN CompletenessText(ReviewLabels) ELSE {})
  BY DEF RunFamily
<1>3. role = "advisor" => ~taken
  BY AdvisorMakesNone
<1>4. (/\ role # "advisor"
       /\ \A r \in Range(g) : r.email # 0 /\ LastName(r) # 0) => taken
  <2> SUFFICES ASSUME role # "advisor", \A r \in Range(g) : r.email # 0 /\ LastName(r) # 0
               PROVE  taken
    OBVIOUS
  <2>1. \A i \in DOMAIN members : members[i] \in R /\ members[i] \in Range(g)
    <3> HIDE DEF members
    <3>1. \A i \in DOMAIN members : members[i] \in Range(g)
      BY <1>1
    <3> QED BY <1>0, <3>1
  <2>2. \A i \in DOMAIN members : members[i].email \in 1..MaxText
    BY <2>1 DEF MaxText
  <2>3. \A r : LastName(r) \in {0, 4}
    BY DEF LastName
  <2>4. \A i \in DOMAIN members : LastName(members[i]) = 4
    BY <2>1, <2>3
  <2> QED BY <1>1, <2>2, <2>4, ImportTaken
<1>5. f.status = "error" =>
        \/ \E r \in Range(g) : r.email = 0 \/ LastName(r) = 0
        \/ role = "advisor" \/ "confirmIntent" \in failing
  BY <1>2, <1>4
<1>6. role # "advisor" => (kyc <=> "kyc" \notin failing) /\ (review <=> "review" \notin failing)
  <2>1. Len(members) \in 1..100 /\ 5 \in 1..100
    BY <1>1
  <2> QED BY <2>1, ImportChecksTaken
<1> DEFINE failed == FailedBy(RunComplianceChecks([text |-> f.text, type |-> "unknown",
                                                   olderThanAYear |-> FALSE], NoFirm))
<1>7. f.status = "done" => failed = Missed(failing)
  <2> SUFFICES ASSUME f.status = "done" PROVE failed = Missed(failing)
    OBVIOUS
  <2>1. role # "advisor"
    BY <1>2, <1>3
  <2>2. (kyc <=> "kyc" \notin failing) /\ (review <=> "review" \notin failing)
    BY <1>6, <2>1
  <2>3. f.text = (IF workflow THEN WorkflowText ELSE {})
                   \union (IF kyc THEN CompletenessText(KycLabels) ELSE {})
                   \union (IF review THEN CompletenessText(ReviewLabels) ELSE {})
    BY <1>2
  <2>4. workflow <=> "workflow" \notin failing
    OBVIOUS
  <2> HIDE DEF f, workflow, kyc, review
  <2>5. f.text = (IF "workflow" \in failing THEN {} ELSE WorkflowText)
                   \union (IF "kyc" \in failing THEN {} ELSE CompletenessText(KycLabels))
                   \union (IF "review" \in failing THEN {} ELSE CompletenessText(ReviewLabels))
    BY <2>2, <2>3, <2>4
  <2> QED BY <2>5, ImportScanned
<1>8. f.status = "done" =>
        /\ Len(f.contacts) = Cardinality(Sent(g) \ refused)
        /\ Range(f.contacts) \subseteq Range(g)
        /\ \A i, j \in DOMAIN f.contacts : i # j => (f.contacts[i] = f.contacts[j] <=> Overlap(g))
  <2> SUFFICES ASSUME f.status = "done"
               PROVE  /\ Len(f.contacts) = Cardinality(Sent(g) \ refused)
                      /\ Range(f.contacts) \subseteq Range(g)
                      /\ \A i, j \in DOMAIN f.contacts :
                           i # j => (f.contacts[i] = f.contacts[j] <=> Overlap(g))
    OBVIOUS
  <2>1. f.contacts = Created(members, refused)
    BY <1>2
  <2> DEFINE c == Created(members, refused)
  <2> HIDE DEF f, members
  <2>2. AreTaken(c, members, refused)
    <3>1. members \in Seq(Range(members))
      BY <1>1 DEF Range
    <3> QED BY <3>1, CreatedOf
  <2> HIDE DEF c
  <2>3. \A k, l \in DOMAIN c : k # l => (c[k] = c[l] <=> Overlap(g))
    <3> TAKE k, l \in DOMAIN c
    <3> HAVE k # l
    <3>1. PICK i, j \in DOMAIN members : i # j /\ c[k] = members[i] /\ c[l] = members[j]
      BY <2>2 DEF AreTaken
    <3> QED BY <1>1, <3>1
  <2>4. Range(c) \subseteq Range(g)
    <3>1. Range(members) \subseteq Range(g)
      BY <1>1 DEF Range
    <3> QED BY <2>2, <3>1 DEF AreTaken
  <2>5. f.contacts = c /\ Len(c) = Cardinality(Sent(g) \ refused)
    BY <1>1, <2>1, <2>2 DEF AreTaken, c
  <2> QED BY <2>3, <2>4, <2>5
<1> HIDE DEF f, members, taken, workflow, kyc, review
<1>9. MadeAsReported(g, f, role, failing, refused)
  BY <1>5, <1>7, <1>8 DEF MadeAsReported, NoFirm
<1> QED BY <1>9 DEF f

\* Whatever the file, who imports it and what is refused: each family is reported as failed
\* for a reason, or has a client for each place that is not refused, of its own rows and both
\* the same exactly if they overlap; and what was not recorded is what a scan misses.
THEOREM ImportsAreReported ==
  ASSUME NEW R, NEW rows \in Seq(R), \A r \in R : r.row # 0 /\ r.email \in 0..MaxText,
         Rowwise(rows), NEW role \in Roles, NEW failing, NEW refused
  PROVE  Reported(rows, role, failing, refused)
<1> DEFINE groups == Groups(rows)
           result == RunBatch(rows, role, failing, refused)
<1>1. ASSUME NEW name \in DOMAIN groups
      PROVE  result[name] = RunFamily(name, Family(groups[name]), role, failing, refused)
  <2>1. DOMAIN Families(rows) = DOMAIN groups /\ Families(rows)[name] = Family(groups[name])
    BY DEF Families
  <2> HIDE DEF groups
  <2> QED BY <2>1 DEF RunBatch
<1>2. ASSUME NEW name \in DOMAIN groups
      PROVE  MadeAsReported(groups[name], result[name], role, failing, refused)
  <2> DEFINE g == groups[name]
  <2>1. g \in Seq(R) /\ Len(g) # 0 /\ Rowwise(g)
    BY <1>2, GroupOf
  <2>2. result[name] = RunFamily(name, Family(g), role, failing, refused)
    BY <1>1, <1>2
  <2> HIDE DEF g, result, groups
  <2>3. MadeAsReported(g, RunFamily(name, Family(g), role, failing, refused),
                       role, failing, refused)
    BY <2>1, FamilyReported
  <2> QED BY <2>2, <2>3 DEF g
<1> QED BY <1>2 DEF Reported

\* What is imported is such a file.
IsFile(rows) ==
  \E n \in Nat : /\ rows \in Seq({rows[i] : i \in 1..n}) /\ DOMAIN rows = 1..n
                 /\ \A i \in 1..n : rows[i].row = i /\ rows[i].email \in 0..MaxText
ImportInv == At("import") => input.role \in Roles /\ IsFile(input.rows)

LEMMA ImportInvariant == FiguresSpec => []ImportInv
<1>1. FiguresInit => ImportInv
  BY DEF FiguresInit, ImportInv, At
<1>2. ImportInv /\ [FiguresNext]_input => ImportInv'
  <2> SUFFICES ASSUME ImportInv, [FiguresNext]_input PROVE ImportInv'
    OBVIOUS
  <2>1. CASE ImportFile
    <3>1. PICK n \in 1..3 : \E rows \in [1..n -> Rows], role \in {"advisor", "operations"},
             failing \in {{}, {"confirmIntent"}, {"kyc"}, {"workflow", "review"}},
             refused \in SUBSET {1, 2} :
            /\ n = 3 => failing = {}
            /\ input' = [kind |-> "import", rows |-> ByRow(rows), role |-> role,
                         failing |-> failing, refused |-> refused]
      BY <2>1, Zenon DEF ImportFile
    <3>2. PICK rows \in [1..n -> Rows], role \in {"advisor", "operations"},
             failing \in {{}, {"confirmIntent"}, {"kyc"}, {"workflow", "review"}},
             refused \in SUBSET {1, 2} :
            input' = [kind |-> "import", rows |-> ByRow(rows), role |-> role,
                      failing |-> failing, refused |-> refused]
      BY <3>1, Zenon
    <3>3. role \in Roles
      BY DEF Roles
    <3> DEFINE r == ByRow(rows)
    <3>4. n \in Nat /\ DOMAIN rows = 1..n
      OBVIOUS
    <3>5. r = [i \in 1..n |-> [row |-> i, lastName |-> rows[i].lastName, role |-> rows[i].role,
                               email |-> rows[i].email]]
      BY <3>4 DEF ByRow
    <3>6. \A i \in 1..n : r[i].row = i /\ r[i].email = rows[i].email
      BY <3>5
    <3>7. \A i \in 1..n : rows[i].email \in {0, 12}
      BY DEF Rows
    <3> HIDE DEF r
    <3>8. r \in Seq({r[i] : i \in 1..n}) /\ DOMAIN r = 1..n
      BY <3>4, <3>5
    <3>9. \A i \in 1..n : r[i].row = i /\ r[i].email \in 0..MaxText
      <4> TAKE i \in 1..n
      <4>1. rows[i].email \in 0..500
        BY <3>7
      <4> QED BY <3>6, <4>1 DEF MaxText
    <3>10. input'.rows = ByRow(rows) /\ input'.role = role
      BY <3>2
    <3>11. input'.rows = r
      BY <3>10 DEF r
    <3>12. IsFile(r)
      BY <3>4, <3>8, <3>9 DEF IsFile
    <3> QED BY <3>3, <3>10, <3>11, <3>12 DEF ImportInv
  <2>2. CASE UNCHANGED input
    BY <2>2 DEF ImportInv, At
  <2> QED BY <2>1, <2>2, KindOf DEF FiguresNext, ImportInv, At
<1> QED BY <1>1, <1>2, PTL DEF FiguresSpec

\* An imported file is reported as what was made of it: whatever is reported as failed has a
\* reason, and what is made has its own clients but those Salesforce refused.
THEOREM ImportIsReportedHolds == FiguresSpec => []ImportIsReported
<1>1. ImportInv => ImportIsReported
  <2> SUFFICES ASSUME ImportInv, At("import") PROVE ImportIsReported
    BY DEF ImportIsReported
  <2>1. PICK n \in Nat :
          /\ input.rows \in Seq({input.rows[i] : i \in 1..n}) /\ DOMAIN input.rows = 1..n
          /\ \A i \in 1..n : input.rows[i].row = i /\ input.rows[i].email \in 0..MaxText
    BY DEF ImportInv, IsFile
  <2> DEFINE R == {input.rows[i] : i \in 1..n}
  <2>2. input.rows \in Seq(R) /\ \A r \in R : r.row # 0 /\ r.email \in 0..MaxText
    BY <2>1
  <2>3. Rowwise(input.rows)
    BY <2>1 DEF Rowwise
  <2>4. input.role \in Roles
    BY DEF ImportInv
  <2> HIDE DEF R
  <2>5. Reported(input.rows, input.role, input.failing, input.refused)
    BY <2>2, <2>3, <2>4, ImportsAreReported
  <2> QED BY <2>5 DEF ImportIsReported
<1> QED BY <1>1, ImportInvariant, PTL

-------------------------------------------------------------------------------
(* The home screen of an advisor. *)

\* The first so many of a list are of the list.
LEMMA FirstOfOf ==
  ASSUME NEW X, NEW s \in Seq(X), NEW n \in Nat
  PROVE  LET top == FirstOf(s, n)
         IN  /\ top \in Seq(X) /\ Len(top) = (IF Len(s) < n THEN Len(s) ELSE n)
             /\ \A i \in DOMAIN top : i \in DOMAIN s /\ top[i] = s[i]
<1> DEFINE m == IF Len(s) < n THEN Len(s) ELSE n
           top == FirstOf(s, n)
<1>1. m \in Nat /\ m <= Len(s)
  OBVIOUS
<1>2. top = SubSeq(s, 1, m)
  BY DEF FirstOf
<1> HIDE DEF m, top
<1>3. top \in Seq(X) /\ Len(top) = m
  BY <1>1, <1>2
<1>4. \A i \in DOMAIN top : i \in DOMAIN s /\ top[i] = s[i]
  BY <1>1, <1>2, <1>3
<1> QED BY <1>3, <1>4 DEF m, top

\* What the home screen has to show an advisor.
ShowsOwn(tasks, households, cfg, a) ==
  LET own == Filter(households, LAMBDA h : h.advisor = a)
      ids == {h.id : h \in Range(own)}
      mineOnly == Filter(tasks, LAMBDA t : t.household \in ids)
      mine == BuildHomeStats(tasks, households, a, cfg)
  IN  /\ mine = BuildHomeStats(mineOnly, own, NoOne, cfg)
      /\ mine.openItems \subseteq {t.id : t \in Range(mineOnly)}
      /\ mine.reviewItems \subseteq ids

\* The figures of an advisor are those of the advisor's book, shown to everybody; the items
\* and the households they list are of that book.
THEOREM BookIsOwn ==
  ASSUME NEW T, NEW tasks \in Seq(T), NEW H, NEW households \in Seq(H), NEW cfg,
         NEW a, a # NoOne
  PROVE  ShowsOwn(tasks, households, cfg, a)
<1> DEFINE places == {i \in DOMAIN households : households[i].advisor = a}
           own == Arranged(households, places, Ascending(places))
           ids == {h.id : h \in Range(own)}
           its == {i \in DOMAIN tasks : tasks[i].household \in ids}
           mineOnly == Arranged(tasks, its, Ascending(its))
           mine == BuildHomeStats(tasks, households, a, cfg)
           b == [tasks |-> mineOnly, households |-> own]
<1>1. ids = {own[i].id : i \in DOMAIN own}
  BY DEF Range
<1>2. Book(tasks, households, a) = b
  BY <1>1 DEF Book, Filter
<1>3. Book(mineOnly, own, NoOne) = b
  BY DEF Book
<1>4. own \in Seq(H) /\ mineOnly \in Seq(T)
  <2>1. places \in SUBSET DOMAIN households /\ its \in SUBSET DOMAIN tasks
    OBVIOUS
  <2> HIDE DEF places, its
  <2> QED BY <2>1, FilterOf
<1> HIDE DEF places, its, ids, own, mineOnly, b
<1>5. mine = BuildHomeStats(mineOnly, own, NoOne, cfg)
  BY <1>2, <1>3 DEF BuildHomeStats
<1>6. /\ mine.openItems = {FirstOf(Open(b), 20)[i].id : i \in DOMAIN FirstOf(Open(b), 20)}
      /\ mine.reviewItems =
           {FirstOf(Unreviewed(b), 20)[i].id : i \in DOMAIN FirstOf(Unreviewed(b), 20)}
  BY <1>2 DEF BuildHomeStats
<1>7. ASSUME NEW X, NEW list \in Seq(X), NEW some \in SUBSET DOMAIN list
      PROVE  LET top == FirstOf(Arranged(list, some, Ascending(some)), 20)
             IN  {top[i].id : i \in DOMAIN top} \subseteq {x.id : x \in Range(list)}
  <2> DEFINE L == Arranged(list, some, Ascending(some))
             top == FirstOf(L, 20)
  <2>1. L \in Seq(X) /\ Range(L) = {list[i] : i \in some}
    BY FilterOf
  <2> HIDE DEF L
  <2>2. \A i \in DOMAIN top : i \in DOMAIN L /\ top[i] = L[i]
    BY <2>1, FirstOfOf
  <2> HIDE DEF top
  <2>3. \A i \in DOMAIN top : top[i] \in Range(list)
    BY <2>1, <2>2 DEF Range
  <2>4. {top[i].id : i \in DOMAIN top} \subseteq {x.id : x \in Range(list)}
    BY <2>3
  <2> QED BY <2>4 DEF top, L
<1>8. b.tasks = mineOnly /\ b.households = own
  BY DEF b
<1>9. mine.openItems \subseteq {t.id : t \in Range(mineOnly)}
  <2> DEFINE some == {i \in DOMAIN mineOnly : IsOpen(mineOnly[i])}
  <2>1. Open(b) = Arranged(mineOnly, some, Ascending(some))
    BY <1>8 DEF Open, Filter
  <2>2. some \in SUBSET DOMAIN mineOnly
    OBVIOUS
  <2> HIDE DEF some
  <2> QED BY <1>4, <1>6, <1>7, <2>1, <2>2
<1>10. mine.reviewItems \subseteq ids
  <2> DEFINE some == {i \in DOMAIN own : own[i].name \notin ReviewedNames(b)}
  <2>1. Unreviewed(b) = Arranged(own, some, Ascending(some))
    BY <1>8 DEF Unreviewed, Filter
  <2>2. some \in SUBSET DOMAIN own
    OBVIOUS
  <2> HIDE DEF some
  <2>3. mine.reviewItems \subseteq {h.id : h \in Range(own)}
    BY <1>4, <1>6, <1>7, <2>1, <2>2
  <2> QED BY <2>3 DEF ids
<1>11. /\ mine = BuildHomeStats(mineOnly, own, NoOne, cfg)
       /\ mine.openItems \subseteq {t.id : t \in Range(mineOnly)}
       /\ mine.reviewItems \subseteq ids
  BY <1>5, <1>9, <1>10
<1> QED BY <1>11 DEF ShowsOwn, Filter, places, own, ids, its, mineOnly, mine

\* What the home screen and the dashboard are shown: lists, of few tasks due on whole days
\* and of households no two of which have one identifier, and balances that are numbers.
PracticeInv ==
  At("practice") =>
    /\ input.tasks \in Seq(Range(input.tasks)) /\ Len(input.tasks) <= 20
    /\ \A i \in DOMAIN input.tasks : input.tasks[i].due \in Int
    /\ input.households \in Seq(Range(input.households))
    /\ \A i, j \in DOMAIN input.households :
         input.households[i].id = input.households[j].id => i = j
    /\ IsFiniteSet(DOMAIN input.balances)
    /\ \A id \in DOMAIN input.balances : input.balances[id] \in Nat

\* The two households of a book.
LEMMA BooksOf == (\A h \in Book1 : h.id = "h1") /\ (\A h \in Book2 : h.id = "h2")
<1>1. ASSUME NEW h \in Book1 PROVE h.id = "h1"
  <2> DEFINE O == {NoOne, "o1"}
             jon == "Jon Cambras"
  <2>1. h \in {[id |-> "h1", name |-> "Ash", created |-> 10, advisor |-> jon, owner |-> o] :
                o \in O}
    BY DEF Book1
  <2> HIDE DEF O, jon
  <2> QED BY <2>1
<1>2. ASSUME NEW h \in Book2 PROVE h.id = "h2"
  <2> DEFINE N == {"Ash", "Birch"}
             A == Advisors \union {NoOne}
             O == {NoOne, "o2"}
  <2>1. h \in {[id |-> "h2", name |-> n, created |-> 70, advisor |-> a, owner |-> o] :
                n \in N, a \in A, o \in O}
    BY DEF Book2
  <2> HIDE DEF N, A, O
  <2> QED BY <2>1
<1> QED BY <1>1, <1>2

\* Every task of the book has a day, or the number for none.
LEMMA DuesOf == \A shape \in TaskShapes : shape[4] \in Int
<1> DEFINE review == "compliance review"
           meeting == "meeting note"
           envelope == "send docu"
           configured == "docusign configured"
           begun == "Not Started"
<1>1. \A shape \in {<<review, begun, "Normal", NoDate, 3>>,
                     <<meeting, "Completed", "Normal", -40, 40>>,
                     <<envelope, begun, "High", 0, 6>>,
                     <<envelope, "Completed", "High", 0, 12>>,
                     <<configured, "Completed", "Normal", NoDate, 6>>,
                     <<"follow-up", begun, "High", -8, 9>>,
                     <<"other", begun, "Normal", 1, 1>>} : shape[4] \in Int
  <2> HIDE DEF review, meeting, envelope, configured, begun
  <2> QED BY DEF NoDate
<1> QED BY <1>1 DEF TaskShapes

LEMMA PracticeInvariant == FiguresSpec => []PracticeInv
<1>1. FiguresInit => PracticeInv
  BY DEF FiguresInit, PracticeInv, At
<1>2. PracticeInv /\ [FiguresNext]_input => PracticeInv'
  <2> SUFFICES ASSUME PracticeInv, [FiguresNext]_input PROVE PracticeInv'
    OBVIOUS
  <2>1. CASE ShowPractice
    <3>1. PICK hs \in Books, shapes \in TaskShapes \X TaskShapes, n \in 0..2,
               balances \in Balances :
            \E on1, on2 \in {hs[1], hs[2], Elsewhere} :
              LET t(i, on) == Task(IF i = 1 THEN "t1" ELSE "t2", shapes[i][1], shapes[i][2],
                                   shapes[i][3], shapes[i][4], shapes[i][5], on)
              IN  /\ n < 2 => on2 = on1 /\ shapes[2] = shapes[1]
                  /\ input' = [kind |-> "practice", households |-> hs, balances |-> balances,
                               tasks |-> SubSeq(<<t(1, on1), t(2, on2)>>, 1, n)]
      BY <2>1, Zenon DEF ShowPractice
    <3>2. PICK t1, t2 :
            /\ input' = [kind |-> "practice", households |-> hs, balances |-> balances,
                         tasks |-> SubSeq(<<t1, t2>>, 1, n)]
            /\ t1.due = shapes[1][4] /\ t2.due = shapes[2][4]
      <4>1. PICK on1, on2 :
              LET t(i, on) == Task(IF i = 1 THEN "t1" ELSE "t2", shapes[i][1], shapes[i][2],
                                   shapes[i][3], shapes[i][4], shapes[i][5], on)
              IN  input' = [kind |-> "practice", households |-> hs, balances |-> balances,
                            tasks |-> SubSeq(<<t(1, on1), t(2, on2)>>, 1, n)]
        BY <3>1
      <4> DEFINE u1 == Task("t1", shapes[1][1], shapes[1][2], shapes[1][3], shapes[1][4],
                            shapes[1][5], on1)
                 u2 == Task("t2", shapes[2][1], shapes[2][2], shapes[2][3], shapes[2][4],
                            shapes[2][5], on2)
      <4>2. input' = [kind |-> "practice", households |-> hs, balances |-> balances,
                      tasks |-> SubSeq(<<u1, u2>>, 1, n)]
        BY <4>1
      <4>3. u1.due = shapes[1][4] /\ u2.due = shapes[2][4]
        BY DEF Task
      <4> HIDE DEF u1, u2
      <4> QED BY <4>2, <4>3
    <3>3. PICK h1, h2 : hs = <<h1, h2>> /\ h1.id = "h1" /\ h2.id = "h2"
      <4>1. hs[1] \in Book1 /\ hs[2] \in Book2 /\ hs = <<hs[1], hs[2]>>
        BY DEF Books
      <4>2. (\A h \in Book1 : h.id = "h1") /\ (\A h \in Book2 : h.id = "h2")
        BY BooksOf
      <4> QED BY <4>1, <4>2
    <3>4. hs \in Seq(Range(hs)) /\ \A i, j \in DOMAIN hs : hs[i].id = hs[j].id => i = j
      <4>1. hs \in Seq({h1, h2}) /\ DOMAIN hs = {1, 2} /\ hs[1] = h1 /\ hs[2] = h2
        BY <3>3
      <4>2. Range(hs) = {h1, h2}
        BY <4>1 DEF Range
      <4> QED BY <3>3, <4>1, <4>2
    <3> DEFINE ts == SubSeq(<<t1, t2>>, 1, n)
    <3>5. ts \in Seq(Range(ts)) /\ Len(ts) <= 20 /\ \A i \in DOMAIN ts : ts[i].due \in Int
      <4>1. ts \in Seq({t1, t2}) /\ Len(ts) <= 20
        OBVIOUS
      <4>2. t1.due \in Int /\ t2.due \in Int
        BY <3>2, DuesOf
      <4> HIDE DEF ts
      <4>3. \A i \in DOMAIN ts : ts[i] \in Range(ts) /\ ts[i] \in {t1, t2}
        BY <4>1 DEF Range
      <4> QED BY <4>1, <4>2, <4>3
    <3>6. IsFiniteSet(DOMAIN balances) /\ \A id \in DOMAIN balances : balances[id] \in Nat
      <4>1. PICK held \in SUBSET {"h1", "h2"} :
              balances = [id \in held |-> IF id = "h1" THEN 5 ELSE 3]
        BY DEF Balances
      <4>2. IsFiniteSet(held)
        <5>1. IsFiniteSet({"h1"} \union {"h2"})
          BY FS_Singleton, FS_AddElement
        <5>2. held \in SUBSET ({"h1"} \union {"h2"})
          OBVIOUS
        <5> QED BY <5>1, <5>2, FS_Subset
      <4> QED BY <4>1, <4>2
    <3> HIDE DEF ts
    <3>7. input'.households = hs /\ input'.balances = balances /\ input'.tasks = ts
      BY <3>2 DEF ts
    <3> QED BY <3>4, <3>5, <3>6, <3>7 DEF PracticeInv
  <2>2. CASE UNCHANGED input
    BY <2>2 DEF PracticeInv, At
  <2> QED BY <2>1, <2>2, KindOf DEF FiguresNext, PracticeInv, At
<1> QED BY <1>1, <1>2, PTL DEF FiguresSpec

\* The home screen of an advisor shows the advisor's book.
THEOREM OwnBookHolds == FiguresSpec => []OwnBook
<1>1. PracticeInv => OwnBook
  <2> SUFFICES ASSUME PracticeInv, At("practice"), NEW a \in Advisors
               PROVE  ShowsOwn(input.tasks, input.households,
                               LoadTriageConfig([triageCap |-> 3]), a)
    BY DEF OwnBook, ShowsOwn
  <2>1. a # NoOne
    BY DEF Advisors, NoOne
  <2>2. /\ input.tasks \in Seq(Range(input.tasks))
        /\ input.households \in Seq(Range(input.households))
    BY DEF PracticeInv
  <2> QED BY <2>1, <2>2, BookIsOwn
<1> QED BY <1>1, PracticeInvariant, PTL

-------------------------------------------------------------------------------
(* The parts of the dashboard. *)

\* What a function puts in one of its values.
PartOf(h, T, x) == {t \in T : h[t] = x}

\* A function's values as units.
UnitsOf(S, f) == UNION {{x} \X (1..f[x]) : x \in S}

\* The parts a finite set falls into have as many units as the set has elements.
LEMMA PartsOf ==
  ASSUME NEW S, NEW T, IsFiniteSet(T), NEW h \in [T -> S],
         NEW f, \A x \in S : f[x] = Cardinality(PartOf(h, T, x))
  PROVE  Cardinality(UnitsOf(S, f)) = Cardinality(T)
<1> DEFINE units == UnitsOf(S, f)
           Part(x) == PartOf(h, T, x)
           g == [x \in S |-> CHOOSE b : b \in Bijection(1..f[x], Part(x))]
           F == [u \in units |-> g[u[1]][u[2]]]
<1>1. ASSUME NEW x \in S
      PROVE  g[x] \in Bijection(1..f[x], Part(x))
  <2>1. Part(x) \in SUBSET T /\ f[x] = Cardinality(Part(x))
    BY DEF PartOf
  <2> HIDE DEF Part
  <2>2. IsFiniteSet(Part(x))
    BY <2>1, FS_Subset
  <2>3. ExistsBijection(1..f[x], Part(x))
    BY <2>1, <2>2, FS_CardinalityType
  <2>4. \E b : b \in Bijection(1..f[x], Part(x))
    BY <2>3, Fun_ExistsBij
  <2> QED BY <2>4
<1>2. ASSUME NEW x \in S
      PROVE  /\ \A k \in 1..f[x] : g[x][k] \in T /\ h[g[x][k]] = x
             /\ \A k, l \in 1..f[x] : g[x][k] = g[x][l] => k = l
             /\ \A t \in T : h[t] = x => \E k \in 1..f[x] : g[x][k] = t
  <2> DEFINE D == 1..f[x]
             P == Part(x)
             b == g[x]
  <2>1. b \in Bijection(D, P)
    BY <1>1
  <2>2. \A t : t \in P <=> t \in T /\ h[t] = x
    BY DEF PartOf
  <2> HIDE DEF b, D, P
  <2>3. /\ b \in [D -> P] /\ (\A k, l \in D : b[k] = b[l] => k = l)
        /\ \A t \in P : \E k \in D : b[k] = t
    BY <2>1, Fun_BijectionProperties
  <2>4. /\ \A k \in D : b[k] \in T /\ h[b[k]] = x
        /\ \A k, l \in D : b[k] = b[l] => k = l
        /\ \A t \in T : h[t] = x => \E k \in D : b[k] = t
    BY <2>2, <2>3
  <2> QED BY <2>4 DEF b, D
<1> HIDE DEF g
<1>3. \A u \in units : u[1] \in S /\ u[2] \in 1..f[u[1]] /\ u = <<u[1], u[2]>>
  BY DEF UnitsOf
<1>4. \A x \in S : \A k \in 1..f[x] : <<x, k>> \in units
  BY DEF UnitsOf
<1> HIDE DEF units
<1>5. \A u \in units : F[u] = g[u[1]][u[2]] /\ F[u] \in T /\ h[F[u]] = u[1]
  BY <1>2, <1>3
<1>6. F \in [units -> T]
  BY <1>5
<1>7. \A u, v \in units : F[u] = F[v] => u = v
  <2> TAKE u, v \in units
  <2> HAVE F[u] = F[v]
  <2>1. u[1] = v[1]
    BY <1>5
  <2>2. u[2] = v[2]
    BY <1>2, <1>3, <1>5, <2>1
  <2> QED BY <1>3, <2>1, <2>2
<1>8. \A t \in T : \E u \in units : F[u] = t
  <2> TAKE t \in T
  <2>1. h[t] \in S
    OBVIOUS
  <2>2. PICK k \in 1..f[h[t]] : g[h[t]][k] = t
    BY <1>2, <2>1
  <2>3. <<h[t], k>> \in units
    BY <1>4, <2>1
  <2>4. F[<<h[t], k>>] = t
    BY <2>2, <2>3
  <2> QED BY <2>3, <2>4
<1> HIDE DEF F
<1>9. F \in Bijection(units, T)
  BY <1>6, <1>7, <1>8, Fun_IsBij
<1>10. ExistsBijection(T, units)
  BY <1>9, Fun_ExistsBij, Fun_ExistsBijSymmetric
<1>11. Cardinality(units) = Cardinality(T)
  BY <1>10, FS_Bijection
<1> QED BY <1>11 DEF units

\* The households' names are finitely many.
LEMMA NamesOf ==
  ASSUME NEW H, NEW hs \in Seq(H)
  PROVE  /\ DOMAIN hs = 1..Len(hs) /\ IsFiniteSet(DOMAIN hs) /\ Cardinality(DOMAIN hs) = Len(hs)
         /\ IsFiniteSet(Names(hs)) /\ Names(hs) = {hs[i].name : i \in DOMAIN hs}
<1> DEFINE D == DOMAIN hs
           N == {hs[i].name : i \in D}
           f == [i \in D |-> hs[i].name]
<1>1. D = 1..Len(hs) /\ Len(hs) \in Nat
  OBVIOUS
<1>2. Names(hs) = N
  BY DEF Names, Range
<1>3. f \in [D -> N] /\ \A n \in N : \E i \in D : f[i] = n
  OBVIOUS
<1> HIDE DEF D, f, N
<1>4. IsFiniteSet(D) /\ Cardinality(D) = Len(hs)
  BY <1>1, UpTo
<1>5. f \in Surjection(D, N)
  BY <1>3, Fun_IsSurj
<1>6. IsFiniteSet(N)
  BY <1>4, <1>5, FS_Surjection
<1> QED BY <1>1, <1>2, <1>4, <1>6 DEF D, N

\* Each household is paid to one advisor.
LEMMA RevenueAddsUp ==
  ASSUME NEW H, NEW hs \in Seq(H)
  PROVE  LET revenue == RevenuePerAdvisor(hs)
         IN  SumOver(DOMAIN revenue, LAMBDA a : revenue[a]) = Len(hs)
<1> DEFINE by == AssignAdvisors(hs)
           D == DOMAIN hs
           S == Range(by)
           h == [i \in D |-> by[hs[i].name]]
           f == RevenuePerAdvisor(hs)
<1>1. DOMAIN by = Names(hs)
  BY DEF AssignAdvisors
<1>2. f = [a \in S |-> Cardinality({i \in D : by[hs[i].name] = a})]
  BY DEF RevenuePerAdvisor
<1> HIDE DEF by, f
<1>3. h \in [D -> S]
  BY <1>1, NamesOf DEF Range
<1>4. \A a \in S : f[a] = Cardinality(PartOf(h, D, a))
  <2> TAKE a \in S
  <2>1. {i \in D : by[hs[i].name] = a} = PartOf(h, D, a)
    BY DEF PartOf
  <2> HIDE DEF h
  <2> QED BY <1>2, <2>1
<1>5. IsFiniteSet(D) /\ Cardinality(D) = Len(hs)
  BY NamesOf
<1>6. DOMAIN f = S
  BY <1>2
<1> HIDE DEF D, S, h
<1>7. Cardinality(UnitsOf(S, f)) = Len(hs)
  BY <1>3, <1>4, <1>5, PartsOf
<1> QED BY <1>6, <1>7 DEF SumOver, Units, UnitsOf, f

\* Each name is in one stage.
LEMMA StagesAddUp ==
  ASSUME NEW H, NEW hs \in Seq(H), NEW tasks
  PROVE  LET pipeline == Pipeline(tasks, hs)
         IN  SumOver(1..5, LAMBDA i : pipeline[i].count) = Cardinality(Names(hs))
<1> DEFINE N == Names(hs)
           h == [n \in N |-> CHOOSE i \in 1..5 : Stages[i] = StageOf(tasks, n)]
           pipeline == Pipeline(tasks, hs)
           f == [i \in 1..5 |-> pipeline[i].count]
<1>1. \A i \in 1..5 : pipeline[i].count = Cardinality({n \in N : StageOf(tasks, n) = Stages[i]})
  BY DEF Pipeline
<1>2. \A n : \E i \in 1..5 : Stages[i] = StageOf(tasks, n)
  <2>1. /\ 1 \in 1..5 /\ 2 \in 1..5 /\ 3 \in 1..5 /\ 4 \in 1..5 /\ 5 \in 1..5
        /\ Stages[1] = "onboarded" /\ Stages[2] = "sent" /\ Stages[3] = "signed"
        /\ Stages[4] = "compliance" /\ Stages[5] = "active"
    BY DEF Stages
  <2>2. \A n : StageOf(tasks, n) \in {"onboarded", "sent", "signed", "compliance", "active"}
    BY DEF StageOf
  <2> QED BY <2>1, <2>2
<1>3. \A i, j \in 1..5 : Stages[i] = Stages[j] => i = j
  BY DEF Stages
<1> HIDE DEF pipeline, N
<1>4. \A n \in N : h[n] \in 1..5 /\ Stages[h[n]] = StageOf(tasks, n)
  BY <1>2
<1>5. h \in [N -> 1..5]
  BY <1>4
<1>6. \A i \in 1..5 : f[i] = Cardinality(PartOf(h, N, i))
  <2> TAKE i \in 1..5
  <2> HIDE DEF h
  <2>1. {n \in N : StageOf(tasks, n) = Stages[i]} = PartOf(h, N, i)
    BY <1>3, <1>4 DEF PartOf
  <2>2. f[i] = pipeline[i].count
    OBVIOUS
  <2> QED BY <1>1, <2>1, <2>2
<1>7. IsFiniteSet(N)
  BY NamesOf DEF N
<1> DEFINE S == 1..5
<1>8. \A i \in S : f[i] = pipeline[i].count
  OBVIOUS
<1> HIDE DEF h, f
<1>9. Cardinality(UnitsOf(S, f)) = Cardinality(N)
  <2>1. h \in [N -> S] /\ \A i \in S : f[i] = Cardinality(PartOf(h, N, i))
    BY <1>5, <1>6
  <2> HIDE DEF S
  <2> QED BY <1>7, <2>1, PartsOf
<1>10. UnitsOf(S, f) = UNION {{x} \X (1..pipeline[x].count) : x \in S}
  <2>1. \A x \in S : {x} \X (1..f[x]) = {x} \X (1..pipeline[x].count)
    BY <1>8
  <2> HIDE DEF S
  <2> QED BY <2>1 DEF UnitsOf
<1> QED BY <1>9, <1>10 DEF SumOver, Units, pipeline, N
\* The places of a list where something of a set is.
PlacesOf(list, O) == {i \in DOMAIN list : list[i] \in O}

\* Of what passes one test, how much passes another.
LEMMA NestedOf ==
  ASSUME NEW X, NEW list \in Seq(X), NEW P \in SUBSET DOMAIN list, NEW O
  PROVE  LET L == Arranged(list, P, Ascending(P))
             Q == PlacesOf(L, O)
         IN  Len(Arranged(L, Q, Ascending(Q))) = Cardinality(P \intersect PlacesOf(list, O))
<1> DEFINE n == Cardinality(P)
           L == Arranged(list, P, Ascending(P))
           Q == PlacesOf(L, O)
           M == P \intersect PlacesOf(list, O)
<1>1. P \subseteq Nat
  OBVIOUS
<1>2. Orders(Ascending(P), P)
  BY <1>1, AscendingOf
<1>3. n \in Nat /\ L \in Seq(X) /\ Len(L) = n
  BY <1>2, ArrangedOf
<1>4. PICK at \in [1..n -> P] :
        /\ \A i \in P : \E k \in 1..n : at[k] = i
        /\ \A k, l \in 1..n : at[k] = at[l] => k = l
        /\ \A k \in 1..n : L[k] = list[at[k]]
  BY <1>2, ArrangedOf
<1> HIDE DEF L, n
<1>5. DOMAIN L = 1..n
  BY <1>3
<1>6. Q \in SUBSET DOMAIN L /\ Q \in SUBSET (1..n)
  BY <1>5 DEF PlacesOf
<1>7. Len(Arranged(L, Q, Ascending(Q))) = Cardinality(Q)
  <2> HIDE DEF Q
  <2> QED BY <1>3, <1>6, FilterOf
<1>8. Cardinality(Q) = Cardinality(M)
  <2> DEFINE f == [k \in Q |-> at[k]]
  <2>1. \A k \in Q : f[k] = at[k] /\ k \in 1..n /\ at[k] \in M
    BY <1>4, <1>5 DEF PlacesOf
  <2>2. \A i \in M : \E k \in Q : at[k] = i
    BY <1>4, <1>5 DEF PlacesOf
  <2> HIDE DEF Q, M
  <2>3. f \in [Q -> M]
    BY <2>1
  <2>4. (\A k, l \in Q : f[k] = f[l] => k = l) /\ (\A i \in M : \E k \in Q : f[k] = i)
    BY <1>4, <2>1, <2>2
  <2> HIDE DEF f
  <2>5. f \in Bijection(Q, M)
    BY <2>3, <2>4, Fun_IsBij
  <2>6. IsFiniteSet(Q)
    BY <1>3, <1>6, UpTo, FS_Subset
  <2> QED BY <2>5, <2>6, Fun_ExistsBij, FS_Bijection
<1> QED BY <1>7, <1>8 DEF L, Q

\* Each open task of a name that is listed is one advisor's.
LEMMA OpenTasksAddUp ==
  ASSUME NEW H, NEW hs \in Seq(H), NEW X, NEW tasks \in Seq(X)
  PROVE  LET score == Scoreboard(tasks, hs)
             listed == Filter(tasks, LAMBDA t : t.name \in Names(hs))
         IN  SumOver(DOMAIN score, LAMBDA a : score[a].open) = Len(OpenTasks(listed))
<1> DEFINE by == AssignAdvisors(hs)
           N == Names(hs)
           S == Range(KnownAdvisors) \union Range(by)
           score == Scoreboard(tasks, hs)
           O == {x \in X : IsOpen(x)}
           Bearing(own) == {i \in DOMAIN tasks : tasks[i].name \in own}
           Part(own) == Arranged(tasks, Bearing(own), Ascending(Bearing(own)))
           T == Bearing(N) \intersect PlacesOf(tasks, O)
           h == [i \in T |-> by[tasks[i].name]]
           f == [a \in S |-> score[a].open]
<1>1. DOMAIN by = N
  BY DEF AssignAdvisors
<1>2. ASSUME NEW own
      PROVE  Len(OpenTasks(Part(own))) = Cardinality(Bearing(own) \intersect PlacesOf(tasks, O))
  <2> DEFINE P == Bearing(own)
             L == Arranged(tasks, P, Ascending(P))
             Q == {k \in DOMAIN L : IsOpen(L[k])}
  <2>1. P \in SUBSET DOMAIN tasks
    OBVIOUS
  <2>2. OpenTasks(L) = Arranged(L, Q, Ascending(Q))
    BY DEF OpenTasks, Filter
  <2> HIDE DEF P
  <2>3. L \in Seq(X)
    BY <2>1, FilterOf
  <2> HIDE DEF L
  <2>4. Q = PlacesOf(L, O)
    BY <2>3 DEF PlacesOf
  <2> HIDE DEF Q, O
  <2>5. Len(Arranged(L, Q, Ascending(Q))) = Cardinality(P \intersect PlacesOf(tasks, O))
    BY <2>1, <2>4, NestedOf DEF L
  <2> QED BY <2>2, <2>5 DEF P, L
<1>3. /\ DOMAIN score = S
      /\ \A a \in S : score[a].open = Len(OpenTasks(Part({n \in N : by[n] = a})))
  BY <1>1 DEF Scoreboard, Filter
<1> HIDE DEF by, score, Part, O
<1>4. T \in SUBSET DOMAIN tasks /\ \A i \in T : tasks[i].name \in N
  OBVIOUS
<1>5. IsFiniteSet(T)
  <2> HIDE DEF T
  <2> QED BY <1>4, NamesOf, FS_Subset
<1>6. h \in [T -> S]
  <2> HIDE DEF T, N
  <2> QED BY <1>1, <1>4 DEF Range
<1>7. ASSUME NEW a \in S
      PROVE  f[a] = Cardinality(PartOf(h, T, a))
  <2> DEFINE own == {n \in N : by[n] = a}
  <2>1. \A i \in T : h[i] = by[tasks[i].name]
    OBVIOUS
  <2>2. Bearing(own) \intersect PlacesOf(tasks, O) = PartOf(h, T, a)
    <3> HIDE DEF h
    <3> QED BY <2>1 DEF PartOf
  <2>3. f[a] = Len(OpenTasks(Part(own)))
    BY <1>3
  <2> QED BY <1>2, <2>2, <2>3
<1>8. \A a \in S : f[a] = score[a].open
  OBVIOUS
<1> HIDE DEF S, h, f
<1>9. Cardinality(UnitsOf(S, f)) = Cardinality(T)
  <2> HIDE DEF T
  <2> QED BY <1>5, <1>6, <1>7, PartsOf
<1>10. SumOver(DOMAIN score, LAMBDA a : score[a].open) = Cardinality(UnitsOf(S, f))
  <2>1. UnitsOf(S, f) = UNION {{a} \X (1..score[a].open) : a \in S}
    <3>1. \A a \in S : {a} \X (1..f[a]) = {a} \X (1..score[a].open)
      BY <1>8
    <3> QED BY <3>1 DEF UnitsOf
  <2> QED BY <1>3, <2>1 DEF SumOver, Units
<1>11. Len(OpenTasks(Part(N))) = Cardinality(T)
  BY <1>2
<1> QED BY <1>9, <1>10, <1>11 DEF Filter, Part, score

\* The units of numbers over a finite set are finitely many.
LEMMA UnitsFinite ==
  ASSUME NEW S, IsFiniteSet(S), NEW f, \A x \in S : f[x] \in Nat
  PROVE  IsFiniteSet(UnitsOf(S, f))
<1> DEFINE P(x) == {x} \X (1..f[x])
           Q == {P(x) : x \in S}
           g == [x \in S |-> P(x)]
<1>1. \A x \in S : IsFiniteSet(P(x))
  <2> TAKE x \in S
  <2>1. IsFiniteSet({x}) /\ IsFiniteSet(1..f[x])
    BY FS_Singleton, UpTo
  <2> QED BY <2>1, FS_Product
<1>2. UnitsOf(S, f) = UNION Q
  BY DEF UnitsOf
<1> HIDE DEF P
<1>3. g \in [S -> Q] /\ \A q \in Q : \E x \in S : g[x] = q
  OBVIOUS
<1>4. \A q \in Q : IsFiniteSet(q)
  BY <1>1
<1> HIDE DEF g, Q
<1>5. IsFiniteSet(Q)
  BY <1>3, Fun_IsSurj, FS_Surjection
<1> QED BY <1>2, <1>4, <1>5, FS_UNION

\* A set is as large as one it is matched with.
LEMMA Matched ==
  ASSUME NEW S, IsFiniteSet(S), NEW T, NEW F \in [S -> T],
         \A x, y \in S : F[x] = F[y] => x = y, \A t \in T : \E x \in S : F[x] = t
  PROVE  IsFiniteSet(T) /\ Cardinality(T) = Cardinality(S)
<1>1. F \in Bijection(S, T)
  BY Fun_IsBij
<1> QED BY <1>1, Fun_ExistsBij, FS_Bijection

\* Of names that differ each has one household.
LEMMA HouseholdOf ==
  ASSUME NEW H, NEW hs \in Seq(H), Cardinality(Names(hs)) = Len(hs)
  PROVE  \A i \in DOMAIN hs : /\ hs[i].name \in Names(hs)
                              /\ Max({j \in DOMAIN hs : hs[j].name = hs[i].name}) = i
<1> DEFINE D == DOMAIN hs
           N == Names(hs)
           f == [i \in D |-> hs[i].name]
<1>1. IsFiniteSet(D) /\ Cardinality(D) = Len(hs) /\ N = {hs[i].name : i \in D} /\ D \subseteq Nat
  BY NamesOf
<1>2. \A i \in D : f[i] = hs[i].name
  OBVIOUS
<1> HIDE DEF N, D
<1>3. f \in [D -> N] /\ \A n \in N : \E i \in D : f[i] = n
  BY <1>1
<1> HIDE DEF f
<1>4. f \in Surjection(D, N)
  BY <1>3, Fun_IsSurj
<1>5. f \in Injection(D, N)
  <2>1. Cardinality(D) = Cardinality(N)
    BY <1>1 DEF N
  <2> QED BY <1>1, <1>4, <2>1, FS_SurjSameCardinalityImpliesInj
<1>6. \A i, j \in D : f[i] = f[j] => i = j
  BY <1>5, Fun_InjectionProperties
<1>7. ASSUME NEW i \in D
      PROVE  Max({j \in D : hs[j].name = hs[i].name}) = i
  <2>1. {j \in D : hs[j].name = hs[i].name} = {i}
    BY <1>2, <1>6
  <2>2. i >= i
    BY <1>1
  <2> QED BY <2>1, <2>2 DEF Max
<1>8. \A i \in D : hs[i].name \in N
  BY <1>1
<1> QED BY <1>7, <1>8 DEF D, N

\* Every household's assets, its balance or the estimate, are of one advisor.
LEMMA AssetsAddUp ==
  ASSUME NEW H, NEW hs \in Seq(H), NEW balances, IsFiniteSet(DOMAIN balances),
         \A id \in DOMAIN balances : balances[id] \in Nat,
         \A i, j \in DOMAIN hs : hs[i].id = hs[j].id => i = j,
         Cardinality(Names(hs)) = Len(hs),
         DOMAIN balances \subseteq {hs[i].id : i \in DOMAIN hs}
  PROVE  LET aum == AdvisorAum(hs, balances)
         IN  SumOver(DOMAIN aum, LAMBDA a : aum[a]) = AumCoverage(hs, balances).blended
<1> DEFINE by == AssignAdvisors(hs)
           D == DOMAIN hs
           N == Names(hs)
           S == Range(by)
           at(n) == Max({i \in D : hs[i].name = n})
           bal(n) == Balance(balances, hs[at(n)].id)
           v == [n \in N |-> IF bal(n) > 0 THEN bal(n) ELSE 2]
           U == UnitsOf(N, v)
           h == [u \in U |-> by[u[1]]]
           aum == AdvisorAum(hs, balances)
<1>1. DOMAIN by = N
  BY DEF AssignAdvisors
<1>2. aum = [a \in S |-> Cardinality(UNION {{n} \X (1..(IF bal(n) > 0 THEN bal(n) ELSE 2)) :
                                             n \in {m \in N : by[m] = a}})]
  BY <1>1 DEF AdvisorAum, SumOver, Units, AverageAum
<1>3. /\ IsFiniteSet(D) /\ IsFiniteSet(N) /\ D \subseteq Nat
      /\ \A n \in N : \E i \in D : hs[i].name = n
  BY NamesOf
<1>4. \A i \in D : hs[i].name \in N /\ at(hs[i].name) = i
  BY HouseholdOf
<1>5. \A n \in N : at(n) \in D /\ hs[at(n)].name = n
  <2> HIDE DEF at, N, D
  <2> QED BY <1>3, <1>4
<1>6. \A id : Balance(balances, id) \in Nat
  BY DEF Balance
<1>7. \A n \in N : bal(n) \in Nat /\ v[n] \in Nat /\ v[n] = (IF bal(n) > 0 THEN bal(n) ELSE 2)
  BY <1>6
<1> HIDE DEF by, aum, at, bal, v
<1>8. IsFiniteSet(U)
  BY <1>3, <1>7, UnitsFinite
<1>9. \A u \in U : u[1] \in N /\ u[2] \in 1..v[u[1]] /\ u = <<u[1], u[2]>>
  BY DEF UnitsOf
<1>10. \A n \in N : \A k \in 1..v[n] : <<n, k>> \in U
  BY DEF UnitsOf
<1>11. h \in [U -> S]
  <2> HIDE DEF U
  <2> QED BY <1>1, <1>9 DEF Range
<1>12. \A a \in S : aum[a] = Cardinality(PartOf(h, U, a))
  <2> TAKE a \in S
  <2> DEFINE own == {m \in N : by[m] = a}
             W == UNION {{n} \X (1..(IF bal(n) > 0 THEN bal(n) ELSE 2)) : n \in own}
  <2>1. aum[a] = Cardinality(W)
    BY <1>2
  <2>2. ASSUME NEW w \in W
        PROVE  w \in PartOf(h, U, a)
    <3>1. PICK n \in own : w \in {n} \X (1..v[n])
      BY <1>7
    <3>2. w = <<n, w[2]>> /\ w[1] = n /\ w \in U
      BY <1>10, <3>1
    <3> QED BY <3>1, <3>2 DEF PartOf
  <2>3. ASSUME NEW u \in PartOf(h, U, a)
        PROVE  u \in W
    <3>1. u \in U /\ by[u[1]] = a
      BY DEF PartOf
    <3>2. u[1] \in own /\ u \in {u[1]} \X (1..v[u[1]])
      BY <1>9, <3>1
    <3>3. u \in {u[1]} \X (1..(IF bal(u[1]) > 0 THEN bal(u[1]) ELSE 2))
      BY <1>7, <3>2
    <3> HIDE DEF own
    <3> QED BY <3>2, <3>3
  <2>4. W = PartOf(h, U, a)
    BY <2>2, <2>3
  <2> QED BY <2>1, <2>4
<1>13. DOMAIN aum = S
  BY <1>2
<1> HIDE DEF h, S
<1>14. Cardinality(UnitsOf(S, aum)) = Cardinality(U)
  <2> HIDE DEF U
  <2> QED BY <1>8, <1>11, <1>12, PartsOf
<1>15. SumOver(DOMAIN aum, LAMBDA a : aum[a]) = Cardinality(UnitsOf(S, aum))
  BY <1>13 DEF SumOver, Units, UnitsOf
<1> DEFINE U1 == {u \in U : bal(u[1]) > 0}
           U2 == {u \in U : ~(bal(u[1]) > 0)}
           A == UnitsOf(DOMAIN balances, balances)
           W == {i \in D : Balance(balances, hs[i].id) = 0}
           B == W \X (1..2)
<1> HIDE DEF U
<1>16. IsFiniteSet(U1) /\ IsFiniteSet(U2) /\ Cardinality(U) = Cardinality(U1) + Cardinality(U2)
  <2>1. U1 \in SUBSET U /\ U2 \in SUBSET U /\ U1 \union U2 = U /\ U1 \intersect U2 = {}
    OBVIOUS
  <2> HIDE DEF U1, U2
  <2>2. IsFiniteSet(U1) /\ IsFiniteSet(U2)
    BY <1>8, <2>1, FS_Subset
  <2>3. Cardinality(U1) \in Nat /\ Cardinality(U2) \in Nat
    BY <2>2, FS_CardinalityType
  <2>4. Cardinality(U1 \union U2) = Cardinality(U1) + Cardinality(U2) - Cardinality(U1 \intersect U2)
    BY <2>2, FS_Union
  <2>5. Cardinality(U1 \intersect U2) = 0
    BY <2>1, FS_EmptySet
  <2>6. Cardinality(U) = Cardinality(U1) + Cardinality(U2) - 0
    BY <2>1, <2>4, <2>5
  <2>7. \A k, l \in Nat : k + l - 0 = k + l
    OBVIOUS
  <2> QED BY <2>2, <2>3, <2>6, <2>7
<1>17. \A n \in N : bal(n) = Balance(balances, hs[at(n)].id)
  BY DEF bal
<1>18. Cardinality(A) = Cardinality(U1)
  <2> DEFINE F == [u \in U1 |-> <<hs[at(u[1])].id, u[2]>>]
  <2>1. \A u \in U1 : /\ u[1] \in N /\ u = <<u[1], u[2]>>
                      /\ hs[at(u[1])].id \in DOMAIN balances
                      /\ u[2] \in 1..balances[hs[at(u[1])].id]
    BY <1>7, <1>9, <1>17 DEF Balance
  <2>2. \A u \in U1 : <<hs[at(u[1])].id, u[2]>> \in A
    <3> HIDE DEF U1
    <3> QED BY <2>1 DEF UnitsOf
  <2>3. F \in [U1 -> A]
    <3> HIDE DEF U1, A
    <3> QED BY <2>2
  <2>4. ASSUME NEW x \in U1, NEW y \in U1, F[x] = F[y]
        PROVE  x = y
    <3>1. hs[at(x[1])].id = hs[at(y[1])].id /\ x[2] = y[2]
      BY <2>4
    <3>2. at(x[1]) = at(y[1])
      BY <1>5, <2>1, <3>1
    <3>3. x[1] = y[1]
      BY <1>5, <2>1, <3>2
    <3> QED BY <2>1, <3>1, <3>3
  <2>5. ASSUME NEW t \in A
        PROVE  \E u \in U1 : F[u] = t
    <3>1. t[1] \in DOMAIN balances /\ t[2] \in 1..balances[t[1]] /\ t = <<t[1], t[2]>>
      BY DEF UnitsOf
    <3>2. PICK i \in D : hs[i].id = t[1]
      BY <3>1
    <3> DEFINE n == hs[i].name
    <3>3. n \in N /\ at(n) = i
      BY <1>4
    <3>4. bal(n) = balances[t[1]] /\ bal(n) > 0
      BY <1>7, <1>17, <3>1, <3>2, <3>3 DEF Balance
    <3>5. <<n, t[2]>> \in U
      BY <1>7, <1>10, <3>1, <3>3, <3>4
    <3> HIDE DEF n
    <3>6. <<n, t[2]>> \in U1
      BY <3>4, <3>5
    <3>7. F[<<n, t[2]>>] = t
      BY <3>1, <3>2, <3>3, <3>6
    <3> QED BY <3>6, <3>7
  <2> HIDE DEF F, U1, A
  <2> QED BY <1>16, <2>3, <2>4, <2>5, Matched
<1>19. Cardinality(B) = Cardinality(U2)
  <2> DEFINE F == [u \in U2 |-> <<at(u[1]), u[2]>>]
  <2>1. \A u \in U2 : /\ u[1] \in N /\ u = <<u[1], u[2]>>
                      /\ at(u[1]) \in W /\ u[2] \in 1..2
    BY <1>5, <1>7, <1>9, <1>17
  <2>2. F \in [U2 -> B]
    <3> HIDE DEF U2, W
    <3> QED BY <2>1
  <2>3. ASSUME NEW x \in U2, NEW y \in U2, F[x] = F[y]
        PROVE  x = y
    <3>1. at(x[1]) = at(y[1]) /\ x[2] = y[2]
      BY <2>3
    <3>2. x[1] = y[1]
      BY <1>5, <2>1, <3>1
    <3> QED BY <2>1, <3>1, <3>2
  <2>4. ASSUME NEW t \in B
        PROVE  \E u \in U2 : F[u] = t
    <3>1. t[1] \in W /\ t[2] \in 1..2 /\ t = <<t[1], t[2]>>
      OBVIOUS
    <3> DEFINE n == hs[t[1]].name
    <3>2. n \in N /\ at(n) = t[1]
      BY <1>4, <3>1
    <3>3. bal(n) = 0
      BY <1>17, <3>1, <3>2
    <3>4. <<n, t[2]>> \in U
      BY <1>7, <1>10, <3>1, <3>2, <3>3
    <3> HIDE DEF n
    <3>5. <<n, t[2]>> \in U2
      BY <3>3, <3>4
    <3>6. F[<<n, t[2]>>] = t
      BY <3>1, <3>2, <3>5
    <3> QED BY <3>5, <3>6
  <2> HIDE DEF F, U2, B
  <2> QED BY <1>16, <2>2, <2>3, <2>4, Matched
<1>20. Cardinality(W) \in Nat /\ Cardinality(B) = Cardinality(W) * 2
  <2>1. W \in SUBSET D
    OBVIOUS
  <2> HIDE DEF W
  <2>2. IsFiniteSet(W) /\ IsFiniteSet(1..2) /\ Cardinality(1..2) = 2
    BY <1>3, <2>1, UpTo, FS_Subset
  <2> QED BY <2>2, FS_Product, FS_CardinalityType
<1>21. AumCoverage(hs, balances).blended = Cardinality(A) + Cardinality(W) * 2
  BY DEF AumCoverage, Total, Without, SumOver, Units, UnitsOf, AverageAum
<1> HIDE DEF A, B, W, U1, U2
<1>22. SumOver(DOMAIN aum, LAMBDA a : aum[a]) = AumCoverage(hs, balances).blended
  <2>1. Cardinality(U1) \in Nat /\ Cardinality(U2) \in Nat
    BY <1>16, FS_CardinalityType
  <2>2. Cardinality(UnitsOf(S, aum)) = Cardinality(A) + Cardinality(W) * 2
    BY <1>14, <1>16, <1>18, <1>19, <1>20, <2>1
  <2> QED BY <1>15, <1>21, <2>2
<1> QED BY <1>22 DEF aum

\* What has to be true of the dashboard's parts.
AddsUp(tasks, hs, balances) ==
  LET ids == {h.id : h \in Range(hs)}
      revenue == RevenuePerAdvisor(hs)
      aum == AdvisorAum(hs, balances)
      score == Scoreboard(tasks, hs)
      listed == Filter(tasks, LAMBDA t : t.name \in Names(hs))
      pipeline == Pipeline(tasks, hs)
  IN  /\ SumOver(DOMAIN revenue, LAMBDA a : revenue[a]) = Len(hs)
      /\ SumOver(1..5, LAMBDA i : pipeline[i].count) = Cardinality(Names(hs))
      /\ SumOver(DOMAIN score, LAMBDA a : score[a].open) = Len(OpenTasks(listed))
      /\ Cardinality(Names(hs)) = Len(hs) /\ DOMAIN balances \subseteq ids =>
           SumOver(DOMAIN aum, LAMBDA a : aum[a]) = AumCoverage(hs, balances).blended

\* Of any tasks, households and balances: the parts add up to the totals.
THEOREM PartsAddUp ==
  ASSUME NEW X, NEW tasks \in Seq(X), NEW H, NEW hs \in Seq(H),
         NEW balances, IsFiniteSet(DOMAIN balances),
         \A id \in DOMAIN balances : balances[id] \in Nat,
         \A i, j \in DOMAIN hs : hs[i].id = hs[j].id => i = j
  PROVE  AddsUp(tasks, hs, balances)
<1> DEFINE revenue == RevenuePerAdvisor(hs)
           aum == AdvisorAum(hs, balances)
           score == Scoreboard(tasks, hs)
           pipeline == Pipeline(tasks, hs)
           bearing == {i \in DOMAIN tasks : tasks[i].name \in Names(hs)}
           listed == Arranged(tasks, bearing, Ascending(bearing))
           payments == UNION {{a} \X (1..revenue[a]) : a \in DOMAIN revenue}
           stages == UNION {{i} \X (1..pipeline[i].count) : i \in 1..5}
           open == UNION {{a} \X (1..score[a].open) : a \in DOMAIN score}
           assets == UNION {{a} \X (1..aum[a]) : a \in DOMAIN aum}
<1>1. Cardinality(payments) = Len(hs)
  BY RevenueAddsUp DEF SumOver, Units
<1>2. Cardinality(stages) = Cardinality(Names(hs))
  BY StagesAddUp DEF SumOver, Units
<1>3. Cardinality(open) = Len(OpenTasks(listed))
  BY OpenTasksAddUp DEF SumOver, Units, Filter
<1>4. Cardinality(Names(hs)) = Len(hs) /\ DOMAIN balances \subseteq {h.id : h \in Range(hs)} =>
        Cardinality(assets) = AumCoverage(hs, balances).blended
  <2>1. {h.id : h \in Range(hs)} = {hs[i].id : i \in DOMAIN hs}
    BY DEF Range
  <2> QED BY <2>1, AssetsAddUp DEF SumOver, Units
<1> HIDE DEF revenue, aum, score, pipeline
<1> QED BY <1>1, <1>2, <1>3, <1>4 DEF AddsUp, SumOver, Units, Filter, revenue, aum, score, pipeline

\* The dashboard's parts add up to its totals.
THEOREM FiguresAddUpHolds == FiguresSpec => []FiguresAddUp
<1>1. PracticeInv => FiguresAddUp
  <2> SUFFICES ASSUME PracticeInv, At("practice")
               PROVE  AddsUp(input.tasks, input.households, input.balances)
    BY DEF FiguresAddUp, AddsUp
  <2> QED BY PartsAddUp DEF PracticeInv
<1> QED BY <1>1, PracticeInvariant, PTL

-------------------------------------------------------------------------------
(* Lists of lists: what is filtered twice, whole lists, and lists turned round. *)

\* A set is listed in an order in one way.
LEMMA ListedOnce ==
  ASSUME NEW S, NEW before, Orders(before, S), NEW n \in Nat, NEW g \in [1..n -> S],
         \A x \in S : \E k \in 1..n : g[k] = x,
         \A k, l \in 1..n : k < l => <<g[k], g[l]>> \in before
  PROVE  n = Cardinality(S) /\ InOrder(S, before) = g
<1> DEFINE D == 1..n
           Below(x) == {y \in S : <<y, x>> \in before}
<1>1. IsFiniteSet(D) /\ Cardinality(D) = n
  BY UpTo
<1>2. \A k, l \in D : g[k] = g[l] => k = l
  <2> TAKE k, l \in D
  <2> HAVE g[k] = g[l]
  <2>1. g[k] \in S /\ <<g[k], g[k]>> \notin before
    BY DEF Orders
  <2>2. ~(k < l) /\ ~(l < k)
    BY <2>1
  <2> QED BY <2>2
<1>3. IsFiniteSet(S) /\ Cardinality(S) = n
  <2> HIDE DEF D
  <2>1. g \in [D -> S] /\ \A x \in S : \E k \in D : g[k] = x
    BY DEF D
  <2>2. IsFiniteSet(D)
    BY <1>1
  <2>3. IsFiniteSet(S) /\ Cardinality(S) = Cardinality(D)
    BY ONLY <1>2, <2>1, <2>2, Matched, SMTT(60)
  <2> QED BY <1>1, <2>3
<1>4. ASSUME NEW k \in D
      PROVE  Cardinality(Below(g[k])) = k - 1
  <2> DEFINE E == 1..(k - 1)
             f == [j \in E |-> g[j]]
             B == Below(g[k])
  <2>1. k - 1 \in Nat /\ E \subseteq D /\ \A j \in E : j < k
    OBVIOUS
  <2>2. IsFiniteSet(E) /\ Cardinality(E) = k - 1
    <3> DEFINE m == k - 1
    <3>1. m \in Nat
      BY <2>1
    <3> HIDE DEF m
    <3>2. IsFiniteSet(1..m) /\ Cardinality(1..m) = m
      BY <3>1, UpTo
    <3> QED BY <3>2 DEF m
  <2>3. \A j \in E : g[j] \in B
    BY <2>1
  <2>4. ASSUME NEW x \in B PROVE \E j \in E : g[j] = x
    <3>1. PICK j \in D : g[j] = x
      OBVIOUS
    <3>2. <<g[j], g[k]>> \in before
      BY <3>1
    <3>3. j < k
      <4>1. g[j] \in S /\ g[k] \in S
        OBVIOUS
      <4>2. <<g[k], g[j]>> \notin before /\ g[j] # g[k]
        BY <3>2, <4>1 DEF Orders
      <4>3. ~(k < j) /\ j # k
        BY <4>2
      <4> QED BY <4>3
    <3> QED BY <3>1, <3>3
  <2> HIDE DEF B
  <2>5. f \in [E -> B]
    BY <2>3
  <2>6. \A i, j \in E : f[i] = f[j] => i = j
    BY <1>2, <2>1
  <2>7. \A x \in B : \E j \in E : f[j] = x
    BY <2>4
  <2> HIDE DEF E, f
  <2>8. Cardinality(B) = Cardinality(E)
    BY <2>2, <2>5, <2>6, <2>7, Matched
  <2> QED BY <2>2, <2>8 DEF B
<1>5. \A k \in D : (CHOOSE x \in S : Cardinality(Below(x)) = k - 1) = g[k]
  <2> TAKE k \in D
  <2>1. g[k] \in S /\ Cardinality(Below(g[k])) = k - 1
    BY <1>4
  <2>2. ASSUME NEW x \in S, Cardinality(Below(x)) = k - 1 PROVE x = g[k]
    <3>1. PICK j \in D : g[j] = x
      OBVIOUS
    <3>2. j - 1 = k - 1
      BY <1>4, <2>2, <3>1
    <3>3. j = k
      BY <3>2
    <3> QED BY <3>1, <3>3
  <2> HIDE DEF Below
  <2> QED BY <2>1, <2>2
<1>6. InOrder(S, before) = [k \in D |-> CHOOSE x \in S : Cardinality(Below(x)) = k - 1]
  BY <1>3 DEF InOrder
<1>7. g = [k \in D |-> g[k]]
  OBVIOUS
<1> HIDE DEF Below, D
<1> QED BY <1>3, <1>5, <1>6, <1>7

\* What of a list is in a set.
Among(list, O) == Arranged(list, PlacesOf(list, O), Ascending(PlacesOf(list, O)))

\* It is what the list and the set have in common.
LEMMA AmongOf ==
  ASSUME NEW X, NEW list \in Seq(X), NEW O
  PROVE  /\ Among(list, O) \in Seq(X) /\ Len(Among(list, O)) = Cardinality(PlacesOf(list, O))
         /\ Len(Among(list, O)) <= Len(list) /\ Range(Among(list, O)) = Range(list) \intersect O
<1> DEFINE P == PlacesOf(list, O)
<1>1. P \in SUBSET DOMAIN list
  BY DEF PlacesOf
<1>2. {list[i] : i \in P} = Range(list) \intersect O
  BY DEF PlacesOf, Range
<1> HIDE DEF P
<1>3. LET L == Arranged(list, P, Ascending(P))
      IN  /\ L \in Seq(X) /\ Len(L) = Cardinality(P) /\ Len(L) <= Len(list)
          /\ Range(L) = {list[i] : i \in P}
  BY <1>1, FilterOf
<1> QED BY <1>2, <1>3 DEF Among, P

\* Numbers that list the places, one after the other; and what is there.
ListsPlaces(at, n, list, O) ==
  /\ n \in Nat /\ at \in [1..n -> PlacesOf(list, O)]
  /\ \A i \in PlacesOf(list, O) : \E k \in 1..n : at[k] = i
  /\ \A k, l \in 1..n : k < l => at[k] < at[l]
ThoseAt(list, at, n) == [k \in 1..n |-> list[at[k]]]

LEMMA AmongAt ==
  ASSUME NEW X, NEW list \in Seq(X), NEW O
  PROVE  \E at, n : ListsPlaces(at, n, list, O) /\ Among(list, O) = ThoseAt(list, at, n)
<1> DEFINE P == PlacesOf(list, O)
           n == Cardinality(P)
           at == InOrder(P, Ascending(P))
<1>1. P \in SUBSET DOMAIN list /\ P \subseteq Nat
  BY DEF PlacesOf
<1>2. IsFiniteSet(P)
  BY <1>1, NamesOf, FS_Subset
<1>3. Orders(Ascending(P), P)
  BY <1>1, AscendingOf
<1>4. \A i, j : <<i, j>> \in Ascending(P) => i < j
  BY DEF Ascending
<1> HIDE DEF P
<1>5. /\ n \in Nat /\ at \in Bijection(1..n, P)
      /\ \A k, l \in 1..n : k < l => <<at[k], at[l]>> \in Ascending(P)
  BY <1>2, <1>3, InOrderOf
<1> HIDE DEF at
<1> DEFINE D == 1..n
<1>6. at \in [D -> P] /\ \A i \in P : \E k \in D : at[k] = i
  <2>1. at \in Bijection(D, P)
    BY <1>5
  <2> HIDE DEF D
  <2> QED BY <2>1, Fun_BijectionProperties
<1>7. \A k, l \in D : k < l => at[k] < at[l]
  BY <1>4, <1>5
<1>8. Among(list, O) = ThoseAt(list, at, n)
  <2>1. DOMAIN at = D
    BY <1>6
  <2>2. Among(list, O) = [k \in DOMAIN at |-> list[at[k]]]
    BY DEF Among, Arranged, P, at
  <2> QED BY <2>1, <2>2 DEF ThoseAt
<1>9. ListsPlaces(at, n, list, O)
  BY <1>5, <1>6, <1>7 DEF ListsPlaces, D, P
<1> QED BY <1>8, <1>9

LEMMA AmongIs ==
  ASSUME NEW X, NEW list \in Seq(X), NEW O, NEW n, NEW g, ListsPlaces(g, n, list, O)
  PROVE  Among(list, O) = ThoseAt(list, g, n)
<1> DEFINE P == PlacesOf(list, O)
           before == Ascending(P)
<1>1. P \subseteq Nat
  BY DEF PlacesOf
<1>2. Orders(before, P)
  BY <1>1, AscendingOf
<1>3. \A k, l \in 1..n : k < l => <<g[k], g[l]>> \in before
  BY DEF Ascending, ListsPlaces
<1> HIDE DEF P, before
<1>4. n \in Nat /\ g \in [1..n -> P] /\ \A i \in P : \E k \in 1..n : g[k] = i
  BY DEF P, ListsPlaces
<1>5. InOrder(P, before) = g
  BY <1>2, <1>3, <1>4, ListedOnce
<1> QED BY <1>4, <1>5 DEF Among, Arranged, ThoseAt, P, before

\* What is taken of what was taken.
LEMMA AmongTwice ==
  ASSUME NEW X, NEW list \in Seq(X), NEW O, NEW Q
  PROVE  Among(Among(list, O), Q) = Among(list, O \intersect Q)
<1> DEFINE L == Among(list, O)
<1>1. PICK at, n : ListsPlaces(at, n, list, O) /\ L = ThoseAt(list, at, n)
  BY AmongAt
<1>2. L \in Seq(X)
  BY AmongOf
<1> HIDE DEF L
<1>3. PICK aq, m : ListsPlaces(aq, m, L, Q) /\ Among(L, Q) = ThoseAt(L, aq, m)
  BY <1>2, AmongAt
<1>4. DOMAIN L = 1..n /\ \A k \in 1..n : L[k] = list[at[k]]
  BY <1>1 DEF ThoseAt
<1> DEFINE g == [k \in 1..m |-> at[aq[k]]]
           M == PlacesOf(list, O \intersect Q)
<1>5. \A k \in 1..m : aq[k] \in 1..n /\ L[aq[k]] \in Q
  BY <1>3, <1>4 DEF PlacesOf, ListsPlaces
<1>6. \A k \in 1..m : g[k] = at[aq[k]] /\ g[k] \in M /\ list[g[k]] = L[aq[k]]
  BY <1>1, <1>4, <1>5 DEF PlacesOf, ListsPlaces
<1>7. \A i \in M : \E k \in 1..m : g[k] = i
  <2> TAKE i \in M
  <2>1. i \in PlacesOf(list, O) /\ list[i] \in Q
    BY DEF PlacesOf
  <2>2. PICK k \in 1..n : at[k] = i
    BY <1>1, <2>1 DEF ListsPlaces
  <2>3. k \in PlacesOf(L, Q)
    BY <1>4, <2>1, <2>2 DEF PlacesOf
  <2>4. PICK j \in 1..m : aq[j] = k
    BY <1>3, <2>3 DEF ListsPlaces
  <2> QED BY <1>6, <2>2, <2>4
<1>8. \A k, l \in 1..m : k < l => g[k] < g[l]
  BY <1>1, <1>3, <1>5, <1>6 DEF ListsPlaces
<1>9. g \in [1..m -> M]
  BY <1>6
<1> HIDE DEF g, M
<1>10. ListsPlaces(g, m, list, O \intersect Q)
  BY <1>3, <1>7, <1>8, <1>9 DEF M, ListsPlaces
<1>11. Among(list, O \intersect Q) = ThoseAt(list, g, m)
  BY <1>10, AmongIs
<1>12. ThoseAt(list, g, m) = ThoseAt(L, aq, m)
  BY <1>6 DEF ThoseAt
<1> QED BY <1>3, <1>11, <1>12 DEF L

\* Of a list all of which is in the set all is taken.
LEMMA AmongAll ==
  ASSUME NEW X, NEW list \in Seq(X), NEW O, \A i \in DOMAIN list : list[i] \in O
  PROVE  Among(list, O) = list
<1> DEFINE n == Len(list)
           g == [k \in 1..n |-> k]
<1>1. n \in Nat /\ DOMAIN list = 1..n
  OBVIOUS
<1>2. PlacesOf(list, O) = 1..n
  BY <1>1 DEF PlacesOf
<1>3. \A k \in 1..n : g[k] = k
  OBVIOUS
<1>4. g \in [1..n -> PlacesOf(list, O)] /\ \A i \in PlacesOf(list, O) : \E k \in 1..n : g[k] = i
  BY <1>2
<1>5. \A k, l \in 1..n : k < l => g[k] < g[l]
  BY <1>3
<1> HIDE DEF g, n
<1>6. Among(list, O) = ThoseAt(list, g, n)
  BY <1>1, <1>4, <1>5, AmongIs DEF ListsPlaces
<1>7. list = ThoseAt(list, g, n)
  BY <1>1, <1>3 DEF ThoseAt
<1> QED BY <1>6, <1>7

\* A list turned round has the same elements, as often.
LEMMA ReverseOf ==
  ASSUME NEW X, NEW list \in Seq(X)
  PROVE  LET r == Reverse(list)
         IN  /\ r \in Seq(X) /\ Len(r) = Len(list) /\ DOMAIN r = DOMAIN list
             /\ \A k \in DOMAIN r : Len(list) - k + 1 \in DOMAIN list /\ r[k] = list[Len(list) - k + 1]
             /\ Range(r) = Range(list) /\ Reverse(r) = list
             /\ \A O : Cardinality(PlacesOf(r, O)) = Cardinality(PlacesOf(list, O))
<1> DEFINE n == Len(list)
           r == Reverse(list)
<1>1. n \in Nat /\ DOMAIN list = 1..n /\ list = [i \in 1..n |-> list[i]]
  OBVIOUS
<1>2. r = [i \in 1..n |-> list[(n - i) + 1]]
  BY DEF Reverse
<1>3. \A i \in 1..n : n - i + 1 \in 1..n /\ n - (n - i + 1) + 1 = i
  BY <1>1
<1> HIDE DEF r, n
<1>4. r \in Seq(X) /\ Len(r) = n /\ DOMAIN r = 1..n
  <2>1. \A i \in 1..n : list[(n - i) + 1] \in X
    BY <1>1, <1>3
  <2> DEFINE s == [i \in 1..n |-> list[(n - i) + 1]]
  <2>2. n \in Nat
    BY <1>1
  <2>3. s \in Seq(X) /\ Len(s) = n /\ DOMAIN s = 1..n
    BY <2>1, <2>2
  <2> QED BY <1>2, <2>3
<1>5. \A k \in 1..n : r[k] = list[n - k + 1]
  BY <1>2
<1>6. Range(r) = Range(list)
  <2>1. \A k \in 1..n : r[k] \in Range(list)
    BY <1>1, <1>3, <1>5 DEF Range
  <2>2. \A i \in 1..n : list[i] = r[n - i + 1]
    BY <1>3, <1>5
  <2>3. \A i \in 1..n : list[i] \in Range(r)
    BY <1>3, <1>4, <2>2 DEF Range
  <2> QED BY <1>1, <1>4, <2>1, <2>3 DEF Range
<1>7. Reverse(r) = list
  <2>1. Reverse(r) = [i \in 1..n |-> r[(n - i) + 1]]
    BY <1>4 DEF Reverse
  <2>2. \A i \in 1..n : r[(n - i) + 1] = list[i]
    BY <1>3, <1>5
  <2> QED BY <1>1, <2>1, <2>2
<1>8. ASSUME NEW O
      PROVE  Cardinality(PlacesOf(r, O)) = Cardinality(PlacesOf(list, O))
  <2> DEFINE P == PlacesOf(list, O)
             Q == PlacesOf(r, O)
             F == [i \in P |-> n - i + 1]
  <2>1. P \in SUBSET DOMAIN list /\ Q \subseteq 1..n
    BY <1>4 DEF PlacesOf
  <2>2. IsFiniteSet(P)
    BY <2>1, NamesOf, FS_Subset
  <2>3. \A i \in P : n - i + 1 \in Q
    BY <1>1, <1>3, <1>4, <1>5 DEF PlacesOf
  <2>4. \A k \in Q : n - k + 1 \in P
    BY <1>1, <1>3, <1>4, <1>5 DEF PlacesOf
  <2>5. P \subseteq 1..n
    BY <1>1, <2>1
  <2> HIDE DEF P, Q
  <2>6. F \in [P -> Q]
    BY <2>3
  <2>7. \A i, j \in P : F[i] = F[j] => i = j
    BY <1>1, <2>5
  <2>8. \A k \in Q : \E i \in P : F[i] = k
    BY <1>3, <2>1, <2>4
  <2> HIDE DEF F
  <2> QED BY <2>2, <2>6, <2>7, <2>8, Matched DEF P, Q
<1> QED BY <1>1, <1>3, <1>4, <1>5, <1>6, <1>7, <1>8 DEF r, n

\* Sorted by a number that goes down along a list, the list is turned round.
LEMMA SortedDown ==
  ASSUME NEW X, NEW list \in Seq(X), NEW before,
         \A i, j \in DOMAIN list : <<i, j>> \in before <=> j < i
  PROVE  Arranged(list, DOMAIN list, before) = Reverse(list)
<1> DEFINE n == Len(list)
           D == DOMAIN list
           g == [k \in 1..n |-> n - k + 1]
<1>1. n \in Nat /\ D = 1..n
  OBVIOUS
<1>2. Orders(before, D)
  <2>1. \A i, j, k \in D : ~(i < i) /\ (i < j /\ j < k => i < k) /\ (i = j \/ i < j \/ j < i)
    OBVIOUS
  <2> HIDE DEF D
  <2> QED BY <2>1 DEF Orders, D
<1>3. \A k \in 1..n : n - k + 1 \in 1..n /\ n - (n - k + 1) + 1 = k
  BY <1>1
<1>4. \A k \in 1..n : g[k] = n - k + 1
  OBVIOUS
<1> HIDE DEF n, D
<1>5. g \in [1..n -> D]
  BY <1>1, <1>3
<1>6. \A i \in D : \E k \in 1..n : g[k] = i
  BY <1>1, <1>3, <1>4
<1>7. \A k, l \in 1..n : k < l => g[l] < g[k]
  BY <1>1, <1>4
<1> HIDE DEF g
<1>8. \A k, l \in 1..n : k < l => <<g[k], g[l]>> \in before
  BY <1>5, <1>7 DEF D
<1>9. InOrder(D, before) = g
  <2>1. n \in Nat /\ \A i \in D : \E k \in 1..n : g[k] = i
    BY <1>1, <1>6
  <2> QED BY <1>2, <1>5, <1>8, <2>1, ListedOnce, SMTT(60)
<1>10. Arranged(list, D, before) = [k \in 1..n |-> list[g[k]]]
  BY <1>5, <1>9 DEF Arranged
<1>11. Reverse(list) = [k \in 1..n |-> list[(n - k) + 1]]
  BY DEF Reverse, n
<1> QED BY <1>4, <1>10, <1>11 DEF D

-------------------------------------------------------------------------------
(* The lists of the task manager. *)

\* The identifiers of a list's elements, and of its first few.
IdsOf(s) == {t.id : t \in Range(s)}
FirstIds(s, n) == LET top == FirstOf(s, n) IN {top[i].id : i \in DOMAIN top}

LEMMA FirstIdsOf ==
  ASSUME NEW X, NEW s \in Seq(X), NEW n \in Nat
  PROVE  FirstIds(s, n) \subseteq IdsOf(s) /\ (Len(s) <= n => FirstIds(s, n) = IdsOf(s))
<1> DEFINE top == FirstOf(s, n)
<1>1. /\ top \in Seq(X) /\ Len(top) = (IF Len(s) < n THEN Len(s) ELSE n)
      /\ \A i \in DOMAIN top : i \in DOMAIN s /\ top[i] = s[i]
  BY FirstOfOf
<1> HIDE DEF top
<1>2. Len(s) <= n => DOMAIN top = DOMAIN s
  BY <1>1
<1>3. FirstIds(s, n) = {top[i].id : i \in DOMAIN top} /\ IdsOf(s) = {s[i].id : i \in DOMAIN s}
  BY DEF FirstIds, IdsOf, Range, top
<1> QED BY <1>1, <1>2, <1>3

\* The open and the overdue tasks of a list.
OpenOf(T) == {t \in T : IsOpen(t)}
OverdueOf(T) == {t \in T : IsOverdue(t)}

\* What the home screen lists of all the tasks, if they are few.
LEMMA HomeOf ==
  ASSUME NEW X, NEW tasks \in Seq(X), Len(tasks) <= 20, NEW households, NEW cfg
  PROVE  LET home == BuildHomeStats(tasks, households, NoOne, cfg)
         IN  /\ home.openItems = {t.id : t \in OpenOf(Range(tasks))}
             /\ home.overdueItems = {t.id : t \in OverdueOf(Range(tasks))}
<1> DEFINE home == BuildHomeStats(tasks, households, NoOne, cfg)
           b == [tasks |-> tasks, households |-> households]
           T == Range(tasks)
<1>1. Book(tasks, households, NoOne) = b /\ b.tasks = tasks
  BY DEF Book
<1> HIDE DEF b
<1>2. home.openItems = FirstIds(Open(b), 20) /\ home.overdueItems = FirstIds(Overdue(b), 20)
  BY <1>1 DEF BuildHomeStats, FirstIds
<1>3. \A i \in DOMAIN tasks : tasks[i] \in T
  BY DEF Range
<1> HIDE DEF T, home
<1>4. Open(b) = Among(tasks, OpenOf(T))
  <2> DEFINE Q == {i \in DOMAIN tasks : IsOpen(tasks[i])}
  <2>1. Open(b) = Arranged(tasks, Q, Ascending(Q))
    BY <1>1 DEF Open, Filter
  <2>2. Q = PlacesOf(tasks, OpenOf(T))
    BY <1>3 DEF PlacesOf, OpenOf
  <2> QED BY <2>1, <2>2 DEF Among
<1>5. Overdue(b) = Among(tasks, OverdueOf(T))
  <2> DEFINE Q == {i \in DOMAIN tasks : IsOverdue(tasks[i])}
  <2>1. Overdue(b) = Arranged(tasks, Q, Ascending(Q))
    BY <1>1 DEF Overdue, Filter
  <2>2. Q = PlacesOf(tasks, OverdueOf(T))
    BY <1>3 DEF PlacesOf, OverdueOf
  <2> QED BY <2>1, <2>2 DEF Among
<1>6. ASSUME NEW O
      PROVE  FirstIds(Among(tasks, O), 20) = {t.id : t \in Range(tasks) \intersect O}
  <2> DEFINE L == Among(tasks, O)
  <2>1. L \in Seq(X) /\ Len(L) <= Len(tasks) /\ Range(L) = Range(tasks) \intersect O
    BY AmongOf
  <2> HIDE DEF L
  <2>2. Len(L) <= 20
    BY <2>1
  <2>3. FirstIds(L, 20) = IdsOf(L)
    BY <2>1, <2>2, FirstIdsOf
  <2> QED BY <2>1, <2>3 DEF IdsOf, L
<1>7. T \intersect OpenOf(T) = OpenOf(T) /\ T \intersect OverdueOf(T) = OverdueOf(T)
  BY DEF OpenOf, OverdueOf
<1>8. FirstIds(Open(b), 20) = {t.id : t \in OpenOf(T)}
  BY <1>4, <1>6, <1>7 DEF T
<1>9. FirstIds(Overdue(b), 20) = {t.id : t \in OverdueOf(T)}
  BY <1>5, <1>6, <1>7 DEF T
<1>10. /\ home.openItems = {t.id : t \in OpenOf(T)}
       /\ home.overdueItems = {t.id : t \in OverdueOf(T)}
  BY <1>2, <1>8, <1>9
<1> QED BY <1>10 DEF T, home

\* What the task manager's lists have to say of the home screen's items.
ListsAccount(tasks, households, cfg, day, behindUTC, done) ==
  LET home == BuildHomeStats(tasks, households, NoOne, cfg)
      items == {t \in Range(tasks) : t.id \in home.openItems}
      Count(type) == TypeCount(items, done, type)
      In(bucket) == InBucket(NotDone(items, done), bucket, day, behindUTC)
  IN  /\ home.overdueItems \ done \subseteq {t.id : t \in In("overdue") \union In("today")}
      /\ SumOver(Buckets, LAMBDA b : Cardinality(In(b))) = Count("all")
      /\ SumOver((Pills \ {"all"}) \union {"goal", "followup"}, LAMBDA p : Count(p)) = Count("all")

\* An item is in one bucket and of one type.
BucketUnits(items, day, behindUTC) ==
  Units(Buckets, LAMBDA b : Cardinality(InBucket(items, b, day, behindUTC)))
LEMMA BucketsAddUp ==
  ASSUME NEW items, IsFiniteSet(items), NEW day, NEW behindUTC
  PROVE  Cardinality(BucketUnits(items, day, behindUTC)) = Cardinality(items)
<1> DEFINE h == [t \in items |-> GetBucket(t, day, behindUTC)]
           In(b) == InBucket(items, b, day, behindUTC)
           f == [b \in Buckets |-> Cardinality(In(b))]
<1>1. \A t : GetBucket(t, day, behindUTC) \in Buckets
  BY DEF GetBucket, Buckets
<1>2. h \in [items -> Buckets]
  BY <1>1
<1>3. \A b \in Buckets : In(b) = PartOf(h, items, b)
  BY DEF PartOf, InBucket
<1> HIDE DEF In
<1>4. \A b \in Buckets : f[b] = Cardinality(In(b))
  OBVIOUS
<1> HIDE DEF f, h
<1>5. Cardinality(UnitsOf(Buckets, f)) = Cardinality(items)
  BY <1>2, <1>3, <1>4, PartsOf
<1>6. UnitsOf(Buckets, f) = UNION {{b} \X (1..Cardinality(In(b))) : b \in Buckets}
  <2>1. \A b \in Buckets : {b} \X (1..f[b]) = {b} \X (1..Cardinality(In(b)))
    BY <1>4
  <2> QED BY <2>1 DEF UnitsOf
<1> QED BY <1>5, <1>6 DEF BucketUnits, Units, In

LEMMA TypesAddUp ==
  ASSUME NEW items, NEW done, IsFiniteSet(NotDone(items, done))
  PROVE  /\ SumOver((Pills \ {"all"}) \union {"goal", "followup"},
                    LAMBDA p : TypeCount(items, done, p)) = TypeCount(items, done, "all")
         /\ TypeCount(items, done, "all") = Cardinality(NotDone(items, done))
<1> DEFINE T == NotDone(items, done)
           S == (Pills \ {"all"}) \union {"goal", "followup"}
           h == [t \in T |-> ClassifyTask(t.subject)]
           f == [p \in S |-> TypeCount(items, done, p)]
<1>1. \A t : ClassifyTask(t.subject) \in S
  BY DEF ClassifyTask, Pills
<1>2. \A p \in S : p # "all"
  BY DEF Pills
<1> HIDE DEF S, T
<1>3. h \in [T -> S]
  BY <1>1
<1>4. \A p \in S : TypeCount(items, done, p) = Cardinality(PartOf(h, T, p))
  <2> TAKE p \in S
  <2>1. TypeCount(items, done, p)
          = Cardinality({t \in T : p = "all" \/ ClassifyTask(t.subject) = p})
    BY DEF TypeCount, T
  <2>2. {t \in T : p = "all" \/ ClassifyTask(t.subject) = p} = PartOf(h, T, p)
    BY <1>2 DEF PartOf
  <2> QED BY <2>1, <2>2
<1>5. TypeCount(items, done, "all") = Cardinality(T)
  <2>1. {t \in T : "all" = "all" \/ ClassifyTask(t.subject) = "all"} = T
    OBVIOUS
  <2> QED BY <2>1 DEF TypeCount, T
<1>6. \A p \in S : f[p] = TypeCount(items, done, p)
  OBVIOUS
<1> HIDE DEF f, h
<1>7. Cardinality(UnitsOf(S, f)) = Cardinality(T)
  BY <1>3, <1>4, <1>6, PartsOf DEF T
<1>8. UnitsOf(S, f) = UNION {{p} \X (1..TypeCount(items, done, p)) : p \in S}
  <2>1. \A p \in S : {p} \X (1..f[p]) = {p} \X (1..TypeCount(items, done, p))
    BY <1>6
  <2> QED BY <2>1 DEF UnitsOf
<1> QED BY <1>5, <1>7, <1>8 DEF SumOver, Units, S, T

\* Of few tasks: what home counts as overdue is under Overdue or Due Today, and the lists
\* and the pills hold each item once.
THEOREM ListsFollowHome ==
  ASSUME NEW X, NEW tasks \in Seq(X), Len(tasks) <= 20,
         \A i \in DOMAIN tasks : tasks[i].due \in Int,
         NEW households, NEW cfg, NEW day, NEW behindUTC, NEW done
  PROVE  ListsAccount(tasks, households, cfg, day, behindUTC, done)
<1> DEFINE home == BuildHomeStats(tasks, households, NoOne, cfg)
           T == Range(tasks)
           items == {t \in T : t.id \in home.openItems}
           left == NotDone(items, done)
           In(bucket) == InBucket(left, bucket, day, behindUTC)
<1>1. /\ home.openItems = {t.id : t \in OpenOf(T)}
      /\ home.overdueItems = {t.id : t \in OverdueOf(T)}
  BY HomeOf
<1> HIDE DEF home
<1>2. \A t \in T : t.due \in Int
  BY DEF Range
<1>3. IsFiniteSet(T)
  <2> DEFINE D == DOMAIN tasks
             f == [i \in D |-> tasks[i]]
  <2>1. IsFiniteSet(D)
    BY NamesOf
  <2>2. f \in [D -> T] /\ \A t \in T : \E i \in D : f[i] = t
    BY DEF Range
  <2> HIDE DEF D, f, T
  <2> QED BY <2>1, <2>2, Fun_IsSurj, FS_Surjection
<1>4. IsFiniteSet(left)
  <2>1. left \in SUBSET T
    BY DEF NotDone
  <2> HIDE DEF left, T
  <2> QED BY <1>3, <2>1, FS_Subset
<1>5. home.overdueItems \ done \subseteq {t.id : t \in In("overdue") \union In("today")}
  <2> SUFFICES ASSUME NEW x \in home.overdueItems, x \notin done
               PROVE  \E t \in In("overdue") \union In("today") : t.id = x
    OBVIOUS
  <2>1. PICK t \in OverdueOf(T) : t.id = x
    BY <1>1
  <2>2. t \in T /\ t \in OpenOf(T) /\ t.due # NoDate /\ t.due <= 0
    BY DEF OverdueOf, OpenOf, IsOverdue
  <2>3. t \in left
    BY <1>1, <2>1, <2>2 DEF NotDone
  <2>4. DueDay(t, behindUTC) < 0 \/ DueDay(t, behindUTC) = 0
    BY <1>2, <2>2 DEF DueDay
  <2>5. GetBucket(t, day, behindUTC) \in {"overdue", "today"}
    BY <2>2, <2>4 DEF GetBucket
  <2> HIDE DEF left
  <2>6. t \in In("overdue") \union In("today")
    BY <2>3, <2>5 DEF InBucket
  <2> QED BY <2>1, <2>6
<1> HIDE DEF left
<1>6. Cardinality(BucketUnits(left, day, behindUTC)) = Cardinality(left)
  BY <1>4, BucketsAddUp
<1> HIDE DEF items
<1>7. /\ Cardinality(UNION {{p} \X (1..TypeCount(items, done, p)) :
                               p \in (Pills \ {"all"}) \union {"goal", "followup"}})
           = TypeCount(items, done, "all")
      /\ TypeCount(items, done, "all") = Cardinality(left)
  BY <1>4, TypesAddUp DEF SumOver, Units, left
<1> QED BY <1>5, <1>6, <1>7 DEF ListsAccount, BucketUnits, SumOver, Units, home, items, left

-------------------------------------------------------------------------------
(* The pages of a household. *)

\* Tasks of different days, the newest first, and the oldest first.
NewToOld(list) ==
  /\ \A i \in DOMAIN list : list[i].created \in Nat
  /\ \A i, j \in DOMAIN list : i < j => list[i].created < list[j].created
OldToNew(list) ==
  /\ \A i \in DOMAIN list : list[i].created \in Nat
  /\ \A i, j \in DOMAIN list : i < j => list[j].created < list[i].created

\* Sorted by a number that grows along a list, the list is as it was.
LEMMA SortedUp ==
  ASSUME NEW X, NEW list \in Seq(X), NEW before,
         \A i, j \in DOMAIN list : <<i, j>> \in before <=> i < j
  PROVE  Arranged(list, DOMAIN list, before) = list
<1> DEFINE n == Len(list)
           D == DOMAIN list
           g == [k \in 1..n |-> k]
<1>1. n \in Nat /\ D = 1..n
  OBVIOUS
<1>2. Orders(before, D)
  <2>1. \A i, j, k \in D : ~(i < i) /\ (i < j /\ j < k => i < k) /\ (i = j \/ i < j \/ j < i)
    OBVIOUS
  <2> HIDE DEF D
  <2> QED BY <2>1 DEF Orders, D
<1>3. \A k \in 1..n : g[k] = k
  OBVIOUS
<1>4. list = [k \in 1..n |-> list[k]]
  OBVIOUS
<1> HIDE DEF n, D
<1>5. g \in [1..n -> D]
  BY <1>1
<1> HIDE DEF g
<1>6. \A i \in D : \E k \in 1..n : g[k] = i
  BY <1>1, <1>3
<1>7. \A k, l \in 1..n : k < l => <<g[k], g[l]>> \in before
  BY <1>1, <1>3 DEF D
<1>8. InOrder(D, before) = g
  <2>1. n \in Nat
    BY <1>1
  <2> QED BY <1>2, <1>5, <1>6, <1>7, <2>1, ListedOnce, SMTT(60)
<1>9. Arranged(list, D, before) = [k \in 1..n |-> list[g[k]]]
  BY <1>5, <1>8 DEF Arranged
<1> QED BY <1>3, <1>4, <1>9 DEF D

LEMMA NewestOf ==
  ASSUME NEW X, NEW list \in Seq(X)
  PROVE  /\ OldToNew(list) => NewestFirst(list) = Reverse(list)
         /\ NewToOld(list) => NewestFirst(list) = list
<1> DEFINE D == DOMAIN list
           before == {p \in D \X D :
                        \/ list[p[1]].created < list[p[2]].created
                        \/ ~(list[p[2]].created < list[p[1]].created) /\ p[1] < p[2]}
<1>1. NewestFirst(list) = Arranged(list, D, before)
  BY DEF NewestFirst, Sorted, Places
<1>2. D \subseteq Nat
  OBVIOUS
<1>3. ASSUME OldToNew(list), NEW i \in D, NEW j \in D
      PROVE  <<i, j>> \in before <=> j < i
  <2>1. <<i, j>> \in before
          <=> \/ list[i].created < list[j].created
              \/ ~(list[j].created < list[i].created) /\ i < j
    OBVIOUS
  <2> HIDE DEF before, D
  <2>2. i \in Nat /\ j \in Nat /\ list[i].created \in Nat /\ list[j].created \in Nat
    BY <1>2, <1>3 DEF OldToNew, D
  <2>3. (i < j => list[j].created < list[i].created) /\ (j < i => list[i].created < list[j].created)
    BY <1>3 DEF OldToNew, D
  <2> QED BY <2>1, <2>2, <2>3
<1>4. ASSUME NewToOld(list), NEW i \in D, NEW j \in D
      PROVE  <<i, j>> \in before <=> i < j
  <2>1. <<i, j>> \in before
          <=> \/ list[i].created < list[j].created
              \/ ~(list[j].created < list[i].created) /\ i < j
    OBVIOUS
  <2> HIDE DEF before, D
  <2>2. i \in Nat /\ j \in Nat /\ list[i].created \in Nat /\ list[j].created \in Nat
    BY <1>2, <1>4 DEF NewToOld, D
  <2>3. (j < i => list[j].created < list[i].created) /\ (i < j => list[i].created < list[j].created)
    BY <1>4 DEF NewToOld, D
  <2> QED BY <2>1, <2>2, <2>3
<1> HIDE DEF before
<1>5. OldToNew(list) => Arranged(list, D, before) = Reverse(list)
  BY <1>3, SortedDown
<1>6. NewToOld(list) => Arranged(list, D, before) = list
  BY <1>4, SortedUp
<1> QED BY <1>1, <1>5, <1>6

\* What is taken of a list keeps its order, and turning the list round turns the order.
LEMMA OrderKept ==
  ASSUME NEW X, NEW list \in Seq(X), NEW O
  PROVE  /\ OldToNew(list) => OldToNew(Among(list, O))
         /\ NewToOld(list) => NewToOld(Among(list, O))
         /\ NewToOld(list) => OldToNew(Reverse(list))
<1> DEFINE L == Among(list, O)
           r == Reverse(list)
<1>1. PICK at, n : ListsPlaces(at, n, list, O) /\ L = ThoseAt(list, at, n)
  BY AmongAt
<1>2. DOMAIN L = 1..n /\ \A k \in 1..n : L[k] = list[at[k]]
  BY <1>1 DEF ThoseAt
<1> HIDE DEF L
<1>3. \A k \in 1..n : at[k] \in DOMAIN list
  BY <1>1 DEF ListsPlaces, PlacesOf
<1>4. \A k, l \in 1..n : k < l => at[k] < at[l]
  BY <1>1 DEF ListsPlaces
<1>5. OldToNew(list) => OldToNew(L)
  BY <1>2, <1>3, <1>4 DEF OldToNew
<1>6. NewToOld(list) => NewToOld(L)
  BY <1>2, <1>3, <1>4 DEF NewToOld
<1>7. /\ DOMAIN r = DOMAIN list
      /\ \A k \in DOMAIN r : Len(list) - k + 1 \in DOMAIN list /\ r[k] = list[Len(list) - k + 1]
  BY ReverseOf
<1> HIDE DEF r
<1>8. NewToOld(list) => OldToNew(r)
  <2> SUFFICES ASSUME NewToOld(list) PROVE OldToNew(r)
    OBVIOUS
  <2>1. \A k \in DOMAIN r : r[k].created \in Nat
    BY <1>7 DEF NewToOld
  <2>2. ASSUME NEW i \in DOMAIN r, NEW j \in DOMAIN r, i < j
        PROVE  r[j].created < r[i].created
    <3>1. Len(list) - j + 1 < Len(list) - i + 1
      BY <1>7, <2>2
    <3>2. list[Len(list) - j + 1].created < list[Len(list) - i + 1].created
      BY <1>7, <3>1 DEF NewToOld
    <3> QED BY <1>7, <3>2
  <2> QED BY <2>1, <2>2 DEF OldToNew
<1> QED BY <1>5, <1>6, <1>8 DEF L, r

\* Nothing is taken of a list exactly if it has nothing of the set.
LEMMA AmongNone ==
  ASSUME NEW X, NEW list \in Seq(X), NEW O
  PROVE  Among(list, O) = <<>> <=> Range(list) \intersect O = {}
<1> DEFINE L == Among(list, O)
<1>1. L \in Seq(X) /\ Range(L) = Range(list) \intersect O
  BY AmongOf
<1> HIDE DEF L
<1>2. L # <<>> => L[1] \in Range(L)
  <2> SUFFICES ASSUME L # <<>> PROVE L[1] \in Range(L)
    OBVIOUS
  <2>1. 1 \in DOMAIN L
    BY <1>1
  <2> QED BY <2>1 DEF Range
<1>3. L = <<>> => Range(L) = {}
  BY DEF Range
<1> QED BY <1>1, <1>2, <1>3 DEF L

\* A list of few is its first many.
LEMMA FirstOfAll ==
  ASSUME NEW X, NEW s \in Seq(X), NEW n \in Nat, Len(s) <= n
  PROVE  FirstOf(s, n) = s
<1>1. /\ FirstOf(s, n) \in Seq(X) /\ Len(FirstOf(s, n)) = Len(s)
      /\ \A i \in DOMAIN FirstOf(s, n) : FirstOf(s, n)[i] = s[i]
  <2>1. LET top == FirstOf(s, n)
        IN  /\ top \in Seq(X) /\ Len(top) = (IF Len(s) < n THEN Len(s) ELSE n)
            /\ \A i \in DOMAIN top : i \in DOMAIN s /\ top[i] = s[i]
    BY FirstOfOf
  <2> QED BY <2>1
<1> DEFINE top == FirstOf(s, n)
<1> HIDE DEF top
<1>2. top \in Seq(X) /\ Len(top) = Len(s) /\ \A i \in DOMAIN top : top[i] = s[i]
  BY <1>1 DEF top
<1>3. top = s
  BY <1>2
<1> QED BY <1>3 DEF top

\* The tasks of one household, of different days and the newest first, those of the audit
\* completed.
HouseholdTasks(h, tasks) ==
  /\ tasks \in Seq(Range(tasks)) /\ Len(tasks) <= 20 /\ h.name # NoOne /\ NewToOld(tasks)
  /\ \A t \in Range(tasks) : /\ t.household = h.id /\ t.name = h.name
                             /\ t.subject \in Audit => t.status = "Completed"

\* The tasks the pages tell apart.
DoneOf(T) == {t \in T : ~IsOpen(t)}
NotBegunOf(T) == {t \in T : t.status = "Not Started" /\ IsDocuSign(t)}
TypeOf(T, type) == {t \in T : ClassifyTask(t.subject) = type}
ReviewsOf(T) == {t \in T : IsComplianceReview(t)}
OnSubjects(T, subjects) == {t \in T : t.subject \in subjects}

\* All of the household's tasks are listed for it, turned round.
LEMMA DetailOf ==
  ASSUME NEW h, NEW tasks, HouseholdTasks(h, tasks)
  PROVE  /\ DetailTasks(tasks, h) = Reverse(tasks) /\ Reverse(tasks) \in Seq(Range(tasks))
         /\ Range(Reverse(tasks)) = Range(tasks) /\ OldToNew(Reverse(tasks))
         /\ \A i \in DOMAIN Reverse(tasks) : Reverse(tasks)[i] \in Range(tasks)
<1> DEFINE T == Range(tasks)
           Q == {i \in DOMAIN tasks : tasks[i].household = h.id}
           r == Reverse(tasks)
<1>1. \A i \in DOMAIN tasks : tasks[i] \in T
  BY DEF Range
<1>2. Q = PlacesOf(tasks, T)
  BY <1>1 DEF PlacesOf, HouseholdTasks
<1>3. DetailTasks(tasks, h) = Reverse(Arranged(tasks, Q, Ascending(Q)))
  BY DEF DetailTasks, Filter
<1>4. tasks \in Seq(T) /\ NewToOld(tasks)
  BY DEF HouseholdTasks
<1> HIDE DEF Q, T
<1>5. Among(tasks, T) = tasks
  BY <1>1, <1>4, AmongAll
<1>6. DetailTasks(tasks, h) = r
  BY <1>2, <1>3, <1>5 DEF Among
<1>7. r \in Seq(T) /\ Range(r) = Range(tasks)
  BY <1>4, ReverseOf
<1>8. OldToNew(r)
  BY <1>4, OrderKept
<1> HIDE DEF r
<1>9. \A i \in DOMAIN r : r[i] \in T
  BY <1>7
<1> QED BY <1>6, <1>7, <1>8, <1>9 DEF r, T

\* What a list has of a set is arranged by the places that pass the set's test.
LEMMA FamilyOf ==
  ASSUME NEW h, NEW tasks, NEW contacts, HouseholdTasks(h, tasks)
  PROVE  LET family == FamilyPage(h, tasks, contacts)
             own == Reverse(tasks)
             T == Range(tasks)
         IN  /\ family.open = Among(own, OpenOf(T))
             /\ family.unsigned = Among(own, OpenOf(T) \intersect TypeOf(T, "docusign"))
             /\ family.reviews = NewestFirst(Among(own, ReviewsOf(T)))
             /\ family.quality = FamilyQuality(h, own, contacts)
<1> DEFINE family == FamilyPage(h, tasks, contacts)
           own == Reverse(tasks)
           T == Range(tasks)
           O == {i \in DOMAIN own : IsOpen(own[i])}
           open == Arranged(own, O, Ascending(O))
           U == {i \in DOMAIN open : ClassifyTask(open[i].subject) = "docusign"}
           R == {i \in DOMAIN own : IsComplianceReview(own[i])}
<1>1. DetailTasks(tasks, h) = own /\ own \in Seq(T) /\ \A i \in DOMAIN own : own[i] \in T
  BY DetailOf
<1>2. /\ family.open = open
      /\ family.unsigned = Arranged(open, U, Ascending(U))
      /\ family.reviews = NewestFirst(Arranged(own, R, Ascending(R)))
      /\ family.quality = FamilyQuality(h, own, contacts)
  BY <1>1 DEF FamilyPage, Filter
<1> HIDE DEF own, T
<1>3. O = PlacesOf(own, OpenOf(T))
  BY <1>1 DEF PlacesOf, OpenOf
<1>4. open = Among(own, OpenOf(T))
  BY <1>3 DEF Among
<1>5. R = PlacesOf(own, ReviewsOf(T))
  BY <1>1 DEF PlacesOf, ReviewsOf
<1>6. open \in Seq(T)
  BY <1>1, <1>4, AmongOf
<1> HIDE DEF open, O, R
<1>7. U = PlacesOf(open, TypeOf(T, "docusign"))
  <2>1. \A i \in DOMAIN open : open[i] \in T
    BY <1>6
  <2> QED BY <2>1 DEF PlacesOf, TypeOf
<1> HIDE DEF U
<1>8. Arranged(open, U, Ascending(U)) = Among(Among(own, OpenOf(T)), TypeOf(T, "docusign"))
  BY <1>4, <1>7 DEF Among
<1>9. Among(Among(own, OpenOf(T)), TypeOf(T, "docusign"))
        = Among(own, OpenOf(T) \intersect TypeOf(T, "docusign"))
  BY <1>1, AmongTwice
<1>10. Arranged(own, R, Ascending(R)) = Among(own, ReviewsOf(T))
  BY <1>5 DEF Among
<1> HIDE DEF family
<1>11. /\ family.open = Among(own, OpenOf(T))
       /\ family.unsigned = Among(own, OpenOf(T) \intersect TypeOf(T, "docusign"))
       /\ family.reviews = NewestFirst(Among(own, ReviewsOf(T)))
       /\ family.quality = FamilyQuality(h, own, contacts)
  BY <1>2, <1>4, <1>8, <1>9, <1>10
<1> QED BY <1>11 DEF family, own, T

LEMMA IntelOf ==
  ASSUME NEW h, NEW tasks, HouseholdTasks(h, tasks)
  PROVE  LET intel == BuildIntel(h, tasks)
             own == Reverse(tasks)
             T == Range(tasks)
         IN  /\ intel.open = Among(own, OpenOf(T))
             /\ intel.completed = Len(Among(own, DoneOf(T)))
             /\ intel.signed = Among(own, TypeOf(T, "docusign") \intersect DoneOf(T))
             /\ intel.pending = Among(own, OpenOf(T) \intersect TypeOf(T, "docusign"))
             /\ intel.reviews = Among(own, OnSubjects(T, {"compliance review", "workflow review"}))
<1> DEFINE intel == BuildIntel(h, tasks)
           own == Reverse(tasks)
           T == Range(tasks)
           O == {i \in DOMAIN own : IsOpen(own[i])}
           C == {i \in DOMAIN own : ~IsOpen(own[i])}
           E == {i \in DOMAIN own : ClassifyTask(own[i].subject) = "docusign"}
           envelopes == Arranged(own, E, Ascending(E))
           P == {i \in DOMAIN envelopes : IsOpen(envelopes[i])}
           S == {i \in DOMAIN envelopes : ~IsOpen(envelopes[i])}
           R == {i \in DOMAIN own : own[i].subject \in {"compliance review", "workflow review"}}
<1>1. DetailTasks(tasks, h) = own /\ own \in Seq(T) /\ \A i \in DOMAIN own : own[i] \in T
  BY DetailOf
<1>2. /\ intel.open = Arranged(own, O, Ascending(O))
      /\ intel.completed = Len(Arranged(own, C, Ascending(C)))
      /\ intel.signed = Arranged(envelopes, S, Ascending(S))
      /\ intel.pending = Arranged(envelopes, P, Ascending(P))
      /\ intel.reviews = Arranged(own, R, Ascending(R))
  BY <1>1 DEF BuildIntel, Filter
<1> HIDE DEF own, T, intel
<1>3. O = PlacesOf(own, OpenOf(T))
  BY <1>1 DEF PlacesOf, OpenOf
<1>4. C = PlacesOf(own, DoneOf(T))
  BY <1>1 DEF PlacesOf, DoneOf
<1>5. R = PlacesOf(own, OnSubjects(T, {"compliance review", "workflow review"}))
  BY <1>1 DEF PlacesOf, OnSubjects
<1>6. E = PlacesOf(own, TypeOf(T, "docusign"))
  BY <1>1 DEF PlacesOf, TypeOf
<1>7. envelopes = Among(own, TypeOf(T, "docusign"))
  BY <1>6 DEF Among
<1>8. envelopes \in Seq(T)
  BY <1>1, <1>7, AmongOf
<1> HIDE DEF O, C, R, E, envelopes
<1>9. P = PlacesOf(envelopes, OpenOf(T)) /\ S = PlacesOf(envelopes, DoneOf(T))
  <2>1. \A i \in DOMAIN envelopes : envelopes[i] \in T
    BY <1>8
  <2> QED BY <2>1 DEF PlacesOf, OpenOf, DoneOf
<1> HIDE DEF P, S
<1>10. /\ Arranged(envelopes, P, Ascending(P)) = Among(envelopes, OpenOf(T))
       /\ Arranged(envelopes, S, Ascending(S)) = Among(envelopes, DoneOf(T))
  BY <1>9 DEF Among
<1>11. /\ Among(envelopes, OpenOf(T)) = Among(own, TypeOf(T, "docusign") \intersect OpenOf(T))
       /\ Among(envelopes, DoneOf(T)) = Among(own, TypeOf(T, "docusign") \intersect DoneOf(T))
  BY <1>1, <1>7, AmongTwice
<1>12. TypeOf(T, "docusign") \intersect OpenOf(T) = OpenOf(T) \intersect TypeOf(T, "docusign")
  OBVIOUS
<1>13. /\ Arranged(own, O, Ascending(O)) = Among(own, OpenOf(T))
       /\ Arranged(own, C, Ascending(C)) = Among(own, DoneOf(T))
       /\ Arranged(own, R, Ascending(R))
            = Among(own, OnSubjects(T, {"compliance review", "workflow review"}))
  BY <1>3, <1>4, <1>5 DEF Among
<1>14. /\ intel.open = Among(own, OpenOf(T))
       /\ intel.completed = Len(Among(own, DoneOf(T)))
       /\ intel.signed = Among(own, TypeOf(T, "docusign") \intersect DoneOf(T))
       /\ intel.pending = Among(own, OpenOf(T) \intersect TypeOf(T, "docusign"))
       /\ intel.reviews = Among(own, OnSubjects(T, {"compliance review", "workflow review"}))
  BY <1>2, <1>10, <1>11, <1>12, <1>13
<1> QED BY <1>14 DEF intel, own, T

LEMMA FeedOf ==
  ASSUME NEW h, NEW tasks, HouseholdTasks(h, tasks)
  PROVE  ActivityFeed(tasks) = Among(tasks, DoneOf(Range(tasks)))
<1> DEFINE T == Range(tasks)
           F == {i \in DOMAIN tasks : ~IsOpen(tasks[i]) \/ tasks[i].subject \in Audit}
           L == Among(tasks, DoneOf(T))
<1>1. tasks \in Seq(T) /\ NewToOld(tasks) /\ \A i \in DOMAIN tasks : tasks[i] \in T
  BY DEF HouseholdTasks, Range
<1>2. ActivityFeed(tasks) = NewestFirst(Arranged(tasks, F, Ascending(F)))
  BY DEF ActivityFeed, Filter
<1>3. \A t \in T : t.subject \in Audit => ~IsOpen(t)
  BY DEF HouseholdTasks, IsOpen
<1> HIDE DEF T
<1>4. F = PlacesOf(tasks, DoneOf(T))
  BY <1>1, <1>3 DEF PlacesOf, DoneOf
<1> HIDE DEF F
<1>5. Arranged(tasks, F, Ascending(F)) = L
  BY <1>4 DEF Among
<1>6. L \in Seq(T) /\ NewToOld(L)
  BY <1>1, AmongOf, OrderKept
<1> HIDE DEF L
<1>7. NewestFirst(L) = L
  BY <1>6, NewestOf
<1> QED BY <1>2, <1>5, <1>7 DEF L, T

\* What home lists of one household.
LEMMA HomeOfOne ==
  ASSUME NEW h, NEW tasks, HouseholdTasks(h, tasks), NEW cfg
  PROVE  LET home == BuildHomeStats(tasks, <<h>>, NoOne, cfg)
             T == Range(tasks)
         IN  /\ home.unsignedItems = {t.id : t \in NotBegunOf(T)}
             /\ home.recentItems \subseteq {t.id : t \in DoneOf(T)}
             /\ home.review = 1 <=> ReviewsOf(T) = {}
<1> DEFINE home == BuildHomeStats(tasks, <<h>>, NoOne, cfg)
           T == Range(tasks)
           b == [tasks |-> tasks, households |-> <<h>>]
           U == {i \in DOMAIN tasks : tasks[i].status = "Not Started" /\ IsDocuSign(tasks[i])}
           C == {i \in DOMAIN tasks : ~IsOpen(tasks[i])}
           H == {i \in DOMAIN <<h>> : <<h>>[i].name \notin ReviewedNames(b)}
<1>1. Book(tasks, <<h>>, NoOne) = b /\ b.tasks = tasks /\ b.households = <<h>>
  BY DEF Book
<1> HIDE DEF b
<1>2. /\ home.unsignedItems = FirstIds(Unsigned(b), 20)
      /\ home.recentItems = FirstIds(Completed(b), 5)
      /\ home.review = Len(Unreviewed(b))
  BY <1>1 DEF BuildHomeStats, FirstIds
<1>3. /\ Unsigned(b) = Arranged(tasks, U, Ascending(U))
      /\ Completed(b) = Arranged(tasks, C, Ascending(C))
      /\ Unreviewed(b) = Arranged(<<h>>, H, Ascending(H))
  BY <1>1 DEF Unsigned, Completed, Unreviewed, Filter
<1>4. tasks \in Seq(T) /\ Len(tasks) <= 20 /\ h.name # NoOne /\ \A i \in DOMAIN tasks : tasks[i] \in T
  BY DEF HouseholdTasks, Range
<1>5. \A t \in T : t.name = h.name
  BY DEF HouseholdTasks
<1> HIDE DEF home
<1>6. home.review = 1 <=> ReviewsOf(T) = {}
  <2>1. ReviewedNames(b) = {t.name : t \in {u \in T : IsComplianceReview(u) /\ u.name # NoOne}}
    BY <1>1 DEF ReviewedNames
  <2> HIDE DEF T
  <2>2. h.name \in ReviewedNames(b) <=> ReviewsOf(T) # {}
    BY <1>4, <1>5, <2>1 DEF ReviewsOf
  <2>3. DOMAIN <<h>> = {1} /\ <<h>>[1] = h /\ <<h>> \in Seq({h})
    OBVIOUS
  <2>4. H = IF h.name \in ReviewedNames(b) THEN {} ELSE {1}
    BY <2>3
  <2>5. H \in SUBSET DOMAIN <<h>>
    OBVIOUS
  <2> HIDE DEF H
  <2>6. Len(Arranged(<<h>>, H, Ascending(H))) = Cardinality(H)
    BY <2>3, <2>5, FilterOf
  <2>7. Cardinality({}) = 0 /\ Cardinality({1}) = 1
    BY FS_EmptySet, FS_Singleton
  <2>8. home.review = Cardinality(H)
    BY <1>2, <1>3, <2>6 DEF H
  <2>9. home.review = IF h.name \in ReviewedNames(b) THEN 0 ELSE 1
    BY <2>4, <2>7, <2>8
  <2> QED BY <2>2, <2>9
<1> HIDE DEF T
<1>7. U = PlacesOf(tasks, NotBegunOf(T))
  BY <1>4 DEF PlacesOf, NotBegunOf
<1>8. C = PlacesOf(tasks, DoneOf(T))
  BY <1>4 DEF PlacesOf, DoneOf
<1> HIDE DEF U, C
<1>9. Unsigned(b) = Among(tasks, NotBegunOf(T)) /\ Completed(b) = Among(tasks, DoneOf(T))
  BY <1>3, <1>7, <1>8 DEF Among
<1>10. home.unsignedItems = {t.id : t \in NotBegunOf(T)}
  <2> DEFINE L == Among(tasks, NotBegunOf(T))
  <2>1. L \in Seq(T) /\ Len(L) <= Len(tasks) /\ Range(L) = Range(tasks) \intersect NotBegunOf(T)
    BY <1>4, AmongOf
  <2>2. Range(tasks) \intersect NotBegunOf(T) = NotBegunOf(T)
    BY DEF NotBegunOf, T
  <2> HIDE DEF L
  <2>3. Len(L) <= 20
    BY <1>4, <2>1
  <2>4. FirstIds(L, 20) = IdsOf(L)
    BY <2>1, <2>3, FirstIdsOf
  <2>5. home.unsignedItems = IdsOf(L)
    BY <1>2, <1>9, <2>4 DEF L
  <2> QED BY <2>1, <2>2, <2>5 DEF IdsOf
<1>11. home.recentItems \subseteq {t.id : t \in DoneOf(T)}
  <2> DEFINE L == Among(tasks, DoneOf(T))
  <2>1. L \in Seq(T) /\ Range(L) = Range(tasks) \intersect DoneOf(T)
    BY <1>4, AmongOf
  <2> HIDE DEF L
  <2>2. FirstIds(L, 5) \subseteq IdsOf(L)
    BY <2>1, FirstIdsOf
  <2>3. home.recentItems \subseteq IdsOf(L)
    BY <1>2, <1>9, <2>2 DEF L
  <2> QED BY <2>1, <2>3 DEF IdsOf
<1>12. /\ home.unsignedItems = {t.id : t \in NotBegunOf(T)}
       /\ home.recentItems \subseteq {t.id : t \in DoneOf(T)}
       /\ home.review = 1 <=> ReviewsOf(T) = {}
  BY <1>6, <1>10, <1>11
<1> QED BY <1>12 DEF home, T

\* What is open and unsigned, on the family page, in the briefing and at home.
OpenAgree(h, tasks, contacts, cfg) ==
  LET family == FamilyPage(h, tasks, contacts)
      intel == BuildIntel(h, tasks)
      home == BuildHomeStats(tasks, <<h>>, NoOne, cfg)
  IN  /\ IdsOf(family.open) = home.openItems /\ family.open = intel.open
      /\ home.overdueItems \subseteq IdsOf(family.open)
      /\ family.unsigned = intel.pending
      /\ home.unsignedItems = IdsOf(Filter(family.unsigned, LAMBDA t : t.status = "Not Started"))

LEMMA OpenAgrees ==
  ASSUME NEW h, NEW tasks, NEW contacts, HouseholdTasks(h, tasks), NEW cfg
  PROVE  OpenAgree(h, tasks, contacts, cfg)
<1> DEFINE family == FamilyPage(h, tasks, contacts)
           intel == BuildIntel(h, tasks)
           home == BuildHomeStats(tasks, <<h>>, NoOne, cfg)
           own == Reverse(tasks)
           T == Range(tasks)
           D == TypeOf(T, "docusign")
           U == OpenOf(T) \intersect D
           begun == {t \in T : t.status = "Not Started"}
           Q == {i \in DOMAIN family.unsigned : family.unsigned[i].status = "Not Started"}
<1>1. family.open = Among(own, OpenOf(T)) /\ family.unsigned = Among(own, U)
  BY FamilyOf
<1>2. intel.open = Among(own, OpenOf(T)) /\ intel.pending = Among(own, U)
  BY IntelOf
<1>3. tasks \in Seq(T) /\ Len(tasks) <= 20
  BY DEF HouseholdTasks
<1>4. /\ home.openItems = {t.id : t \in OpenOf(T)}
      /\ home.overdueItems = {t.id : t \in OverdueOf(T)}
  BY <1>3, HomeOf
<1>5. home.unsignedItems = {t.id : t \in NotBegunOf(T)}
  BY HomeOfOne
<1>6. own \in Seq(T) /\ Range(own) = T
  BY DetailOf
<1> HIDE DEF family, intel, home, own, U
<1>7. IdsOf(family.open) = {t.id : t \in OpenOf(T)}
  <2>1. Range(Among(own, OpenOf(T))) = T \intersect OpenOf(T)
    BY <1>6, AmongOf
  <2>2. T \intersect OpenOf(T) = OpenOf(T)
    BY DEF OpenOf
  <2> QED BY <1>1, <2>1, <2>2 DEF IdsOf
<1>8. OverdueOf(T) \subseteq OpenOf(T)
  BY DEF OverdueOf, OpenOf, IsOverdue
<1>9. U \subseteq T
  BY DEF U, OpenOf
<1>10. \A t \in T : t.subject \in Audit => t.status = "Completed"
  BY DEF HouseholdTasks
<1>11. U \intersect begun = NotBegunOf(T)
  <2>1. \A t \in T : ClassifyTask(t.subject) = "docusign"
                       <=> IsDocuSign(t) \/ t.subject = "audit docusign"
    BY DEF ClassifyTask, IsDocuSign
  <2>2. \A t \in T : t.status = "Not Started" => IsOpen(t) /\ t.subject # "audit docusign"
    BY <1>10 DEF IsOpen, Audit
  <2> HIDE DEF T
  <2> QED BY <2>1, <2>2 DEF U, OpenOf, TypeOf, NotBegunOf
<1> HIDE DEF T, begun
<1>12. family.unsigned \in Seq(T)
  BY <1>1, <1>6, AmongOf
<1>13. Q = PlacesOf(family.unsigned, begun)
  <2>1. \A i \in DOMAIN family.unsigned : family.unsigned[i] \in T
    BY <1>12
  <2> QED BY <2>1 DEF PlacesOf, begun
<1>14. Arranged(family.unsigned, Q, Ascending(Q)) = Among(own, U \intersect begun)
  <2>1. Arranged(family.unsigned, Q, Ascending(Q)) = Among(Among(own, U), begun)
    BY <1>1, <1>13 DEF Among
  <2>2. Among(Among(own, U), begun) = Among(own, U \intersect begun)
    BY <1>6, AmongTwice
  <2> HIDE DEF Q
  <2> QED BY <2>1, <2>2
<1>15. IdsOf(Arranged(family.unsigned, Q, Ascending(Q))) = home.unsignedItems
  <2>1. Range(Among(own, U \intersect begun)) = T \intersect (U \intersect begun)
    BY <1>6, AmongOf
  <2>2. T \intersect (U \intersect begun) = NotBegunOf(T)
    BY <1>9, <1>11
  <2> QED BY <1>5, <1>14, <2>1, <2>2 DEF IdsOf
<1>16. home.overdueItems \subseteq IdsOf(family.open)
  BY <1>4, <1>7, <1>8
<1> QED BY <1>1, <1>2, <1>4, <1>7, <1>15, <1>16 DEF OpenAgree, Filter, family, intel, home

\* The reviews, on the family page, in the briefing and at home.
ReviewsAgree(h, tasks, contacts, cfg) ==
  LET family == FamilyPage(h, tasks, contacts)
      intel == BuildIntel(h, tasks)
      narrative == BuildNarrative(intel)
      home == BuildHomeStats(tasks, <<h>>, NoOne, cfg)
  IN  /\ family.reviews = <<>> <=> home.review = 1
      /\ Filter(tasks, LAMBDA t : t.subject = "workflow review") = <<>> =>
           /\ intel.reviews = Reverse(family.reviews)
           /\ narrative.review = "flagged" <=>
                family.reviews # <<>> /\ ~ReviewPassed(family.reviews[1])

LEMMA ReviewsAgreed ==
  ASSUME NEW h, NEW tasks, NEW contacts, HouseholdTasks(h, tasks), NEW cfg
  PROVE  ReviewsAgree(h, tasks, contacts, cfg)
<1> DEFINE family == FamilyPage(h, tasks, contacts)
           intel == BuildIntel(h, tasks)
           narrative == BuildNarrative(intel)
           home == BuildHomeStats(tasks, <<h>>, NoOne, cfg)
           own == Reverse(tasks)
           T == Range(tasks)
           L == Among(own, ReviewsOf(T))
           r == Reverse(L)
           W == OnSubjects(T, {"workflow review"})
           Q == {i \in DOMAIN tasks : tasks[i].subject = "workflow review"}
<1>1. family.reviews = NewestFirst(L)
  BY FamilyOf
<1>2. intel.reviews = Among(own, OnSubjects(T, {"compliance review", "workflow review"}))
  BY IntelOf
<1>3. home.review = 1 <=> ReviewsOf(T) = {}
  BY HomeOfOne
<1>4. own \in Seq(T) /\ Range(own) = T /\ OldToNew(own)
  BY DetailOf
<1>5. narrative.review = IF intel.reviews # <<>>
                           THEN IF ReviewPassed(Last(intel.reviews)) THEN "passed" ELSE "flagged"
                           ELSE IF intel.days > 1 THEN "never" ELSE ""
  BY DEF BuildNarrative
<1>6. tasks \in Seq(T) /\ \A i \in DOMAIN tasks : tasks[i] \in T
  BY DEF HouseholdTasks, Range
<1> HIDE DEF family, intel, narrative, home, own
<1>7. ReviewsOf(T) \subseteq T /\ W \subseteq T
  BY DEF ReviewsOf, OnSubjects
<1>8. L \in Seq(T) /\ OldToNew(L)
  BY <1>4, AmongOf, OrderKept
<1>9. L = <<>> <=> ReviewsOf(T) = {}
  BY <1>4, <1>7, AmongNone
<1>10. W = {} => OnSubjects(T, {"compliance review", "workflow review"}) = ReviewsOf(T)
  BY DEF OnSubjects, ReviewsOf, IsComplianceReview
<1>11. Q = PlacesOf(tasks, W)
  BY <1>6 DEF PlacesOf, OnSubjects
<1>12. Arranged(tasks, Q, Ascending(Q)) = <<>> <=> W = {}
  <2>1. Among(tasks, W) = <<>> <=> Range(tasks) \intersect W = {}
    BY <1>6, AmongNone
  <2> QED BY <1>7, <1>11, <2>1 DEF Among
<1> HIDE DEF L, Q, W
<1>13. family.reviews = r
  BY <1>1, <1>8, NewestOf
<1>14. /\ r \in Seq(T) /\ Len(r) = Len(L) /\ DOMAIN r = DOMAIN L /\ Reverse(r) = L
       /\ \A k \in DOMAIN r : Len(L) - k + 1 \in DOMAIN L /\ r[k] = L[Len(L) - k + 1]
  BY <1>8, ReverseOf
<1> HIDE DEF r, T
<1>15. r = <<>> <=> L = <<>>
  BY <1>8, <1>14
<1>16. L # <<>> => Last(L) = r[1]
  <2> SUFFICES ASSUME L # <<>> PROVE Last(L) = r[1]
    OBVIOUS
  <2>1. Len(L) \in Nat /\ Len(L) >= 1 /\ 1 \in DOMAIN r
    BY <1>8, <1>14
  <2>2. Len(L) - 1 + 1 = Len(L)
    BY <2>1
  <2> QED BY <1>14, <2>1, <2>2 DEF Last
<1>17. ASSUME W = {}
       PROVE  /\ intel.reviews = Reverse(family.reviews)
              /\ narrative.review = "flagged" <=>
                   family.reviews # <<>> /\ ~ReviewPassed(family.reviews[1])
  <2>1. intel.reviews = L
    BY <1>2, <1>10, <1>17 DEF L
  <2>2. intel.reviews = Reverse(family.reviews)
    BY <1>13, <1>14, <2>1
  <2>3. CASE L = <<>>
    <3>1. narrative.review # "flagged"
      BY <1>5, <2>1, <2>3
    <3> QED BY <1>13, <1>15, <2>2, <2>3, <3>1
  <2>4. CASE L # <<>>
    <3>1. narrative.review = "flagged" <=> ~ReviewPassed(r[1])
      BY <1>5, <1>16, <2>1, <2>4
    <3> QED BY <1>13, <1>15, <2>2, <2>4, <3>1
  <2> QED BY <2>3, <2>4
<1>18. family.reviews = <<>> <=> home.review = 1
  BY <1>3, <1>9, <1>13, <1>15
<1> QED BY <1>12, <1>17, <1>18 DEF ReviewsAgree, Filter, family, intel, narrative, home, Q

\* How good the data is: the dashboard and the family page take off the same, and the
\* page some more without an address, and where one in the description counts.
LEMMA QualityAgrees ==
  ASSUME NEW h, NEW tasks, NEW contacts, HouseholdTasks(h, tasks)
  PROVE  FamilyPage(h, tasks, contacts).quality
           = AtLeast0(DataQuality(tasks, h)
                        - (IF h.mail /\ ~\E t \in Range(tasks) : t.subject = "account opening"
                             THEN 10 ELSE 0)
                        - (IF ~\E c \in contacts : c.email THEN 15 ELSE 0))
<1> DEFINE own == Reverse(tasks)
           T == Range(tasks)
           stale == IF own = <<>> THEN h.created ELSE Min({t.created : t \in Range(own)})
           days == {t.created : t \in {u \in T : u.name = h.name}}
           Q == {i \in DOMAIN tasks : tasks[i].name = h.name}
           v == IF DaysStale(tasks, h) >= 90 THEN 30 ELSE 0
           w == IF ReviewsOf(T) = {} THEN 20 ELSE 0
           x == IF Len(tasks) <= 1 THEN 10 ELSE 0
           y == IF ~\E t \in T : t.subject = "account opening" THEN 10 ELSE 0
           kept == IF h.mail THEN 0 ELSE y
           spared == IF h.mail /\ ~\E t \in Range(tasks) : t.subject = "account opening" THEN 10 ELSE 0
           z == IF ~\E c \in contacts : c.email THEN 15 ELSE 0
<1>1. FamilyPage(h, tasks, contacts).quality = FamilyQuality(h, own, contacts)
  BY FamilyOf
<1>2. own \in Seq(T) /\ Range(own) = T /\ tasks \in Seq(T) /\ Len(own) = Len(tasks)
  BY ReverseOf, DetailOf DEF HouseholdTasks
<1>3. h.name # NoOne /\ \A t \in T : t.name = h.name
  BY DEF HouseholdTasks
<1>4. \A i \in DOMAIN tasks : tasks[i] \in T
  BY DEF Range
<1> HIDE DEF own, T
<1>5. own = <<>> <=> T = {}
  <2>1. own = <<>> => T = {}
    BY <1>2 DEF Range
  <2>2. own # <<>> => own[1] \in T
    BY <1>2
  <2> QED BY <2>1, <2>2
<1>6. {t.created : t \in Range(own)} = days
  BY <1>2, <1>3
<1>7. stale = DaysStale(tasks, h)
  <2>1. days = {} <=> T = {}
    BY <1>3
  <2> HIDE DEF days
  <2>2. stale = IF days = {} THEN h.created ELSE Min(days)
    BY <1>5, <1>6, <2>1
  <2> QED BY <2>2 DEF DaysStale, days, T
<1> HIDE DEF days
<1>8. h.name \notin Reviews(tasks) <=> ReviewsOf(T) = {}
  BY <1>3 DEF Reviews, ReviewsOf, T
<1>9. (~\E t \in Range(own) : IsComplianceReview(t)) <=> ReviewsOf(T) = {}
  BY <1>2 DEF ReviewsOf
<1>10. Len(Arranged(tasks, Q, Ascending(Q))) = Len(tasks)
  <2>1. Q = PlacesOf(tasks, T)
    BY <1>3, <1>4 DEF PlacesOf
  <2>2. Among(tasks, T) = tasks
    BY <1>2, <1>4, AmongAll
  <2> QED BY <2>1, <2>2 DEF Among
<1> HIDE DEF Q
<1>11. FamilyQuality(h, own, contacts) = AtLeast0(100 - v - w - x - y - z)
  <2> DEFINE v1 == IF stale >= 90 THEN 30 ELSE 0
             w1 == IF ~\E t \in Range(own) : IsComplianceReview(t) THEN 20 ELSE 0
             x1 == IF Len(own) <= 1 THEN 10 ELSE 0
             y1 == IF ~\E t \in Range(own) : t.subject = "account opening" THEN 10 ELSE 0
  <2>1. FamilyQuality(h, own, contacts) = AtLeast0(100 - v1 - w1 - x1 - y1 - z)
    BY Zenon DEF FamilyQuality
  <2> HIDE DEF stale
  <2>2. w1 = w
    BY <1>9
  <2>3. v1 = v
    BY <1>7
  <2>4. y1 = y
    BY <1>2
  <2>5. x1 = x
    BY <1>2
  <2> HIDE DEF v, w, x, y, z, v1, w1, x1, y1
  <2> QED BY <2>1, <2>2, <2>3, <2>4, <2>5
<1>12. DataQuality(tasks, h) = 100 - v - w - x - kept
  <2> DEFINE w1 == IF h.name \notin Reviews(tasks) THEN 20 ELSE 0
             x1 == IF Len(Arranged(tasks, Q, Ascending(Q))) <= 1 THEN 10 ELSE 0
             y3 == IF ~h.mail /\ ~\E t \in T : t.name = h.name /\ t.subject = "account opening"
                     THEN 10 ELSE 0
  <2>1. DataQuality(tasks, h) = 100 - v - w1 - x1 - y3
    BY Zenon DEF DataQuality, Filter, Q, T
  <2>2. w1 = w
    BY <1>8
  <2>3. y3 = kept
    BY <1>3
  <2>4. x1 = x
    BY <1>10
  <2> HIDE DEF v, w, x, kept, w1, x1, y3
  <2> QED BY <2>1, <2>2, <2>3, <2>4
<1>13. y = kept + spared /\ kept \in {0, 10} /\ spared \in {0, 10}
  <2>1. y \in {0, 10}
    OBVIOUS
  <2>2. spared = IF h.mail THEN y ELSE 0
    BY Zenon DEF T
  <2> HIDE DEF y, spared
  <2> QED BY <2>1, <2>2
<1>14. v \in {0, 30} /\ w \in {0, 20} /\ x \in {0, 10} /\ z \in {0, 15}
  OBVIOUS
<1> HIDE DEF v, w, x, y, kept, spared, z
<1>15. FamilyPage(h, tasks, contacts).quality = AtLeast0(DataQuality(tasks, h) - spared - z)
  BY <1>1, <1>11, <1>12, <1>13, <1>14
<1> QED BY <1>15 DEF spared, z

\* The activity feed: everything is of one category, and shown on one day if it is not cut.
DayUnits(feed) ==
  Units(DOMAIN ByDay(feed, "all", 50), LAMBDA d : Len(ByDay(feed, "all", 50)[d]))
Categories == {"compliance", "docusign", "meeting", "audit", "task"}
CategoryUnits(feed) == Units(Categories, LAMBDA c : CategoryCount(feed, c))

LEMMA AllOfFeed ==
  ASSUME NEW X, NEW feed \in Seq(X)
  PROVE  OfCategory(feed, "all") = feed
<1> DEFINE T == Range(feed)
           Q == {i \in DOMAIN feed : "all" = "all" \/ ClassifyActivity(feed[i].subject) = "all"}
<1>1. \A i \in DOMAIN feed : feed[i] \in T
  BY DEF Range
<1>2. Q = PlacesOf(feed, T)
  BY <1>1 DEF PlacesOf
<1>3. OfCategory(feed, "all") = Arranged(feed, Q, Ascending(Q))
  BY DEF OfCategory, Filter
<1> HIDE DEF Q, T
<1>4. Among(feed, T) = feed
  BY <1>1, AmongAll
<1> QED BY <1>2, <1>3, <1>4 DEF Among

LEMMA CategoriesAddUp ==
  ASSUME NEW X, NEW feed \in Seq(X)
  PROVE  Cardinality(CategoryUnits(feed)) = Len(feed) /\ CategoryCount(feed, "all") = Len(feed)
<1> DEFINE D == DOMAIN feed
           h == [i \in D |-> ClassifyActivity(feed[i].subject)]
           f == [c \in Categories |-> CategoryCount(feed, c)]
<1>1. IsFiniteSet(D) /\ Cardinality(D) = Len(feed)
  BY NamesOf
<1>2. h \in [D -> Categories]
  BY DEF ClassifyActivity, Categories
<1>3. ASSUME NEW c \in Categories
      PROVE  CategoryCount(feed, c) = Cardinality(PartOf(h, D, c))
  <2> DEFINE Q == {i \in DOMAIN feed : c = "all" \/ ClassifyActivity(feed[i].subject) = c}
             L == Arranged(feed, Q, Ascending(Q))
  <2>1. c # "all"
    BY DEF Categories
  <2>2. Q = PartOf(h, D, c)
    BY <2>1 DEF PartOf
  <2>3. CategoryCount(feed, c) = Len(L)
    BY DEF CategoryCount, OfCategory, Filter
  <2>4. Q \in SUBSET DOMAIN feed
    OBVIOUS
  <2> HIDE DEF Q
  <2>5. Len(L) = Cardinality(Q)
    BY <2>4, FilterOf
  <2> QED BY <2>2, <2>3, <2>5
<1>4. \A c \in Categories : f[c] = CategoryCount(feed, c)
  OBVIOUS
<1> HIDE DEF f, h, D
<1>5. Cardinality(UnitsOf(Categories, f)) = Len(feed)
  BY <1>1, <1>2, <1>3, <1>4, PartsOf
<1>6. UnitsOf(Categories, f) = CategoryUnits(feed)
  <2>1. \A c \in Categories : {c} \X (1..f[c]) = {c} \X (1..CategoryCount(feed, c))
    BY <1>4
  <2> QED BY <2>1 DEF UnitsOf, CategoryUnits, Units
<1>7. CategoryCount(feed, "all") = Len(feed)
  BY AllOfFeed DEF CategoryCount
<1> QED BY <1>5, <1>6, <1>7

LEMMA DaysAddUp ==
  ASSUME NEW X, NEW feed \in Seq(X), Len(feed) <= 50
  PROVE  Cardinality(DayUnits(feed)) = Len(feed)
<1> DEFINE D == DOMAIN feed
           by == ByDay(feed, "all", 50)
           S == {t.created : t \in Range(feed)}
           h == [i \in D |-> feed[i].created]
           f == [d \in S |-> Len(by[d])]
           On(d) == {i \in D : feed[i].created = d}
<1>1. IsFiniteSet(D) /\ Cardinality(D) = Len(feed)
  BY NamesOf
<1>2. FirstOf(OfCategory(feed, "all"), 50) = feed
  <2>1. OfCategory(feed, "all") = feed
    BY AllOfFeed
  <2>2. FirstOf(feed, 50) = feed
    BY FirstOfAll
  <2> QED BY <2>1, <2>2
<1>3. by = [d \in S |-> Arranged(feed, On(d), Ascending(On(d)))]
  BY <1>2 DEF ByDay, Filter
<1>4. h \in [D -> S]
  BY DEF Range
<1>5. DOMAIN by = S /\ \A d \in S : by[d] = Arranged(feed, On(d), Ascending(On(d)))
  BY <1>3
<1> HIDE DEF by
<1>6. ASSUME NEW d \in S
      PROVE  Len(by[d]) = Cardinality(PartOf(h, D, d))
  <2>1. On(d) \in SUBSET DOMAIN feed /\ On(d) = PartOf(h, D, d)
    BY DEF PartOf
  <2>2. by[d] = Arranged(feed, On(d), Ascending(On(d)))
    BY <1>5
  <2> HIDE DEF On, h, S
  <2>3. Len(Arranged(feed, On(d), Ascending(On(d)))) = Cardinality(On(d))
    BY <2>1, FilterOf
  <2> QED BY <2>1, <2>2, <2>3
<1>7. \A d \in S : f[d] = Len(by[d])
  OBVIOUS
<1> HIDE DEF f, h, D, S, On
<1>8. Cardinality(UnitsOf(S, f)) = Len(feed)
  BY <1>1, <1>4, <1>6, <1>7, PartsOf
<1>9. UnitsOf(S, f) = DayUnits(feed)
  <2>1. \A d \in S : {d} \X (1..f[d]) = {d} \X (1..Len(by[d]))
    BY <1>7
  <2>2. UnitsOf(S, f) = UNION {{d} \X (1..Len(by[d])) : d \in DOMAIN by}
    BY <1>5, <2>1 DEF UnitsOf
  <2> QED BY <2>2 DEF DayUnits, Units, by
<1> QED BY <1>8, <1>9

\* What was completed, in the feed, in the briefing and at home.
FeedAgrees(h, tasks, cfg) ==
  LET intel == BuildIntel(h, tasks)
      home == BuildHomeStats(tasks, <<h>>, NoOne, cfg)
      feed == ActivityFeed(tasks)
  IN  /\ home.recentItems \subseteq IdsOf(feed)
      /\ Cardinality(DayUnits(feed)) = intel.completed
      /\ Len(intel.signed)
           = CategoryCount(feed, "docusign")
               + Len(Filter(tasks, LAMBDA t : t.subject = "audit docusign"))
      /\ Cardinality(CategoryUnits(feed)) = CategoryCount(feed, "all")

LEMMA FeedIsAgreed ==
  ASSUME NEW h, NEW tasks, HouseholdTasks(h, tasks), NEW cfg
  PROVE  FeedAgrees(h, tasks, cfg)
<1> DEFINE intel == BuildIntel(h, tasks)
           home == BuildHomeStats(tasks, <<h>>, NoOne, cfg)
           own == Reverse(tasks)
           T == Range(tasks)
           C == DoneOf(T)
           E == OnSubjects(T, {"send docu", "docusign configured", "workflow envelopes"})
           A == OnSubjects(T, {"audit docusign"})
           D == TypeOf(T, "docusign")
           L == Among(tasks, C)
           Q == {i \in DOMAIN L : "docusign" = "all" \/ ClassifyActivity(L[i].subject) = "docusign"}
           R == {i \in DOMAIN tasks : tasks[i].subject = "audit docusign"}
<1>1. intel.completed = Len(Among(own, C)) /\ intel.signed = Among(own, D \intersect C)
  BY IntelOf
<1>2. home.recentItems \subseteq {t.id : t \in C}
  BY HomeOfOne
<1>3. ActivityFeed(tasks) = L
  BY FeedOf
<1>4. tasks \in Seq(T) /\ Len(tasks) <= 20 /\ \A i \in DOMAIN tasks : tasks[i] \in T
  BY DEF HouseholdTasks, Range
<1>5. own \in Seq(T) /\ \A O : Cardinality(PlacesOf(own, O)) = Cardinality(PlacesOf(tasks, O))
  BY <1>4, ReverseOf
<1> HIDE DEF intel, home, own
<1>6. L \in Seq(T) /\ Len(L) = Cardinality(PlacesOf(tasks, C)) /\ Len(L) <= Len(tasks)
      /\ Range(L) = T \intersect C
  BY <1>4, AmongOf
<1>7. C \subseteq T
  BY DEF DoneOf
<1>8. home.recentItems \subseteq IdsOf(L)
  <2>1. Range(L) = C
    BY <1>6, <1>7
  <2> QED BY <1>2, <2>1 DEF IdsOf
<1>9. /\ Len(Among(own, C)) = Cardinality(PlacesOf(tasks, C))
      /\ Len(Among(own, D \intersect C)) = Cardinality(PlacesOf(tasks, D \intersect C))
  <2>1. /\ Len(Among(own, C)) = Cardinality(PlacesOf(own, C))
        /\ Len(Among(own, D \intersect C)) = Cardinality(PlacesOf(own, D \intersect C))
    BY <1>5, AmongOf
  <2> QED BY <1>5, <2>1
<1>10. D \intersect C = (C \intersect E) \union A /\ E \intersect A = {}
  <2>1. \A t \in T : t.subject = "audit docusign" => ~IsOpen(t)
    BY DEF HouseholdTasks, Audit, IsOpen
  <2>2. \A t \in T : ClassifyTask(t.subject) = "docusign"
                       <=> t.subject \in {"send docu", "docusign configured",
                                          "workflow envelopes", "audit docusign"}
    BY DEF ClassifyTask
  <2> HIDE DEF T
  <2> QED BY <2>1, <2>2 DEF TypeOf, DoneOf, OnSubjects
<1>11. \A t \in T : ClassifyActivity(t.subject) = "docusign"
                      <=> t.subject \in {"send docu", "docusign configured", "workflow envelopes"}
  BY DEF ClassifyActivity, Audit
<1> HIDE DEF T, C, D, L
<1>12. Q = PlacesOf(L, E)
  <2>1. \A i \in DOMAIN L : L[i] \in T
    BY <1>6
  <2> QED BY <1>11, <2>1 DEF PlacesOf, OnSubjects
<1>13. R = PlacesOf(tasks, A)
  BY <1>4 DEF PlacesOf, OnSubjects
<1>14. CategoryCount(ActivityFeed(tasks), "docusign") = Len(Arranged(L, Q, Ascending(Q)))
  BY <1>3 DEF CategoryCount, OfCategory, Filter
<1> HIDE DEF Q, R, E, A
<1>15. Len(Arranged(L, Q, Ascending(Q))) = Cardinality(PlacesOf(tasks, C \intersect E))
  <2>1. Among(L, E) = Among(tasks, C \intersect E)
    BY <1>4, AmongTwice DEF L
  <2>2. Len(Among(tasks, C \intersect E)) = Cardinality(PlacesOf(tasks, C \intersect E))
    BY <1>4, AmongOf
  <2> QED BY <1>12, <2>1, <2>2 DEF Among
<1>16. Len(Arranged(tasks, R, Ascending(R))) = Cardinality(PlacesOf(tasks, A))
  <2>1. Len(Among(tasks, A)) = Cardinality(PlacesOf(tasks, A))
    BY <1>4, AmongOf
  <2> QED BY <1>13, <2>1 DEF Among
<1>17. Cardinality(PlacesOf(tasks, D \intersect C))
         = Cardinality(PlacesOf(tasks, C \intersect E)) + Cardinality(PlacesOf(tasks, A))
  <2> DEFINE P1 == PlacesOf(tasks, C \intersect E)
             P2 == PlacesOf(tasks, A)
  <2>1. /\ PlacesOf(tasks, D \intersect C) = P1 \union P2 /\ P1 \intersect P2 = {}
        /\ P1 \in SUBSET DOMAIN tasks /\ P2 \in SUBSET DOMAIN tasks
    BY <1>10 DEF PlacesOf
  <2> HIDE DEF P1, P2
  <2>2. IsFiniteSet(P1) /\ IsFiniteSet(P2)
    BY <1>4, <2>1, NamesOf, FS_Subset
  <2>3. Cardinality(P1) \in Nat /\ Cardinality(P2) \in Nat
    BY <2>2, FS_CardinalityType
  <2>4. Cardinality(P1 \union P2) = Cardinality(P1) + Cardinality(P2) - Cardinality(P1 \intersect P2)
    BY <2>2, FS_Union
  <2>5. Cardinality(P1 \intersect P2) = 0
    BY <2>1, FS_EmptySet
  <2>6. Cardinality(P1 \union P2) = Cardinality(P1) + Cardinality(P2) - 0
    BY <2>4, <2>5
  <2>7. \A k, l \in Nat : k + l - 0 = k + l
    OBVIOUS
  <2> QED BY <2>1, <2>3, <2>6, <2>7 DEF P1, P2
<1>18. Cardinality(DayUnits(L)) = Len(L)
  <2>1. Len(L) <= 50
    BY <1>4, <1>6
  <2> QED BY <1>6, <2>1, DaysAddUp
<1>19. Cardinality(CategoryUnits(L)) = CategoryCount(L, "all")
  BY <1>6, CategoriesAddUp
<1>20. Len(intel.signed)
         = CategoryCount(ActivityFeed(tasks), "docusign") + Len(Arranged(tasks, R, Ascending(R)))
  BY <1>1, <1>9, <1>14, <1>15, <1>16, <1>17
<1>21. Cardinality(DayUnits(L)) = intel.completed
  BY <1>1, <1>6, <1>9, <1>18
<1> QED BY <1>3, <1>8, <1>19, <1>20, <1>21 DEF FeedAgrees, Filter, intel, home, R

\* What the pages of a household have to say of it.
PagesFollow(h, tasks, contacts) ==
  LET Ids(s) == {t.id : t \in Range(s)}
      Of(subject) == Filter(tasks, LAMBDA t : t.subject = subject)
      family == FamilyPage(h, tasks, contacts)
      intel == BuildIntel(h, tasks)
      narrative == BuildNarrative(intel)
      home == BuildHomeStats(tasks, <<h>>, NoOne, DefaultTriageConfig)
      feed == ActivityFeed(tasks)
      noEmail == ~\E c \in contacts : c.email
      opened == \E t \in Range(tasks) : t.subject = "account opening"
  IN  /\ Ids(family.open) = home.openItems /\ family.open = intel.open
      /\ home.overdueItems \subseteq Ids(family.open)
      /\ family.unsigned = intel.pending
      /\ home.unsignedItems =
           Ids(Filter(family.unsigned, LAMBDA t : t.status = "Not Started"))
      /\ family.reviews = <<>> <=> home.review = 1
      /\ Of("workflow review") = <<>> =>
           /\ intel.reviews = Reverse(family.reviews)
           /\ narrative.review = "flagged" <=>
                family.reviews # <<>> /\ ~ReviewPassed(family.reviews[1])
      /\ home.recentItems \subseteq Ids(feed)
      /\ SumOver(DOMAIN ByDay(feed, "all", 50), LAMBDA d : Len(ByDay(feed, "all", 50)[d]))
           = intel.completed
      /\ Len(intel.signed) = CategoryCount(feed, "docusign") + Len(Of("audit docusign"))
      /\ SumOver({"compliance", "docusign", "meeting", "audit", "task"},
                 LAMBDA c : CategoryCount(feed, c)) = CategoryCount(feed, "all")
      /\ family.quality = AtLeast0(DataQuality(tasks, h)
                                     - (IF h.mail /\ ~opened THEN 10 ELSE 0)
                                     - (IF noEmail THEN 15 ELSE 0))

\* The pages of any household agree with each other, with home and with the dashboard.
THEOREM PagesAgreed ==
  ASSUME NEW h, NEW tasks, NEW contacts, HouseholdTasks(h, tasks)
  PROVE  PagesFollow(h, tasks, contacts)
<1> DEFINE cfg == DefaultTriageConfig
           family == FamilyPage(h, tasks, contacts)
           intel == BuildIntel(h, tasks)
           narrative == BuildNarrative(intel)
           home == BuildHomeStats(tasks, <<h>>, NoOne, cfg)
           feed == ActivityFeed(tasks)
           begun == Filter(family.unsigned, LAMBDA t : t.status = "Not Started")
           asked == Filter(tasks, LAMBDA t : t.subject = "workflow review")
           audited == Filter(tasks, LAMBDA t : t.subject = "audit docusign")
<1>1. /\ IdsOf(family.open) = home.openItems /\ family.open = intel.open
      /\ home.overdueItems \subseteq IdsOf(family.open)
      /\ family.unsigned = intel.pending
      /\ home.unsignedItems = IdsOf(begun)
  <2>1. OpenAgree(h, tasks, contacts, cfg)
    BY OpenAgrees
  <2> QED BY <2>1 DEF OpenAgree
<1>2. /\ family.reviews = <<>> <=> home.review = 1
      /\ asked = <<>> =>
           /\ intel.reviews = Reverse(family.reviews)
           /\ narrative.review = "flagged" <=>
                family.reviews # <<>> /\ ~ReviewPassed(family.reviews[1])
  <2>1. ReviewsAgree(h, tasks, contacts, cfg)
    BY ReviewsAgreed
  <2> QED BY <2>1 DEF ReviewsAgree
<1>3. /\ home.recentItems \subseteq IdsOf(feed)
      /\ Cardinality(DayUnits(feed)) = intel.completed
      /\ Len(intel.signed) = CategoryCount(feed, "docusign") + Len(audited)
      /\ Cardinality(CategoryUnits(feed)) = CategoryCount(feed, "all")
  <2>1. FeedAgrees(h, tasks, cfg)
    BY FeedIsAgreed
  <2> QED BY <2>1 DEF FeedAgrees
<1>4. family.quality
        = AtLeast0(DataQuality(tasks, h)
                     - (IF h.mail /\ ~\E t \in Range(tasks) : t.subject = "account opening"
                          THEN 10 ELSE 0)
                     - (IF ~\E c \in contacts : c.email THEN 15 ELSE 0))
  BY QualityAgrees
<1> HIDE DEF family, intel, narrative, home, feed, begun, asked, audited
<1>5. /\ SumOver(DOMAIN ByDay(feed, "all", 50), LAMBDA d : Len(ByDay(feed, "all", 50)[d]))
           = intel.completed
      /\ SumOver({"compliance", "docusign", "meeting", "audit", "task"},
                 LAMBDA c : CategoryCount(feed, c)) = CategoryCount(feed, "all")
  BY <1>3 DEF SumOver, DayUnits, CategoryUnits, Categories
<1> QED BY <1>1, <1>2, <1>3, <1>4, <1>5
        DEF PagesFollow, IdsOf, family, intel, narrative, home, feed, begun, asked, audited

\* The household shown is one whose tasks the pages are made of.
HouseholdInv == At("household") => HouseholdTasks(input.household, input.tasks)

LEMMA FiledOf == \A f \in Filed : f.subject \in Audit => f.status = "filed"
<1> DEFINE S == {[subject |-> s, status |-> w, priority |-> FiledPriority(s, passed)] :
                   s \in Subjects \ {"plan"}, passed \in BOOLEAN,
                   w \in {"filed", "In Progress", "Completed"}}
<1>1. Filed = {f \in S : f.subject \in Audit => f.status = "filed"}
  BY DEF Filed
<1> HIDE DEF S
<1> QED BY <1>1

LEMMA HouseholdInvariant == FiguresSpec => []HouseholdInv
<1>1. FiguresInit => HouseholdInv
  BY DEF FiguresInit, HouseholdInv, At
<1>2. HouseholdInv /\ [FiguresNext]_input => HouseholdInv'
  <2> SUFFICES ASSUME HouseholdInv, [FiguresNext]_input PROVE HouseholdInv'
    OBVIOUS
  <2>1. CASE ShowHousehold
    <3> DEFINE Shown(age, mail, n, days, f) ==
                 /\ input'.household = Ash(age, mail)
                 /\ input'.tasks = [i \in 1..n |->
                      Task(<<"t1", "t2">>[i], f[i].subject,
                           IF f[i].status = "filed" THEN FiledStatus(f[i].subject)
                           ELSE f[i].status,
                           f[i].priority, DueOf(f[i].subject), days[i], Ash(age, mail))]
    <3>0. PICK age \in {1, 120}, n \in 0..2, days \in {<<0, 1>>, <<5, 95>>, <<95, 100>>},
               email, mail \in BOOLEAN :
            \E f \in [1..n -> Filed] :
              LET h == Ash(age, mail)
                  status(i) == IF f[i].status = "filed" THEN FiledStatus(f[i].subject)
                               ELSE f[i].status
              IN  /\ \A i \in 1..n : days[i] <= age
                  /\ input' = [kind |-> "household", household |-> h,
                               contacts |-> {[email |-> email]},
                               tasks |-> [i \in 1..n |->
                                 Task(<<"t1", "t2">>[i], f[i].subject, status(i), f[i].priority,
                                      DueOf(f[i].subject), days[i], h)]]
      BY <2>1, Zenon DEF ShowHousehold
    <3>1. PICK f \in [1..n -> Filed] : Shown(age, mail, n, days, f)
      BY <3>0
    <3> DEFINE h == Ash(age, mail)
               ts == input'.tasks
    <3>2. h.id = "h1" /\ h.name = "Ash"
      BY DEF Ash
    <3> HIDE DEF h
    <3>3. DOMAIN ts = 1..n /\ \A i \in 1..n :
            /\ ts[i].household = h.id /\ ts[i].name = h.name /\ ts[i].created = days[i]
            /\ ts[i].subject = f[i].subject
            /\ f[i].status = "filed" => ts[i].status = FiledStatus(f[i].subject)
      BY <3>1 DEF Task, h
    <3>4. \A i \in 1..n : f[i].subject \in Audit => f[i].status = "filed"
      BY FiledOf
    <3>5. \A i \in 1..n : ts[i].subject \in Audit => ts[i].status = "Completed"
      BY <3>3, <3>4 DEF FiledStatus
    <3>6. n \in Nat /\ n <= 2 /\ \A i \in 1..n : i \in {1, 2}
      OBVIOUS
    <3>7. days[1] \in Nat /\ days[2] \in Nat /\ days[1] < days[2]
      OBVIOUS
    <3>8. ts \in Seq(Range(ts)) /\ Len(ts) = n
      <4>1. ts = [i \in 1..n |-> ts[i]]
        BY <3>1
      <4>2. \A i \in 1..n : ts[i] \in Range(ts)
        BY <3>3 DEF Range
      <4> HIDE DEF ts
      <4> DEFINE s == [i \in 1..n |-> ts[i]]
      <4>3. s \in Seq(Range(ts)) /\ Len(s) = n
        BY <3>6, <4>2
      <4> QED BY <4>1, <4>3
    <3>9. NewToOld(ts)
      <4>1. \A i, j \in 1..n : i < j => i = 1 /\ j = 2
        BY <3>6
      <4> HIDE DEF ts
      <4> QED BY <3>3, <3>6, <3>7, <4>1 DEF NewToOld
    <3>10. \A t \in Range(ts) : /\ t.household = h.id /\ t.name = h.name
                                /\ t.subject \in Audit => t.status = "Completed"
      BY <3>3, <3>5 DEF Range
    <3>11. h.name # NoOne
      BY <3>2 DEF NoOne
    <3>12. Len(ts) <= 20
      BY <3>6, <3>8
    <3> HIDE DEF ts
    <3>13. HouseholdTasks(h, ts)
      BY <3>8, <3>9, <3>10, <3>11, <3>12 DEF HouseholdTasks
    <3>14. input'.household = h
      BY <3>1 DEF h
    <3> QED BY <3>13, <3>14 DEF HouseholdInv, ts
  <2>2. CASE UNCHANGED input
    BY <2>2 DEF HouseholdInv, At
  <2> QED BY <2>1, <2>2, KindOf DEF FiguresNext, HouseholdInv, At
<1> QED BY <1>1, <1>2, PTL DEF FiguresSpec

\* The screens of the practice agree with each other and with those of a household.
THEOREM ScreensAgreeHolds == FiguresSpec => []ScreensAgree
<1>1. PracticeInv => ListsAgree
  <2> SUFFICES ASSUME PracticeInv, At("practice"), NEW day \in {0, 6}, NEW behindUTC \in BOOLEAN,
                      NEW done \in {{}, {"t1"}}
               PROVE  ListsAccount(input.tasks, input.households, DefaultTriageConfig, day,
                                   behindUTC, done)
    BY DEF ListsAgree, ListsAccount
  <2> QED BY ListsFollowHome DEF PracticeInv
<1>2. HouseholdInv => PagesAgree
  <2> SUFFICES ASSUME HouseholdInv, At("household")
               PROVE  PagesFollow(input.household, input.tasks, input.contacts)
    BY DEF PagesAgree, PagesFollow
  <2> QED BY PagesAgreed DEF HouseholdInv
<1>3. PracticeInv /\ HouseholdInv => ScreensAgree
  BY <1>1, <1>2 DEF ScreensAgree
<1> QED BY <1>3, PracticeInvariant, HouseholdInvariant, PTL

===============================================================================
