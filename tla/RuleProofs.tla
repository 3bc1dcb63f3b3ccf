----------------------------- MODULE RuleProofs -----------------------------
(* What is proved of the rules for every input, and not only the small     *)
(* ones of MCRules: what an alert is raised for, how a receipt is matched, *)
(* and what is read off a statement, an export or a receipt.               *)
EXTENDS MCRules, FiniteSetTheorems, SequenceTheorems, TLAPS

-----------------------------------------------------------------------------
(***************************************************************************)
(* Order statistics.                                                       *)
(***************************************************************************)

(* The members of a family below a number, and up to it. *)
Below(v, x) == {i \in DOMAIN v : v[i] < x}
UpTo(v, x) == {i \in DOMAIN v : v[i] <= x}

(* A non-empty set of natural numbers has a least element. *)
LEMMA LeastNatural ==
    ASSUME NEW T \in SUBSET Nat, T # {}
    PROVE  \E x \in T : \A y \in T : x <= y
<1> DEFINE less == {p \in Nat \X Nat : p[1] < p[2]}
<1>1. IsWellFoundedOn(less, Nat)
  BY NatLessThanWellFounded, Zenon DEF OpToRel
<1>2. PICK x \in T : \A y \in T : <<y, x>> \notin less
  BY <1>1, WFMin, Zenon
<1>3. \A y \in T : ~(y < x)  BY <1>2
<1> QED  BY <1>3

(* Both parts of a finite family are finite. *)
LEMMA PartsFinite ==
    ASSUME NEW I, IsFiniteSet(I), NEW v \in [I -> Int], NEW x \in Int
    PROVE  /\ IsFiniteSet(Below(v, x)) /\ IsFiniteSet(UpTo(v, x))
           /\ Cardinality(Below(v, x)) \in Nat /\ Cardinality(UpTo(v, x)) \in Nat
           /\ Cardinality(I) \in Nat
           /\ Cardinality(UpTo(v, x)) <= Cardinality(I)
<1>1. Below(v, x) \in SUBSET I /\ UpTo(v, x) \in SUBSET I  BY DEF Below, UpTo
<1> QED  BY <1>1, FS_Subset, FS_CardinalityType

(* What is left out makes a finite set smaller. *)
LEMMA SmallerSubset ==
    ASSUME NEW S, IsFiniteSet(S), NEW T \in SUBSET S, NEW x \in S, x \notin T
    PROVE  /\ IsFiniteSet(T) /\ Cardinality(T) \in Nat /\ Cardinality(S) \in Nat
           /\ Cardinality(T) < Cardinality(S)
<1>1. IsFiniteSet(T) /\ Cardinality(T) <= Cardinality(S) /\ T # S
  BY FS_Subset
<1>2. Cardinality(T) # Cardinality(S)  BY <1>1, FS_Subset
<1>3. Cardinality(T) \in Nat /\ Cardinality(S) \in Nat  BY <1>1, FS_CardinalityType
<1> QED  BY <1>1, <1>2, <1>3

(* A finite, non-empty family of integers has a greatest member. *)
LEMMA FamilyGreatest ==
    ASSUME NEW I, IsFiniteSet(I), I # {}, NEW v \in [I -> Int]
    PROVE  \E m \in I : \A i \in I : v[i] <= v[m]
<1> DEFINE Rank(m) == Cardinality(I) - Cardinality(UpTo(v, v[m]))
           ranks == {Rank(m) : m \in I}
<1>1. \A m \in I : Rank(m) \in Nat  BY PartsFinite
<1>2. ranks \in SUBSET Nat /\ ranks # {}  BY <1>1
<1>3. PICK least \in ranks : \A r \in ranks : least <= r
  <2> HIDE DEF ranks
  <2> QED  BY <1>2, LeastNatural
<1>4. PICK m \in I : least = Rank(m)  OBVIOUS
<1>5. \A i \in I : Cardinality(UpTo(v, v[i])) <= Cardinality(UpTo(v, v[m]))
  <2> SUFFICES ASSUME NEW i \in I
               PROVE  Cardinality(UpTo(v, v[i])) <= Cardinality(UpTo(v, v[m]))
    OBVIOUS
  <2>1. Rank(i) \in ranks  OBVIOUS
  <2>2. Rank(m) <= Rank(i)  BY <1>3, <1>4, <2>1
  <2> QED  BY <2>2, PartsFinite
<1>6. ASSUME NEW i \in I, v[m] < v[i]  PROVE FALSE
  <2>1. UpTo(v, v[m]) \in SUBSET UpTo(v, v[i]) /\ i \in UpTo(v, v[i]) /\ i \notin UpTo(v, v[m])
    BY <1>6 DEF UpTo
  <2>2. Cardinality(UpTo(v, v[m])) < Cardinality(UpTo(v, v[i]))
    BY <2>1, PartsFinite, SmallerSubset
  <2> QED  BY <2>2, <1>5, PartsFinite
<1> QED  BY <1>6

(* The member of rank k: fewer than k are below it, k are not above. *)
Ranked(v, k, x) ==
    /\ x \in {v[i] : i \in DOMAIN v}
    /\ Cardinality(Below(v, x)) < k /\ k <= Cardinality(UpTo(v, x))

(* There is one for every rank. *)
LEMMA RankedExists ==
    ASSUME NEW I, IsFiniteSet(I), NEW v \in [I -> Int], NEW k \in 1 .. Cardinality(I)
    PROVE  \E x : Ranked(v, k, x)
<1> DEFINE Count(m) == Cardinality(UpTo(v, v[m]))
           counts == {Count(m) : m \in {i \in I : k <= Count(i)}}
<1>1. \A m \in I : Count(m) \in Nat  BY PartsFinite
<1>2. I # {} /\ Cardinality(I) \in Nat  BY FS_EmptySet, FS_CardinalityType
<1>3. PICK top \in I : \A i \in I : v[i] <= v[top]  BY <1>2, FamilyGreatest
<1>4. UpTo(v, v[top]) = I  BY <1>3 DEF UpTo
<1>5. counts \in SUBSET Nat /\ counts # {}  BY <1>1, <1>2, <1>4
<1>6. PICK least \in counts : \A c \in counts : least <= c
  <2> HIDE DEF counts
  <2> QED  BY <1>5, LeastNatural
<1>7. PICK m \in I : k <= Count(m) /\ least = Count(m)  OBVIOUS
<1>8. ASSUME k <= Cardinality(Below(v, v[m]))  PROVE FALSE
  <2> DEFINE L == Below(v, v[m])  w == [i \in L |-> v[i]]
  <2>1. IsFiniteSet(L) /\ Cardinality(L) \in Nat  BY PartsFinite
  <2>2. L # {}  BY <1>8, <1>2, FS_EmptySet
  <2>3. w \in [L -> Int]  BY DEF Below
  <2>4. PICK j \in L : \A i \in L : w[i] <= w[j]
    <3> HIDE DEF L, w
    <3> QED  BY <2>1, <2>2, <2>3, FamilyGreatest
  <2>5. j \in I /\ v[j] < v[m] /\ \A i \in I : v[i] < v[m] => v[i] <= v[j]
    BY <2>4 DEF Below
  <2>6. UpTo(v, v[j]) = L  BY <2>5 DEF UpTo, Below
  <2>7. k <= Count(j)  BY <2>6, <1>8
  <2>8. L \in SUBSET UpTo(v, v[m]) /\ m \in UpTo(v, v[m]) /\ m \notin L
    BY DEF UpTo, Below
  <2>9. Count(j) < Count(m)
    BY <2>6, <2>8, PartsFinite, SmallerSubset
  <2>10. least <= Count(j)  BY <1>6, <2>5, <2>7
  <2> QED  BY <1>1, <1>7, <2>5, <2>9, <2>10
<1>9. Cardinality(Below(v, v[m])) < k  BY <1>8, <1>2, PartsFinite
<1> QED  BY <1>7, <1>9 DEF Ranked

(* And no other. *)
LEMMA RankedUnique ==
    ASSUME NEW I, IsFiniteSet(I), NEW v \in [I -> Int], NEW k \in Int,
           NEW x, NEW y, Ranked(v, k, x), Ranked(v, k, y)
    PROVE  x = y
<1>1. x \in Int /\ y \in Int  BY DEF Ranked
<1>2. ASSUME NEW a \in Int, NEW b \in Int, Ranked(v, k, a), Ranked(v, k, b), a < b  PROVE FALSE
  <2>1. UpTo(v, a) \in SUBSET Below(v, b)  BY <1>2 DEF UpTo, Below
  <2>2. Cardinality(UpTo(v, a)) <= Cardinality(Below(v, b))
    BY <2>1, PartsFinite, FS_Subset
  <2> QED  BY <1>2, <2>2, PartsFinite DEF Ranked
<1> QED  BY <1>1, <1>2

(* That is the one Kth finds. *)
LEMMA KthIs ==
    ASSUME NEW I, IsFiniteSet(I), NEW v \in [I -> Int], NEW k \in 1 .. Cardinality(I)
    PROVE  Ranked(v, k, Kth(v, k)) /\ Kth(v, k) \in Int
<1>1. PICK x : Ranked(v, k, x)  BY RankedExists
<1>2. Ranked(v, k, Kth(v, k))  BY <1>1, Zenon DEF Ranked, Kth, Below, UpTo
<1> QED  BY <1>2 DEF Ranked

(* And the only one it can find. *)
LEMMA KthOnly ==
    ASSUME NEW I, IsFiniteSet(I), NEW v \in [I -> Int], NEW k \in 1 .. Cardinality(I),
           NEW x, Ranked(v, k, x)
    PROVE  Kth(v, k) = x
BY KthIs, RankedUnique, FS_CardinalityType

(* The two middle ranks of a family. *)
LEMMA MiddleRanks ==
    ASSUME NEW n \in Nat \ {0}
    PROVE  (n + 1) \div 2 \in 1 .. n /\ (n + 2) \div 2 \in 1 .. n
OBVIOUS

(* Twice the median of a finite, non-empty family of integers is an        *)
(* integer, no more than twice any bound of them.                          *)
LEMMA TwiceMedianIs ==
    ASSUME NEW I, IsFiniteSet(I), I # {}, NEW v \in [I -> Int]
    PROVE  /\ TwiceMedian(v) \in Int
           /\ \A b \in Int : (\A i \in I : v[i] <= b) => TwiceMedian(v) <= 2 * b
           /\ \A b \in Int : (\A i \in I : b <= v[i]) => 2 * b <= TwiceMedian(v)
<1> DEFINE n == Cardinality(I)
           low == Kth(v, (n + 1) \div 2)
           high == Kth(v, (n + 2) \div 2)
<1>1. n \in Nat \ {0}  BY FS_CardinalityType, FS_EmptySet
<1>2. (n + 1) \div 2 \in 1 .. n /\ (n + 2) \div 2 \in 1 .. n
  <2> HIDE DEF n
  <2> QED  BY <1>1, MiddleRanks
<1>3. low \in Int /\ Ranked(v, (n + 1) \div 2, low)  BY <1>2, KthIs
<1>4. high \in Int /\ Ranked(v, (n + 2) \div 2, high)  BY <1>2, KthIs
<1>5. TwiceMedian(v) = low + high  BY Zenon DEF TwiceMedian
<1>6. low \in {v[i] : i \in I} /\ high \in {v[i] : i \in I}
  BY <1>3, <1>4 DEF Ranked
<1> HIDE DEF low, high, n
<1> QED  BY <1>3, <1>4, <1>5, <1>6

(* A greatest member that grows moves no rank but the last. *)
LEMMA RaiseGreatest ==
    ASSUME NEW I, IsFiniteSet(I), NEW v \in [I -> Int], NEW m \in I,
           \A i \in I : v[i] <= v[m], NEW k \in 1 .. Cardinality(I) - 1,
           NEW w \in [I -> Int], v[m] <= w[m], \A i \in I \ {m} : w[i] = v[i]
    PROVE  Kth(w, k) = Kth(v, k)
<1> DEFINE x == Kth(v, k)
<1>1. Cardinality(I) \in Nat /\ k \in 1 .. Cardinality(I)  BY FS_CardinalityType
<1>2. x \in Int /\ Ranked(v, k, x)  BY <1>1, KthIs
<1> HIDE DEF x
<1>4. IsFiniteSet(I \ {m}) /\ Cardinality(I \ {m}) = Cardinality(I) - 1
  BY FS_RemoveElement
<1>5. x <= v[m]  BY <1>2 DEF Ranked
<1>6. Below(w, x) = Below(v, x)  BY <1>2, <1>5 DEF Below
<1>7. x \in {w[i] : i \in I}
  <2>1. CASE \E i \in I \ {m} : v[i] = x  BY <2>1
  <2>2. CASE ~\E i \in I \ {m} : v[i] = x
    <3>1. x = v[m]  BY <2>2, <1>2 DEF Ranked
    <3>2. Below(v, x) = I \ {m}
      <4>1. \A i \in I \ {m} : v[i] < x  BY <2>2, <3>1
      <4> QED  BY <3>1, <4>1 DEF Below
    <3> QED  BY <3>2, <1>1, <1>2, <1>4 DEF Ranked
  <2> QED  BY <2>1, <2>2
<1>8. k <= Cardinality(UpTo(w, x))
  <2>1. CASE v[m] = x
    <3>1. I \ {m} \in SUBSET UpTo(w, x)  BY <2>1 DEF UpTo
    <3>2. IsFiniteSet(UpTo(w, x)) /\ Cardinality(UpTo(w, x)) \in Nat
      BY <1>2, PartsFinite
    <3>3. Cardinality(I \ {m}) <= Cardinality(UpTo(w, x))  BY <3>1, <3>2, FS_Subset
    <3> QED  BY <3>2, <3>3, <1>1, <1>4
  <2>2. CASE v[m] # x
    <3>1. UpTo(w, x) = UpTo(v, x)  BY <2>2, <1>2, <1>5 DEF UpTo
    <3> QED  BY <3>1, <1>2 DEF Ranked
  <2> QED  BY <2>1, <2>2
<1>9. Ranked(w, k, x)  BY <1>2, <1>6, <1>7, <1>8 DEF Ranked
<1>10. Kth(w, k) = x  BY <1>1, <1>9, KthOnly
<1> QED  BY <1>10 DEF x

(* So of three members or more the median stays. *)
LEMMA RaiseKeepsMedian ==
    ASSUME NEW I, IsFiniteSet(I), Cardinality(I) >= 3, NEW v \in [I -> Int], NEW m \in I,
           \A i \in I : v[i] <= v[m],
           NEW w \in [I -> Int], v[m] <= w[m], \A i \in I \ {m} : w[i] = v[i]
    PROVE  TwiceMedian(w) = TwiceMedian(v)
<1> DEFINE n == Cardinality(I)
<1>1. n \in Nat /\ n >= 3  BY FS_CardinalityType
<1>2. (n + 1) \div 2 \in 1 .. n - 1 /\ (n + 2) \div 2 \in 1 .. n - 1
  <2> HIDE DEF n
  <2> QED  BY <1>1
<1>3. DOMAIN w = I /\ DOMAIN v = I  OBVIOUS
<1>4. \A k \in 1 .. n - 1 : Kth(w, k) = Kth(v, k)  BY RaiseGreatest
<1>5. /\ Kth(w, (n + 1) \div 2) = Kth(v, (n + 1) \div 2)
      /\ Kth(w, (n + 2) \div 2) = Kth(v, (n + 2) \div 2)
  BY <1>2, <1>4, Zenon
<1> QED  BY <1>3, <1>5, Zenon DEF TwiceMedian

-----------------------------------------------------------------------------
(***************************************************************************)
(* Alerts.                                                                 *)
(***************************************************************************)

(* A book of any length. *)
AnyBook(book) ==
    \E n \in Nat :
        /\ DOMAIN book = 1 .. n
        /\ \A i \in 1 .. n : book[i].day \in Int /\ book[i].amount \in Int

(* The size of a number. *)
LEMMA SizeIs ==
    /\ \A n \in Int : Size(n) \in Nat /\ (n < 0 => Size(n) = -n) /\ (n >= 0 => Size(n) = n)
    /\ \A n \in Nat : Size(-n) = n
BY DEF Size

(* How far the members of a family are from their median, doubled. *)
Deviations(v) == [i \in DOMAIN v |-> Size(2 * v[i] - TwiceMedian(v))]

(* What an outlier is. *)
LEMMA OutlyingIs ==
    ASSUME NEW v, NEW value
    PROVE  Outlying(value, v) <=>
            /\ Cardinality(DOMAIN v) >= UnusualSamples
            /\ IF TwiceMedian(Deviations(v)) = 0
               THEN TwiceMedian(v) > 0 /\ 2 * value >= 3 * TwiceMedian(v)
               ELSE 6745 * 2 * (2 * value - TwiceMedian(v)) >= 35000 * TwiceMedian(Deviations(v))
BY DEF Outlying, Deviations

(* Two samples, of which the greatest is larger in one and is the furthest *)
(* from the median, have the same outliers, if they are three or more.     *)
LEMMA GreatestHidesNothing ==
    ASSUME NEW I, IsFiniteSet(I), Cardinality(I) >= 3, NEW v \in [I -> Int], NEW m \in I,
           \A i \in I : v[i] <= v[m],
           \A i \in I : Size(2 * v[i] - TwiceMedian(v)) <= Size(2 * v[m] - TwiceMedian(v)),
           NEW w \in [I -> Int], v[m] <= w[m], \A i \in I \ {m} : w[i] = v[i],
           NEW value \in Int
    PROVE  Outlying(value, v) <=> Outlying(value, w)
<1> DEFINE median == TwiceMedian(v)  dv == Deviations(v)  dw == Deviations(w)
<1>1. I # {}  OBVIOUS
<1>2. median \in Int /\ median <= 2 * v[m]  BY <1>1, TwiceMedianIs
<1>3. TwiceMedian(w) = median  BY RaiseKeepsMedian
<1>4. DOMAIN v = I /\ DOMAIN w = I  OBVIOUS
<1>5. /\ dv = [i \in I |-> Size(2 * v[i] - median)]
      /\ dw = [i \in I |-> Size(2 * w[i] - median)]
  BY <1>3, <1>4 DEF Deviations
<1>6. \A i \in I : dv[i] <= dv[m]  BY <1>5
<1> HIDE DEF median, dv, dw
<1>7. dv \in [I -> Int] /\ dw \in [I -> Int]  BY <1>2, <1>5, SizeIs
<1>8. dv[m] <= dw[m] /\ \A i \in I \ {m} : dw[i] = dv[i]  BY <1>2, <1>5, SizeIs
<1>9. TwiceMedian(dw) = TwiceMedian(dv)
  BY <1>6, <1>7, <1>8, RaiseKeepsMedian
<1> QED  BY <1>3, <1>4, <1>9, OutlyingIs DEF median, dv, dw

(* A larger value is an outlier wherever a smaller one is. *)
LEMMA OutlyingGrows ==
    ASSUME NEW I, IsFiniteSet(I), NEW v \in [I -> Int], NEW value \in Int,
           NEW greater \in Int, value <= greater, Outlying(value, v)
    PROVE  Outlying(greater, v)
<1> DEFINE median == TwiceMedian(v)  deviations == Deviations(v)
<1>1. Cardinality(I) >= UnusualSamples  BY OutlyingIs
<1>2. I # {}
  <2> SUFFICES ASSUME I = {}  PROVE FALSE  OBVIOUS
  <2> QED  BY <1>1, FS_EmptySet, DetectingAssumption
<1>3. median \in Int  BY <1>2, TwiceMedianIs
<1>4. deviations \in [I -> Int]
  <2>1. deviations = [i \in I |-> Size(2 * v[i] - median)]  BY DEF Deviations
  <2> HIDE DEF median, deviations
  <2> QED  BY <1>3, <2>1, SizeIs
<1>5. TwiceMedian(deviations) \in Int
  <2> HIDE DEF deviations
  <2> QED  BY <1>2, <1>4, TwiceMedianIs
<1> QED  BY <1>3, <1>5, OutlyingIs

(* The histories of a charge are finite families of sizes. *)
LEMMA HistoriesAre ==
    ASSUME NEW book, AnyBook(book), NEW i \in DOMAIN book
    PROVE  /\ IsFiniteSet(MerchantHistory(book, i)) /\ IsFiniteSet(CategoryHistory(book, i))
           /\ Sizes(book, MerchantHistory(book, i)) \in [MerchantHistory(book, i) -> Nat]
           /\ Sizes(book, CategoryHistory(book, i)) \in [CategoryHistory(book, i) -> Nat]
           /\ Size(book[i].amount) \in Nat /\ book[i].day \in Int /\ book[i].amount \in Int
<1>1. IsFiniteSet(DOMAIN book)  BY FS_Interval DEF AnyBook
<1>2. MerchantHistory(book, i) \in SUBSET DOMAIN book  BY DEF MerchantHistory
<1>3. CategoryHistory(book, i) \in SUBSET DOMAIN book  BY DEF CategoryHistory
<1>4. \A j \in DOMAIN book :
        Size(book[j].amount) \in Nat /\ book[j].day \in Int /\ book[j].amount \in Int
  BY SizeIs DEF AnyBook
<1> QED  BY <1>1, <1>2, <1>3, <1>4, FS_Subset DEF Sizes

(* Max finds the greatest size of a finite, non-empty family. *)
LEMMA GreatestSize ==
    ASSUME NEW I, IsFiniteSet(I), I # {}, NEW v \in [I -> Int]
    PROVE  LET known == {v[i] : i \in I}
           IN Max(known) \in Int /\ \A i \in I : v[i] <= Max(known)
<1> DEFINE known == {v[i] : i \in I}
<1>1. PICK m \in I : \A i \in I : v[i] <= v[m]  BY FamilyGreatest
<1>2. v[m] \in known /\ \A y \in known : v[m] >= y  BY <1>1
<1>3. Max(known) \in known /\ \A y \in known : Max(known) >= y
  BY <1>2, Zenon DEF Max
<1> QED  BY <1>3

(* Two books that differ in one outflow, which is larger in the second.    *)
Grown(book, larger, i) ==
    /\ AnyBook(book) /\ AnyBook(larger) /\ DOMAIN book = DOMAIN larger /\ i \in DOMAIN book
    /\ \A j \in DOMAIN book \ {i} : larger[j] = book[j]
    /\ larger[i].day = book[i].day /\ larger[i].merchant = book[i].merchant
    /\ larger[i].category = book[i].category /\ larger[i].currency = book[i].currency
    /\ larger[i].amount <= book[i].amount /\ book[i].amount < 0

(* They have the same histories, and the larger charge is the larger. *)
LEMMA GrownHistories ==
    ASSUME NEW book, NEW larger, NEW i, Grown(book, larger, i)
    PROVE  /\ MerchantHistory(larger, i) = MerchantHistory(book, i)
           /\ CategoryHistory(larger, i) = CategoryHistory(book, i)
           /\ \A j \in MerchantHistory(book, i) \cup CategoryHistory(book, i) :
                 larger[j] = book[j]
           /\ Sizes(larger, MerchantHistory(book, i)) = Sizes(book, MerchantHistory(book, i))
           /\ Sizes(larger, CategoryHistory(book, i)) = Sizes(book, CategoryHistory(book, i))
           /\ Size(book[i].amount) <= Size(larger[i].amount)
           /\ larger[i].amount < 0
<1>1. MerchantHistory(larger, i) = MerchantHistory(book, i)
  BY DEF Grown, MerchantHistory
<1>2. CategoryHistory(larger, i) = CategoryHistory(book, i)
  BY DEF Grown, CategoryHistory
<1>3. \A j \in MerchantHistory(book, i) \cup CategoryHistory(book, i) : larger[j] = book[j]
  BY DEF Grown, MerchantHistory, CategoryHistory
<1>4. book[i].amount \in Int /\ larger[i].amount \in Int
  BY HistoriesAre DEF Grown
<1>5. Size(book[i].amount) <= Size(larger[i].amount) /\ larger[i].amount < 0
  BY <1>4, SizeIs DEF Grown
<1> QED  BY <1>1, <1>2, <1>3, <1>5 DEF Sizes

(* What is normal for a merchant is so for a smaller charge too. *)
LEMMA NormalShrinks ==
    ASSUME NEW book, NEW larger, NEW i, Grown(book, larger, i), NormalForMerchant(larger, i)
    PROVE  NormalForMerchant(book, i)
<1> DEFINE rows == MerchantHistory(book, i)  known == Sizes(book, rows)
<1>1. Sizes(larger, MerchantHistory(larger, i)) = known  BY GrownHistories
<1>2. AnyBook(book) /\ AnyBook(larger) /\ i \in DOMAIN book /\ i \in DOMAIN larger
  BY DEF Grown
<1>3. IsFiniteSet(rows) /\ known \in [rows -> Int]  BY <1>2, HistoriesAre
<1>4. Size(book[i].amount) \in Nat /\ Size(larger[i].amount) \in Nat
      /\ Size(book[i].amount) <= Size(larger[i].amount)
  BY <1>2, HistoriesAre, GrownHistories
<1> HIDE DEF rows, known
<1>5. Cardinality(DOMAIN known) >= FamiliarSamples  BY <1>1 DEF NormalForMerchant
<1>6. rows # {}
  <2> SUFFICES ASSUME rows = {}  PROVE FALSE  OBVIOUS
  <2> QED  BY <1>3, <1>5, FS_EmptySet, DetectingAssumption
<1>7. TwiceMedian(known) \in Int  BY <1>3, <1>6, TwiceMedianIs
<1>8. TwiceMedian(known) > 0 /\ 4 * Size(larger[i].amount) <= 3 * TwiceMedian(known)
  BY <1>1 DEF NormalForMerchant
<1>9. 4 * Size(book[i].amount) <= 3 * TwiceMedian(known)  BY <1>4, <1>7, <1>8
<1> QED  BY <1>5, <1>8, <1>9 DEF NormalForMerchant, known, rows

(* What is said of the size of a charge. *)
SizeAlerts == {"unusual_amount", "new_merchant", "large_for_merchant"}

(* What is said of a charge. *)
LEMMA DetectedIs ==
    ASSUME NEW book, NEW i, book[i].amount < 0, book[i].amount \in Int
    PROVE  \A a : a \in Detected(book, i) <=>
            /\ book[i].category # "transfers"
            /\ \/ a = "duplicate" /\ ExactDuplicate(book, i)
               \/ a = "near_duplicate" /\ NearDuplicate(book, i) /\ ~ExactDuplicate(book, i)
               \/ a = "unusual_amount" /\ UnusualAmount(book, i)
               \/ a = "new_merchant" /\ NewMerchant(book, i)
               \/ a = "large_for_merchant" /\ LargeForMerchant(book, i)
BY DEF Detected

(* Every alert about the size of a charge is raised for a larger one, in   *)
(* any book: no larger charge is said less of.                             *)
THEOREM LargerIsSaidMoreOf ==
    ASSUME NEW book, NEW larger, NEW i, Grown(book, larger, i)
    PROVE  Detected(book, i) \cap SizeAlerts \subseteq Detected(larger, i)
<1>1. /\ AnyBook(book) /\ AnyBook(larger) /\ i \in DOMAIN book /\ i \in DOMAIN larger
      /\ larger[i].category = book[i].category /\ book[i].amount < 0
  BY DEF Grown
<1>2. /\ Size(book[i].amount) \in Nat /\ Size(larger[i].amount) \in Nat
      /\ book[i].amount \in Int /\ larger[i].amount \in Int
      /\ Size(book[i].amount) <= Size(larger[i].amount) /\ larger[i].amount < 0
  BY <1>1, HistoriesAre, GrownHistories
<1>3. UnusualAmount(book, i) => UnusualAmount(larger, i)
  <2> DEFINE rows == CategoryHistory(book, i)  samples == Sizes(book, rows)
  <2>1. IsFiniteSet(rows) /\ samples \in [rows -> Int]  BY <1>1, HistoriesAre
  <2>2. Sizes(larger, CategoryHistory(larger, i)) = samples  BY GrownHistories
  <2> HIDE DEF rows, samples
  <2> SUFFICES ASSUME UnusualAmount(book, i)  PROVE UnusualAmount(larger, i)  OBVIOUS
  <2>3. Outlying(Size(book[i].amount), samples)  BY DEF UnusualAmount, samples, rows
  <2>4. Outlying(Size(larger[i].amount), samples)  BY <1>2, <2>1, <2>3, OutlyingGrows
  <2>5. ~NormalForMerchant(larger, i)  BY NormalShrinks DEF UnusualAmount
  <2>6. Size(larger[i].amount) >= UnusualFloor
    BY <1>2, DetectingAssumption DEF UnusualAmount
  <2> QED  BY <1>1, <2>2, <2>4, <2>5, <2>6 DEF UnusualAmount
<1>4. NewMerchant(book, i) => NewMerchant(larger, i)
  BY <1>2, GrownHistories, DetectingAssumption DEF NewMerchant
<1>5. LargeForMerchant(book, i) => LargeForMerchant(larger, i)
  <2> DEFINE rows == MerchantHistory(book, i)  known == {Size(book[j].amount) : j \in rows}
  <2>1. rows = MerchantHistory(larger, i)
        /\ known = {Size(larger[j].amount) : j \in MerchantHistory(larger, i)}
    BY GrownHistories
  <2>2. rows # {} => Max(known) \in Int
    <3>1. IsFiniteSet(rows) /\ Sizes(book, rows) \in [rows -> Int]  BY <1>1, HistoriesAre
    <3>2. known = {Sizes(book, rows)[j] : j \in rows}  BY DEF Sizes
    <3> HIDE DEF rows, known
    <3> QED  BY <3>1, <3>2, GreatestSize
  <2> SUFFICES ASSUME LargeForMerchant(book, i)  PROVE LargeForMerchant(larger, i)  OBVIOUS
  <2>3. /\ Size(book[i].amount) >= LargeFloor /\ Cardinality(rows) >= LargeSamples
        /\ Max(known) > 0 /\ Size(book[i].amount) >= 2 * Max(known)
    BY DEF LargeForMerchant
  <2>4. rows # {}
    <3> SUFFICES ASSUME rows = {}  PROVE FALSE  OBVIOUS
    <3> QED  BY <2>3, FS_EmptySet, DetectingAssumption
  <2> HIDE DEF rows, known
  <2>5. Size(larger[i].amount) >= LargeFloor /\ Size(larger[i].amount) >= 2 * Max(known)
    BY <1>2, <2>2, <2>3, <2>4, DetectingAssumption
  <2> QED  BY <2>1, <2>3, <2>5, Zenon DEF LargeForMerchant
<1> QED  BY <1>1, <1>2, <1>3, <1>4, <1>5, DetectedIs DEF SizeAlerts

(* A charge that is large for its merchant is not normal there, in any     *)
(* book: what normal charges silence never silences it.                    *)
THEOREM LargeIsNotNormal ==
    ASSUME NEW book, AnyBook(book), NEW i \in DOMAIN book, LargeForMerchant(book, i)
    PROVE  ~NormalForMerchant(book, i)
<1> DEFINE rows == MerchantHistory(book, i)
           sizes == Sizes(book, rows)
           known == {Size(book[j].amount) : j \in rows}
<1>1. /\ Cardinality(rows) >= LargeSamples
      /\ Max(known) > 0 /\ Size(book[i].amount) >= 2 * Max(known)
  BY DEF LargeForMerchant
<1>2. rows # {}
  <2> SUFFICES ASSUME rows = {}  PROVE FALSE  OBVIOUS
  <2> QED  BY <1>1, FS_EmptySet, DetectingAssumption
<1>3. IsFiniteSet(rows) /\ sizes \in [rows -> Int] /\ Size(book[i].amount) \in Nat
  BY HistoriesAre
<1>4. known = {sizes[j] : j \in rows}  BY DEF Sizes
<1> SUFFICES ASSUME NormalForMerchant(book, i)  PROVE FALSE  OBVIOUS
<1>5. 4 * Size(book[i].amount) <= 3 * TwiceMedian(sizes)  BY DEF NormalForMerchant
<1> HIDE DEF rows, sizes, known
<1>6. Max(known) \in Int /\ \A j \in rows : sizes[j] <= Max(known)
  BY <1>2, <1>3, <1>4, GreatestSize
<1>7. TwiceMedian(sizes) \in Int /\ TwiceMedian(sizes) <= 2 * Max(known)
  BY <1>2, <1>3, <1>6, TwiceMedianIs
<1> QED  BY <1>1, <1>3, <1>5, <1>6, <1>7

(* A charge that repeats another of its merchant is reported, in any book: *)
(* as a duplicate if it came with another upload on the same day, as one   *)
(* of the two if it came some days later.                                  *)
THEOREM RepeatsAreReported ==
    ASSUME NEW book, AnyBook(book), NEW i \in DOMAIN book, NEW j \in DOMAIN book, i # j,
           book[i].merchant = book[j].merchant, book[i].currency = book[j].currency,
           book[i].amount = book[j].amount, book[j].amount < 0, book[j].category # "transfers"
    PROVE  /\ book[i].upload # book[j].upload /\ book[i].day = book[j].day
                => "duplicate" \in Detected(book, j)
           /\ book[i].day < book[j].day /\ book[j].day <= book[i].day + NearDays
                => Detected(book, j) \cap {"duplicate", "near_duplicate"} # {}
<1>1. book[i].day \in Int /\ book[j].day \in Int /\ book[j].amount \in Int
  BY HistoriesAre
<1>2. ASSUME book[i].upload # book[j].upload, book[i].day = book[j].day
      PROVE  "duplicate" \in Detected(book, j)
  <2>1. i \in MerchantHistory(book, j)  BY <1>1, <1>2 DEF MerchantHistory
  <2>2. ExactDuplicate(book, j)  BY <1>2, <2>1 DEF ExactDuplicate
  <2> QED  BY <1>1, <2>2, DetectedIs
<1>3. ASSUME book[i].day < book[j].day, book[j].day <= book[i].day + NearDays
      PROVE  Detected(book, j) \cap {"duplicate", "near_duplicate"} # {}
  <2>1. i \in MerchantHistory(book, j)  BY <1>1, <1>3 DEF MerchantHistory
  <2>2. Size(book[i].day - book[j].day) <= NearDays
    BY <1>1, <1>3, DetectingAssumption DEF Size
  <2>3. book[i].day # book[j].day  BY <1>1, <1>3
  <2>4. NearDuplicate(book, j)  BY <2>1, <2>2, <2>3 DEF NearDuplicate
  <2>5. "duplicate" \in Detected(book, j) \/ "near_duplicate" \in Detected(book, j)
    BY <1>1, <2>4, DetectedIs
  <2> QED  BY <2>5
<1> QED  BY <1>2, <1>3

(* Nothing is reported as a duplicate and as a near duplicate. *)
LEMMA NeverBoth ==
    ASSUME NEW book, AnyBook(book), NEW j \in DOMAIN book
    PROVE  ~({"duplicate", "near_duplicate"} \subseteq Detected(book, j))
<1>1. book[j].amount \in Int  BY HistoriesAre
<1>2. CASE book[j].amount >= 0  BY <1>2 DEF Detected
<1>3. CASE book[j].amount < 0
  <2>1. "duplicate" \in Detected(book, j) => ExactDuplicate(book, j)
    BY <1>1, <1>3, DetectedIs
  <2>2. "near_duplicate" \in Detected(book, j) => ~ExactDuplicate(book, j)
    BY <1>1, <1>3, DetectedIs
  <2> QED  BY <2>1, <2>2
<1> QED  BY <1>1, <1>2, <1>3

(* The alerts an upload raises of a row. *)
SaidOfRow(book, last, j) == {a.type : a \in {b \in DetectedIn(book, last) : b.row = j}}

(* They are those of the row, if the upload brought it. *)
LEMMA SaidOfRowIs ==
    ASSUME NEW book, NEW last, NEW j \in DOMAIN book
    PROVE  /\ book[j].upload = last => SaidOfRow(book, last, j) = Detected(book, j)
           /\ book[j].upload # last => SaidOfRow(book, last, j) = {}
<1> DEFINE uploaded == {k \in DOMAIN book : book[k].upload = last}
           Of(k) == {[row |-> k, type |-> a] : a \in Detected(book, k)}
<1>1. DetectedIn(book, last) = UNION {Of(k) : k \in uploaded}  BY DEF DetectedIn
<1>2. \A k : \A b \in Of(k) : b.row = k /\ b.type \in Detected(book, k)  OBVIOUS
<1>3. \A a \in Detected(book, j) : [row |-> j, type |-> a] \in Of(j)  OBVIOUS
<1> HIDE DEF Of
<1>4. ASSUME book[j].upload = last  PROVE SaidOfRow(book, last, j) = Detected(book, j)
  <2>1. SaidOfRow(book, last, j) \subseteq Detected(book, j)  BY <1>1, <1>2 DEF SaidOfRow
  <2>2. ASSUME NEW a \in Detected(book, j)  PROVE a \in SaidOfRow(book, last, j)
    <3>1. [row |-> j, type |-> a] \in DetectedIn(book, last)  BY <1>1, <1>3, <1>4
    <3>2. [row |-> j, type |-> a].row = j /\ [row |-> j, type |-> a].type = a  OBVIOUS
    <3> QED  BY <3>1, <3>2, Zenon DEF SaidOfRow
  <2> QED  BY <2>1, <2>2
<1>5. ASSUME book[j].upload # last  PROVE SaidOfRow(book, last, j) = {}
  BY <1>1, <1>2, <1>5 DEF SaidOfRow
<1> QED  BY <1>4, <1>5

-----------------------------------------------------------------------------
(***************************************************************************)
(* Matches and categories.                                                 *)
(***************************************************************************)

(* The greater and the smaller of two numbers. *)
LEMMA MaxMinOfTwo ==
    ASSUME NEW a \in Int, NEW b \in Int
    PROVE  /\ Max({a, b}) = IF a >= b THEN a ELSE b
           /\ Min({a, b}) = IF a <= b THEN a ELSE b
<1>1. \E x \in {a, b} : \A y \in {a, b} : x >= y  OBVIOUS
<1>2. Max({a, b}) \in {a, b} /\ \A y \in {a, b} : Max({a, b}) >= y
  BY <1>1, Zenon DEF Max
<1>3. \E x \in {a, b} : \A y \in {a, b} : x <= y  OBVIOUS
<1>4. Min({a, b}) \in {a, b} /\ \A y \in {a, b} : Min({a, b}) <= y
  BY <1>3, Zenon DEF Min
<1> QED  BY <1>2, <1>4

(* A date nearby scores no less than one further away. *)
LEMMA DateScoreFalls ==
    ASSUME NEW g \in Nat, NEW h \in Nat, g <= h
    PROVE  DateScore(g) \in Nat /\ DateScore(h) \in Nat /\ DateScore(h) <= DateScore(g)
<1>1. \A n \in Nat : Max({0, 180 - 30 * n}) = IF 0 >= 180 - 30 * n THEN 0 ELSE 180 - 30 * n
  BY MaxMinOfTwo
<1>2. \A n \in Nat : DateScore(n) =
        IF n = 0 THEN 300 ELSE IF n = 1 THEN 220
        ELSE IF 0 >= 180 - 30 * n THEN 0 ELSE 180 - 30 * n
  <2> SUFFICES ASSUME NEW n \in Nat
               PROVE  DateScore(n) = IF n = 0 THEN 300 ELSE IF n = 1 THEN 220
                                     ELSE IF 0 >= 180 - 30 * n THEN 0 ELSE 180 - 30 * n
    OBVIOUS
  <2> DEFINE far == Max({0, 180 - 30 * n})
  <2>1. n = 0 => DateScore(n) = 300  BY DEF DateScore
  <2>2. n = 1 => DateScore(n) = 220  BY DEF DateScore
  <2>3. n # 0 /\ n # 1 => DateScore(n) = far  BY DEF DateScore
  <2>4. far = IF 0 >= 180 - 30 * n THEN 0 ELSE 180 - 30 * n  BY <1>1
  <2> HIDE DEF far
  <2>5. n # 0 /\ n # 1 => DateScore(n) = IF 0 >= 180 - 30 * n THEN 0 ELSE 180 - 30 * n
    BY <2>3, <2>4, Zenon
  <2> QED  BY <2>1, <2>2, <2>5
<1> QED  BY <1>2

(* A charge, and how far it is from a receipt. *)
AnyCharge(x) == x.day \in Int /\ x.amount \in Int /\ x.likeness \in Nat
AnyReceipt(r) == r.day \in Int /\ r.total \in Int
DaysOff(r, x) == Size(x.day - r.day)
CentsOff(r, x) == Size(Size(x.amount) - r.total)

(* For any receipt, a charge that is as near in days, in cents and in name *)
(* ranks as high.                                                          *)
THEOREM NearerRanksHigher ==
    ASSUME NEW r, NEW x, NEW y, AnyReceipt(r), AnyCharge(x), AnyCharge(y),
           DaysOff(r, x) <= DaysOff(r, y), CentsOff(r, x) <= CentsOff(r, y),
           y.likeness <= x.likeness
    PROVE  MatchScore(r, y) <= MatchScore(r, x)
<1>1. DaysOff(r, x) \in Nat /\ DaysOff(r, y) \in Nat
  BY SizeIs DEF DaysOff, AnyReceipt, AnyCharge
<1>2. DateScore(DaysOff(r, x)) \in Nat /\ DateScore(DaysOff(r, y)) \in Nat
      /\ DateScore(DaysOff(r, y)) <= DateScore(DaysOff(r, x))
  BY <1>1, DateScoreFalls
<1>3. Size(y.amount) = r.total => Size(x.amount) = r.total
  BY SizeIs DEF CentsOff, AnyReceipt, AnyCharge
<1> QED  BY <1>2, <1>3 DEF MatchScore, DaysOff, AnyCharge

(* Of the members of a finite set that have less than n before them, by    *)
(* score and then by number, there are n, or all of them, and none of the  *)
(* others scores more.                                                     *)
LEMMA BestOfOrder ==
    ASSUME NEW E, IsFiniteSet(E), E \in SUBSET Int, NEW f \in [E -> Int], NEW n \in Nat
    PROVE  LET Better(i) == {j \in E : f[j] > f[i] \/ (f[j] = f[i] /\ j < i)}
               T == {i \in E : Cardinality(Better(i)) < n}
           IN /\ T \subseteq E /\ Cardinality(T) \in Nat /\ Cardinality(T) <= n
              /\ T # E => Cardinality(T) = n
              /\ \A i \in T, j \in E \ T : f[j] <= f[i]
<1> DEFINE Better(i) == {j \in E : f[j] > f[i] \/ (f[j] = f[i] /\ j < i)}
           rank == [i \in E |-> Cardinality(Better(i))]
           T == {i \in E : Cardinality(Better(i)) < n}
<1>1. \A i \in E : IsFiniteSet(Better(i)) /\ rank[i] \in Nat /\ rank[i] = Cardinality(Better(i))
  <2> SUFFICES ASSUME NEW i \in E  PROVE IsFiniteSet(Better(i)) /\ Cardinality(Better(i)) \in Nat
    OBVIOUS
  <2>1. Better(i) \in SUBSET E  OBVIOUS
  <2> HIDE DEF Better
  <2>2. IsFiniteSet(Better(i))  BY <2>1, FS_Subset
  <2> QED  BY <2>2, FS_CardinalityType
<1>2. \A i, j \in E : j \in Better(i) => Better(j) \cup {j} \subseteq Better(i) /\ j \notin Better(j)
  <2> SUFFICES ASSUME NEW i \in E, NEW j \in E, j \in Better(i)
               PROVE  Better(j) \cup {j} \subseteq Better(i) /\ j \notin Better(j)
    OBVIOUS
  <2>1. f[i] \in Int /\ f[j] \in Int /\ i \in Int /\ j \in Int  OBVIOUS
  <2>2. j \notin Better(j)  BY <2>1
  <2>3. \A k \in Better(j) : k \in Better(i)
    <3> SUFFICES ASSUME NEW k \in Better(j)  PROVE k \in Better(i)  OBVIOUS
    <3>1. f[k] \in Int /\ k \in Int /\ k \in E  OBVIOUS
    <3> QED  BY <2>1, <3>1
  <2> QED  BY <2>2, <2>3
<1>3. \A i, j \in E : i = j \/ j \in Better(i) \/ i \in Better(j)
  OBVIOUS
<1>4. \A i, j \in E : f[j] > f[i] => j \in Better(i)
  OBVIOUS
<1>5. rank \in [E -> Int] /\ [i \in E |-> -rank[i]] \in [E -> Int]
  BY <1>1
<1>6. T \subseteq E /\ IsFiniteSet(T)  BY FS_Subset
<1>7. Cardinality(T) \in Nat  BY <1>6, FS_CardinalityType
<1>8. \A i \in E : i \in T <=> rank[i] < n  OBVIOUS
<1>9. \A i \in E : Better(i) \in SUBSET E  OBVIOUS
<1> HIDE DEF Better, rank, T
<1>10. \A i, j \in E : j \in Better(i) => rank[j] < rank[i]
  <2> SUFFICES ASSUME NEW i \in E, NEW j \in E, j \in Better(i)  PROVE rank[j] < rank[i]
    OBVIOUS
  <2>1. Better(j) \cup {j} \in SUBSET Better(i) /\ j \notin Better(j)  BY <1>2
  <2>2. Cardinality(Better(j) \cup {j}) = Cardinality(Better(j)) + 1  BY <1>1, <2>1, FS_AddElement
  <2>3. Cardinality(Better(j) \cup {j}) <= Cardinality(Better(i))  BY <1>1, <2>1, FS_Subset
  <2> QED  BY <1>1, <2>2, <2>3
<1>11. Cardinality(T) <= n
  <2>1. CASE T = {}  BY <2>1, FS_EmptySet
  <2>2. CASE T # {}
    <3> DEFINE known == [i \in T |-> rank[i]]
    <3>1. known \in [T -> Int]  BY <1>1, <1>6
    <3>2. \E m \in T : \A i \in T : known[i] <= known[m]
      <4> HIDE DEF known
      <4> QED  BY <1>6, <2>2, <3>1, FamilyGreatest
    <3>3. PICK m \in T : \A i \in T : rank[i] <= rank[m]  BY <3>2
    <3>4. T \in SUBSET (Better(m) \cup {m})
      <4> SUFFICES ASSUME NEW i \in T, i # m, i \notin Better(m)  PROVE FALSE  OBVIOUS
      <4>1. m \in Better(i)  BY <1>3, <1>6
      <4>2. rank[m] < rank[i]  BY <1>6, <1>10, <4>1
      <4> QED  BY <1>1, <1>6, <3>3, <4>2
    <3>5. /\ IsFiniteSet(Better(m) \cup {m})
          /\ Cardinality(Better(m) \cup {m}) <= rank[m] + 1
      <4>1. /\ m \in E /\ IsFiniteSet(Better(m)) /\ rank[m] \in Nat
            /\ rank[m] = Cardinality(Better(m))
        BY <1>1, <1>6
      <4>2. /\ IsFiniteSet(Better(m) \cup {m})
            /\ Cardinality(Better(m) \cup {m}) =
                  IF m \in Better(m) THEN Cardinality(Better(m)) ELSE Cardinality(Better(m)) + 1
        BY <4>1, FS_AddElement
      <4> QED  BY ONLY <4>1, <4>2
    <3>6. Cardinality(T) <= Cardinality(Better(m) \cup {m})  BY <3>4, <3>5, FS_Subset
    <3>7. Cardinality(Better(m) \cup {m}) \in Nat  BY <3>5, FS_CardinalityType
    <3> QED  BY <1>1, <1>6, <1>7, <1>8, <3>5, <3>6, <3>7
  <2> QED  BY <2>1, <2>2
<1>12. T # E => Cardinality(T) = n
  <2> SUFFICES ASSUME T # E  PROVE n <= Cardinality(T)  BY <1>7, <1>11
  <2> DEFINE rest == E \ T
             known == [i \in rest |-> -rank[i]]
  <2>1. rest # {} /\ IsFiniteSet(rest) /\ known \in [rest -> Int]
    <3>1. \A i \in rest : -rank[i] \in Int  BY <1>1
    <3>2. rest # {} /\ rest \in SUBSET E  BY <1>6
    <3>3. IsFiniteSet(rest)  BY <3>2, FS_Subset
    <3>4. known \in [rest -> Int]  BY <3>1
    <3> QED  BY <3>2, <3>3, <3>4
  <2>2. \E e \in rest : \A i \in rest : known[i] <= known[e]
    <3> HIDE DEF rest, known
    <3> QED  BY <2>1, FamilyGreatest
  <2>3. PICK e \in rest : \A i \in rest : rank[e] <= rank[i]
    <3>1. PICK e \in rest : \A i \in rest : -rank[i] <= -rank[e]  BY <2>2
    <3> QED  BY <1>1, <3>1
  <2>4. Better(e) \in SUBSET T
    <3> SUFFICES ASSUME NEW j \in Better(e), j \notin T  PROVE FALSE  OBVIOUS
    <3>1. j \in rest /\ rank[j] < rank[e]  BY <1>9, <1>10
    <3> QED  BY <1>1, <2>3, <3>1
  <2>5. Cardinality(Better(e)) <= Cardinality(T)  BY <1>6, <2>4, FS_Subset
  <2>6. n <= rank[e]  BY <1>1, <1>8
  <2> QED  BY <1>1, <1>7, <2>5, <2>6
<1>13. \A i \in T, j \in E \ T : f[j] <= f[i]
  <2> SUFFICES ASSUME NEW i \in T, NEW j \in E \ T, f[j] > f[i]  PROVE FALSE
    BY <1>6
  <2>1. rank[j] < rank[i]  BY <1>4, <1>6, <1>10
  <2> QED  BY <1>1, <1>6, <1>8, <2>1
<1>14. T \subseteq E  BY <1>6
<1> QED  BY <1>7, <1>11, <1>12, <1>13, <1>14 DEF T, Better

(* The outflows in the window and the tolerance that were not rejected,    *)
(* and those that no other receipt holds.                                  *)
Near(r, book) ==
    {i \in DOMAIN book \ r.rejected :
        /\ book[i].amount < 0 /\ book[i].currency = r.currency
        /\ DaysOff(r, book[i]) <= MatchWindow /\ CentsOff(r, book[i]) <= MatchTolerance}
OpenNear(r, book) == {i \in Near(r, book) : book[i].holders = 0}

(* For any receipt and book, the search fails exactly where two others     *)
(* hold one of the outflows in the window and the tolerance; otherwise the *)
(* open ones are offered, all of them up to the limit and as many as that  *)
(* beyond it, and none is left out that scores more than one offered.      *)
THEOREM MatchesAreBest ==
    ASSUME NEW r, NEW book, AnyReceipt(r), IsFiniteSet(DOMAIN book), DOMAIN book \in SUBSET Int,
           \A i \in DOMAIN book : AnyCharge(book[i])
    PROVE  /\ MatchFails(r, book) <=> \E i \in Near(r, book) : book[i].holders > 1
           /\ MatchFails(r, book) => Matches(r, book) = {}
           /\ Matches(r, book) \subseteq OpenNear(r, book)
           /\ Cardinality(Matches(r, book)) <= MaxCandidates
           /\ ~MatchFails(r, book) /\ Matches(r, book) # OpenNear(r, book) =>
                    Cardinality(Matches(r, book)) = MaxCandidates
           /\ \A i \in Matches(r, book), j \in OpenNear(r, book) \ Matches(r, book) :
                    MatchScore(r, book[j]) <= MatchScore(r, book[i])
<1> DEFINE E == OpenNear(r, book)
           f == [i \in E |-> MatchScore(r, book[i])]
           Better(i) == {j \in E : f[j] > f[i] \/ (f[j] = f[i] /\ j < i)}
           T == {i \in E : Cardinality(Better(i)) < MaxCandidates}
<1>1. Considered(r, book) = Near(r, book)
  BY DEF Considered, Near, DaysOff, CentsOff
<1>2. MatchFails(r, book) <=> \E i \in Near(r, book) : book[i].holders > 1
  BY <1>1 DEF MatchFails
<1>3. \A i \in DOMAIN book : MatchScore(r, book[i]) \in Int
  <2> SUFFICES ASSUME NEW i \in DOMAIN book  PROVE MatchScore(r, book[i]) \in Int
    OBVIOUS
  <2>1. DaysOff(r, book[i]) \in Nat  BY SizeIs DEF DaysOff, AnyReceipt, AnyCharge
  <2>2. DateScore(DaysOff(r, book[i])) \in Nat  BY <2>1, DateScoreFalls
  <2> QED  BY <2>2 DEF MatchScore, DaysOff, AnyCharge
<1>4. \A i \in DOMAIN book : MatchScore(r, book[i]) >= 350
  <2> SUFFICES ASSUME NEW i \in DOMAIN book  PROVE MatchScore(r, book[i]) >= 350
    OBVIOUS
  <2>1. DaysOff(r, book[i]) \in Nat  BY SizeIs DEF DaysOff, AnyReceipt, AnyCharge
  <2>2. DateScore(DaysOff(r, book[i])) \in Nat  BY <2>1, DateScoreFalls
  <2> QED  BY <2>2 DEF MatchScore, DaysOff, AnyCharge
<1>5. E \in SUBSET DOMAIN book  BY DEF Near, OpenNear
<1>6. Eligible(r, book) = E  BY <1>1, <1>4, <1>5 DEF Eligible, OpenNear
<1>7. \A i \in E : Ahead(r, book, i) = Better(i)
  BY <1>6 DEF Ahead
<1>8. Matches(r, book) = {i \in E : ~MatchFails(r, book) /\ Cardinality(Better(i)) < MaxCandidates}
  BY <1>6, <1>7, Zenon DEF Matches
<1>9. /\ T \subseteq E /\ Cardinality(T) \in Nat /\ Cardinality(T) <= MaxCandidates
      /\ T # E => Cardinality(T) = MaxCandidates
      /\ \A i \in T, j \in E \ T : f[j] <= f[i]
  <2>1. IsFiniteSet(E) /\ E \in SUBSET Int  BY <1>5, FS_Subset
  <2>2. f \in [E -> Int]  BY <1>3, <1>5
  <2>3. MaxCandidates \in Nat  BY DetectingAssumption
  <2> HIDE DEF E, f
  <2> QED  BY <2>1, <2>2, <2>3, BestOfOrder
<1>10. CASE MatchFails(r, book)
  <2>1. Matches(r, book) = {}  BY <1>8, <1>10
  <2>2. Cardinality(Matches(r, book)) = 0  BY <2>1, FS_EmptySet
  <2>3. 0 <= MaxCandidates  BY DetectingAssumption
  <2> QED  BY <1>2, <1>10, <2>1, <2>2, <2>3
<1>11. CASE ~MatchFails(r, book)
  <2>1. Matches(r, book) = T  BY <1>8, <1>11
  <2>2. \A i \in T, j \in E \ T : MatchScore(r, book[j]) <= MatchScore(r, book[i])
    BY <1>9
  <2> HIDE DEF T
  <2> QED  BY <1>2, <1>9, <1>11, <2>1, <2>2
<1> QED  BY <1>10, <1>11

-----------------------------------------------------------------------------
(***************************************************************************)
(* What the runs check of alerts, matches and categories.                  *)
(***************************************************************************)

(* What kind an input is says which set it is from. *)
LEMMA Kinds ==
    ASSUME Init
    PROVE  /\ case.kind = "imports" => case \in Imports
           /\ case.kind = "judged" => case \in Judged
           /\ case.kind = "matching" => case \in Matchings
           /\ case.kind = "candidate" => case \in Candidates
<1>1. CASE case \in Chains \cup Documents \cup Amounts \cup Exports \cup Months
  <2>1. case.kind \in {"chain", "document", "amount", "export", "months"}
    BY <1>1 DEF Chains, Documents, Amounts, Exports, Months
  <2> QED  BY <2>1
<1>2. CASE case \in Renderings \cup Slips
  <2>1. case.kind \in {"rendering", "receipt"}  BY <1>2 DEF Renderings, Slips
  <2> QED  BY <2>1
<1>3. CASE case \in Imports
  <2>1. case.kind = "imports"  BY <1>3 DEF Imports
  <2> QED  BY <1>3, <2>1
<1>4. CASE case \in Judged
  <2>1. case.kind = "judged"  BY <1>4 DEF Judged
  <2> QED  BY <1>4, <2>1
<1>5. CASE case \in Matchings
  <2>1. case.kind = "matching"  BY <1>5 DEF Matchings
  <2> QED  BY <1>5, <2>1
<1>6. CASE case \in Candidates
  <2>1. case.kind = "candidate"  BY <1>6 DEF Candidates
  <2> QED  BY <1>6, <2>1
<1>7. CASE case \in Spans \cup Questions \cup Books
  <2>1. case.kind \in {"span", "question", "book"}
    BY <1>7 DEF Spans, Questions, Books
  <2> QED  BY <2>1
<1>8. CASE case \in Told \cup Namings \cup Calls \cup Charges
  <2>1. case.kind \in {"told", "naming", "calls", "charges"}
    BY <1>8 DEF Told, Namings, Calls, Charges
  <2> QED  BY <2>1
<1> QED  BY <1>1, <1>2, <1>3, <1>4, <1>5, <1>6, <1>7, <1>8, Zenon DEF Init

(* The books of the runs are books. *)
LEMMA ImportsHold ==
    ASSUME NEW c \in Imports
    PROVE  RepeatsFound(c)
<1> DEFINE book == c.book
<1>1. /\ DOMAIN book = 1 .. 3
      /\ \A i \in 1 .. 3 :
            /\ book[i].day \in Int /\ book[i].amount \in Int /\ book[i].amount < 0
            /\ book[i].merchant = "m" /\ book[i].currency = "USD"
  BY DEF Imports
<1>2. AnyBook(book)  BY <1>1 DEF AnyBook
<1> HIDE DEF book
<1> SUFFICES ASSUME NEW last \in {1, 2}, NEW i \in DOMAIN book, NEW j \in DOMAIN book
             PROVE  LET said == SaidOfRow(book, last, j)
                    IN /\ i # j /\ book[j].upload = last /\ book[j].category # "transfers"
                            /\ book[i].amount = book[j].amount =>
                            /\ book[i].upload # last /\ book[i].day = book[j].day
                                => "duplicate" \in said
                            /\ book[i].day < book[j].day
                                    /\ book[j].day <= book[i].day + NearDays
                                => said \cap {"duplicate", "near_duplicate"} # {}
                       /\ ~({"duplicate", "near_duplicate"} \subseteq said)
  BY Zenon DEF RepeatsFound, book, SaidOfRow
<1>3. CASE book[j].upload = last
  <2>1. SaidOfRow(book, last, j) = Detected(book, j)  BY <1>3, SaidOfRowIs
  <2>2. ~({"duplicate", "near_duplicate"} \subseteq Detected(book, j))
    BY <1>2, NeverBoth
  <2>3. ASSUME i # j, book[j].category # "transfers", book[i].amount = book[j].amount
        PROVE  /\ book[i].upload # last /\ book[i].day = book[j].day
                    => "duplicate" \in Detected(book, j)
               /\ book[i].day < book[j].day /\ book[j].day <= book[i].day + NearDays
                    => Detected(book, j) \cap {"duplicate", "near_duplicate"} # {}
    BY <1>1, <1>2, <1>3, <2>3, RepeatsAreReported
  <2> QED  BY <2>1, <2>2, <2>3
<1>4. CASE book[j].upload # last
  <2>1. SaidOfRow(book, last, j) = {}  BY <1>4, SaidOfRowIs
  <2> QED  BY <1>4, <2>1
<1> QED  BY <1>3, <1>4

(* A history followed by a charge. *)
HistoryBook(book, n, history, own, value) ==
    /\ DOMAIN book = 1 .. n + 1 /\ AnyBook(book)
    /\ book[n + 1] = [day |-> n + 1, amount |-> -value, merchant |-> "m",
                      category |-> "food", currency |-> "USD", upload |-> n + 1]
    /\ \A i \in 1 .. n : book[i] =
          [day |-> i, amount |-> -history[i], merchant |-> IF own THEN "m" ELSE "n",
           category |-> "food", currency |-> "USD", upload |-> i]

(* That is what the runs judge. *)
LEMMA BookOfIs ==
    ASSUME NEW n \in Nat, NEW history \in [1 .. n -> Nat], NEW own \in BOOLEAN,
           NEW value \in Nat
    PROVE  /\ Len(history) = n
           /\ HistoryBook(BookOf(history, own, value), n, history, own, value)
<1>1. history \in Seq(Nat)  BY SeqDef
<1>2. Len(history) = n
  <2>1. DOMAIN history = 1 .. Len(history) /\ Len(history) \in Nat  BY <1>1, LenProperties
  <2>2. DOMAIN history = 1 .. n  OBVIOUS
  <2> QED  BY <2>1, <2>2
<1> DEFINE book == BookOf(history, own, value)
<1>3. book = [i \in 1 .. n + 1 |->
        [day |-> i, amount |-> IF i > n THEN -value ELSE -history[i],
         merchant |-> IF own \/ i > n THEN "m" ELSE "n",
         category |-> "food", currency |-> "USD", upload |-> i]]
  BY <1>2 DEF BookOf
<1> HIDE DEF book
<1>4. DOMAIN book = 1 .. n + 1  BY <1>3
<1>5. book[n + 1] = [day |-> n + 1, amount |-> -value, merchant |-> "m",
                     category |-> "food", currency |-> "USD", upload |-> n + 1]
  BY <1>3
<1>6. \A i \in 1 .. n : book[i] =
        [day |-> i, amount |-> -history[i], merchant |-> IF own THEN "m" ELSE "n",
         category |-> "food", currency |-> "USD", upload |-> i]
  BY <1>3
<1>7. AnyBook(book)
  <2>1. \A i \in 1 .. n + 1 : book[i].day \in Int /\ book[i].amount \in Int  BY <1>3
  <2> QED  BY <1>4, <2>1 DEF AnyBook
<1> QED  BY <1>2, <1>4, <1>5, <1>6, <1>7 DEF book, HistoryBook

(* The judged charges of the runs are charges after a history. *)
LEMMA JudgedAre ==
    ASSUME NEW c \in Judged
    PROVE  /\ \E n \in Nat : c.history \in [1 .. n -> Nat]
           /\ c.own \in BOOLEAN /\ c.value \in Nat \ {0} /\ c.greater \in Nat \ {0}
<1>1. c.history \in UNION {[1 .. n -> {2, 4, 6, 20}] : n \in 0 .. 4} /\ c.own \in BOOLEAN
      /\ c.value \in {4, 6, 8, 12, 20} /\ c.greater \in {8, 12, 20, 40}
  BY DEF Judged
<1>2. PICK n \in 0 .. 4 : c.history \in [1 .. n -> {2, 4, 6, 20}]  BY <1>1
<1>3. n \in Nat /\ c.history \in [1 .. n -> Nat]  BY <1>2
<1> QED  BY <1>1, <1>3

(* A larger charge after the same history is the same book, grown. *)
LEMMA JudgedGrow ==
    ASSUME NEW n \in Nat, NEW history \in [1 .. n -> Nat], NEW own \in BOOLEAN,
           NEW value \in Nat \ {0}, NEW greater \in Nat \ {0}, value <= greater
    PROVE  Grown(BookOf(history, own, value), BookOf(history, own, greater), n + 1)
<1> DEFINE book == BookOf(history, own, value)  larger == BookOf(history, own, greater)
<1>1. HistoryBook(book, n, history, own, value)  BY BookOfIs
<1>2. HistoryBook(larger, n, history, own, greater)  BY BookOfIs
<1> HIDE DEF book, larger
<1>3. ASSUME NEW i \in DOMAIN book \ {n + 1}  PROVE larger[i] = book[i]
  <2>1. i \in 1 .. n  BY <1>1 DEF HistoryBook
  <2> QED  BY <1>1, <1>2, <2>1 DEF HistoryBook
<1>4. /\ larger[n + 1].day = book[n + 1].day
      /\ larger[n + 1].merchant = book[n + 1].merchant
      /\ larger[n + 1].category = book[n + 1].category
      /\ larger[n + 1].currency = book[n + 1].currency
      /\ larger[n + 1].amount <= book[n + 1].amount /\ book[n + 1].amount < 0
  BY <1>1, <1>2 DEF HistoryBook
<1>5. AnyBook(book) /\ AnyBook(larger) /\ DOMAIN book = 1 .. n + 1 /\ DOMAIN larger = 1 .. n + 1
  BY <1>1, <1>2 DEF HistoryBook
<1> QED  BY <1>3, <1>4, <1>5 DEF Grown, book, larger

(* What is said of the last charge is said of its size. *)
LEMMA SaidIs ==
    ASSUME NEW c, NEW value, c.history \in Seq(Nat)
    PROVE  /\ SaidOf(c, value) \subseteq SizeAlerts
           /\ SaidOf(c, value) =
                Detected(BookOf(c.history, c.own, value), Len(c.history) + 1) \cap SizeAlerts
<1>1. \A book, i : Detected(book, i) \subseteq {"duplicate", "near_duplicate"} \cup SizeAlerts
  BY DEF Detected, SizeAlerts
<1> QED  BY <1>1 DEF SaidOf, SizeAlerts

(* A larger charge raises every alert about its size. *)
LEMMA GrowthHolds ==
    ASSUME NEW c \in Judged
    PROVE  GrowthKeepsAlerts(c)
<1>1. PICK n \in Nat : c.history \in [1 .. n -> Nat]  BY JudgedAre
<1>2. c.own \in BOOLEAN /\ c.value \in Nat \ {0} /\ c.greater \in Nat \ {0}  BY JudgedAre
<1>3. c.history \in Seq(Nat)  BY <1>1, SeqDef
<1>4. Len(c.history) = n  BY <1>1, <1>2, BookOfIs
<1> DEFINE book == BookOf(c.history, c.own, c.value)
           larger == BookOf(c.history, c.own, c.greater)
<1>5. AnyBook(book) /\ n + 1 \in DOMAIN book
  <2>1. c.value \in Nat  BY <1>2
  <2>2. HistoryBook(book, n, c.history, c.own, c.value)
    BY <1>1, <1>2, <2>1, BookOfIs
  <2> QED  BY <2>2 DEF HistoryBook
<1>6. c.value <= c.greater => Grown(book, larger, n + 1)  BY <1>1, <1>2, JudgedGrow
<1>7. SaidOf(c, c.value) = Detected(book, n + 1) \cap SizeAlerts  BY <1>3, <1>4, SaidIs
<1>8. SaidOf(c, c.greater) = Detected(larger, n + 1) \cap SizeAlerts  BY <1>3, <1>4, SaidIs
<1> HIDE DEF book, larger
<1>9. c.greater >= c.value => SaidOf(c, c.value) \subseteq SaidOf(c, c.greater)
  <2> SUFFICES ASSUME c.greater >= c.value
               PROVE  SaidOf(c, c.value) \subseteq SaidOf(c, c.greater)
    OBVIOUS
  <2>1. Grown(book, larger, n + 1)  BY <1>2, <1>6
  <2>2. Detected(book, n + 1) \cap SizeAlerts \subseteq Detected(larger, n + 1)
    BY <2>1, LargerIsSaidMoreOf
  <2> QED  BY <1>7, <1>8, <2>2
<1>10. "large_for_merchant" \in SaidOf(c, c.value) => ~NormalForMerchant(book, n + 1)
  <2> SUFFICES ASSUME "large_for_merchant" \in SaidOf(c, c.value)
               PROVE  ~NormalForMerchant(book, n + 1)
    OBVIOUS
  <2>1. LargeForMerchant(book, n + 1)  BY <1>7 DEF Detected
  <2> QED  BY <1>5, <2>1, LargeIsNotNormal
<1> QED  BY <1>4, <1>9, <1>10 DEF GrowthKeepsAlerts, book

(* The largest charge of a history hides nothing by being larger. *)
LEMMA OutlierHolds ==
    ASSUME NEW c \in Judged
    PROVE  OutlierHidesNothing(c)
<1>1. PICK n \in Nat : c.history \in [1 .. n -> Nat]  BY JudgedAre
<1>2. c.own \in BOOLEAN /\ c.value \in Nat \ {0}  BY JudgedAre
<1>3. Len(c.history) = n /\ DOMAIN c.history = 1 .. n  BY <1>1, <1>2, BookOfIs
<1> DEFINE v == c.history
<1> SUFFICES ASSUME NEW k \in 1 .. n, n >= 3,
                    \A i \in 1 .. n \ {k} :
                        v[i] <= v[k]
                        /\ Magnitude(2 * v[i] - TwiceMedian(v)) <= Magnitude(2 * v[k] - TwiceMedian(v))
             PROVE  Outlying(c.value, v) = Outlying(c.value, [v EXCEPT ![k] = @ + 100])
  BY <1>3, Zenon DEF OutlierHidesNothing
<1> DEFINE w == [v EXCEPT ![k] = @ + 100]
<1>4. v \in [1 .. n -> Int] /\ w \in [1 .. n -> Int] /\ v[k] <= w[k]
      /\ \A i \in 1 .. n \ {k} : w[i] = v[i]
  BY <1>1
<1>5. IsFiniteSet(1 .. n) /\ Cardinality(1 .. n) >= 3  BY FS_Interval
<1> HIDE DEF v, w
<1>6. TwiceMedian(v) \in Int
  <2>1. 1 .. n # {}  OBVIOUS
  <2> QED  BY <1>4, <1>5, <2>1, TwiceMedianIs
<1>7. \A i \in 1 .. n :
        /\ v[i] <= v[k]
        /\ Size(2 * v[i] - TwiceMedian(v)) <= Size(2 * v[k] - TwiceMedian(v))
  BY <1>4, <1>6 DEF Size, Magnitude
<1>8. Outlying(c.value, v) <=> Outlying(c.value, w)
  <2> DEFINE I == 1 .. n
  <2>1. /\ IsFiniteSet(I) /\ Cardinality(I) >= 3 /\ v \in [I -> Int] /\ w \in [I -> Int]
        /\ k \in I /\ v[k] <= w[k] /\ c.value \in Int
    BY <1>2, <1>4, <1>5
  <2>2. \A i \in I : v[i] <= v[k]  BY <1>7
  <2>3. \A i \in I : Size(2 * v[i] - TwiceMedian(v)) <= Size(2 * v[k] - TwiceMedian(v))
    BY <1>7
  <2>4. \A i \in I \ {k} : w[i] = v[i]  BY <1>4
  <2> HIDE DEF I
  <2> QED  BY <2>1, <2>2, <2>3, <2>4, GreatestHidesNothing
<1>9. Outlying(c.value, v) \in BOOLEAN /\ Outlying(c.value, w) \in BOOLEAN
  BY DEF Outlying
<1> QED  BY <1>8, <1>9 DEF w

(* The best matches are offered. *)
LEMMA MatchingHolds ==
    ASSUME NEW c \in Matchings
    PROVE  MatchesRanked(c)
<1> DEFINE book == c.book
           receipt == ReceiptOf(c)
           offered == Matches(receipt, book)
<1>1. DOMAIN book = 1 .. 3 /\ \A i \in 1 .. 3 : AnyCharge(book[i]) /\ book[i].currency = "USD"
  <2>1. \A x \in Purchases : AnyCharge(x) /\ x.currency = "USD"
    BY DEF Purchases, AnyCharge
  <2>2. book \in [1 .. 3 -> Purchases]  BY DEF Matchings
  <2> QED  BY <2>1, <2>2
<1>2. AnyReceipt(receipt) /\ receipt.currency = "USD" /\ receipt.rejected = c.rejected
  BY DEF ReceiptOf, AnyReceipt
<1> DEFINE Gap(k) == Size(book[k].day - receipt.day)
           Off(k) == Size(Size(book[k].amount) - receipt.total)
           near == {k \in DOMAIN book \ c.rejected :
                      book[k].amount < 0 /\ Gap(k) <= MatchWindow /\ Off(k) <= MatchTolerance}
           open == {k \in near : book[k].holders = 0}
           fails == \E k \in near : book[k].holders > 1
<1> HIDE DEF book, receipt
<1>3. near = Near(receipt, book) /\ open = OpenNear(receipt, book)
  BY <1>1, <1>2 DEF Near, OpenNear, DaysOff, CentsOff
<1>4. open \in SUBSET (1 .. 3)  BY <1>1
<1>5. IsFiniteSet(DOMAIN book) /\ DOMAIN book \in SUBSET Int
  <2>1. IsFiniteSet(1 .. 3) /\ (1 .. 3) \in SUBSET Int
    <3>1. IsFiniteSet(1 .. 3)
      <4>1. 1 \in Int /\ 3 \in Int  OBVIOUS
      <4> QED  BY ONLY <4>1, FS_Interval
    <3>2. (1 .. 3) \in SUBSET Int  OBVIOUS
    <3> QED  BY <3>1, <3>2
  <2>2. DOMAIN book = 1 .. 3  BY <1>1
  <2> QED  BY ONLY <2>1, <2>2
<1> HIDE DEF near, open
<1>6. /\ MatchFails(receipt, book) <=> \E k \in near : book[k].holders > 1
      /\ offered \subseteq open /\ Cardinality(offered) <= MaxCandidates
      /\ ~MatchFails(receipt, book) /\ offered # open => Cardinality(offered) = MaxCandidates
      /\ \A i \in offered, j \in open \ offered :
            MatchScore(receipt, book[j]) <= MatchScore(receipt, book[i])
  BY <1>1, <1>2, <1>3, <1>5, MatchesAreBest
<1>7. ASSUME NEW i \in open, NEW j \in open, MatchScore(receipt, book[j]) <= MatchScore(receipt, book[i]),
             Gap(j) <= Gap(i), Off(j) <= Off(i), book[j].likeness >= book[i].likeness
      PROVE  MatchScore(receipt, book[j]) = MatchScore(receipt, book[i])
  <2>1. AnyCharge(book[i]) /\ AnyCharge(book[j])  BY <1>1, <1>4
  <2>2. book[i].likeness <= book[j].likeness  BY <1>7, <2>1 DEF AnyCharge
  <2>3. MatchScore(receipt, book[i]) <= MatchScore(receipt, book[j])
    BY <1>2, <1>7, <2>1, <2>2, NearerRanksHigher DEF DaysOff, CentsOff
  <2>4. DaysOff(receipt, book[i]) \in Nat /\ DaysOff(receipt, book[j]) \in Nat
    BY <1>2, <2>1, SizeIs DEF DaysOff, AnyReceipt, AnyCharge
  <2>5. MatchScore(receipt, book[i]) \in Int /\ MatchScore(receipt, book[j]) \in Int
    BY <2>1, <2>4, DateScoreFalls DEF MatchScore, DaysOff, AnyCharge
  <2> QED  BY <1>7, <2>3, <2>5
<1> HIDE DEF offered, fails, Gap, Off
<1>8. /\ MatchFails(receipt, book) <=> fails
      /\ offered \subseteq open /\ Cardinality(offered) <= MaxCandidates
      /\ offered # open => fails \/ Cardinality(offered) = MaxCandidates
      /\ \A i \in offered, j \in open \ offered :
            /\ MatchScore(receipt, book[j]) <= MatchScore(receipt, book[i])
            /\ Gap(j) <= Gap(i) /\ Off(j) <= Off(i) /\ book[j].likeness >= book[i].likeness
                    => MatchScore(receipt, book[j]) = MatchScore(receipt, book[i])
  <2>1. fails <=> MatchFails(receipt, book)  BY <1>6 DEF fails
  <2>2. \A i \in offered, j \in open \ offered :
            /\ MatchScore(receipt, book[j]) <= MatchScore(receipt, book[i])
            /\ Gap(j) <= Gap(i) /\ Off(j) <= Off(i) /\ book[j].likeness >= book[i].likeness
                    => MatchScore(receipt, book[j]) = MatchScore(receipt, book[i])
    BY <1>6, <1>7, Zenon
  <2> QED  BY <1>6, <2>1, <2>2
<1> QED  BY <1>8 DEF MatchesRanked, book, receipt, offered, fails, Gap, Off, near, open

(* What no rule knows is reviewed, whatever a charge matches. *)
LEMMA CandidatesHold ==
    ASSUME NEW c \in Candidates
    PROVE  GuessesReviewed(c)
BY DEF Candidates, GuessesReviewed, NeedsReview, Categorized

(* Alerts, matches and categories are as they should be, whatever the      *)
(* windows, samples and floors of the detectors are set to.                *)
THEOREM DetectingIsSound == Spec => []DetectingHolds
<1>1. Init => DetectingHolds
  <2> SUFFICES ASSUME Init  PROVE DetectingHolds  OBVIOUS
  <2>1. case.kind = "imports" => RepeatsFound(case)  BY Kinds, ImportsHold
  <2>2. case.kind = "judged" => GrowthKeepsAlerts(case) /\ OutlierHidesNothing(case)
    BY Kinds, GrowthHolds, OutlierHolds
  <2>3. case.kind = "matching" => MatchesRanked(case)  BY Kinds, MatchingHolds
  <2>4. case.kind = "candidate" => GuessesReviewed(case)  BY Kinds, CandidatesHold
  <2> QED  BY <2>1, <2>2, <2>3, <2>4 DEF DetectingHolds
<1>2. DetectingHolds /\ [Next]_case => DetectingHolds'
  <2> SUFFICES ASSUME DetectingHolds, case' = case  PROVE DetectingHolds'
    BY DEF Next
  <2> QED  BY DEF DetectingHolds
<1> QED  BY <1>1, <1>2, PTL DEF Spec

-----------------------------------------------------------------------------
(***************************************************************************)
(* What is read off a page.                                                *)
(***************************************************************************)

(* What the parser of statements and that of exports both take for money   *)
(* is the same money to them, whatever the amount, but for a trailing D    *)
(* (parse_amount and parse_amount_to_cents).                               *)
THEOREM ParsersAgree ==
    ASSUME NEW p \in Printed(Nat),
           StatementAmount(p) # None, CsvAmount(p) # None, p.suffix # "D"
    PROVE  StatementAmount(p) = CsvAmount(p)
<1>1. ~p.trail /\ CsvAmount(p) = Signed(p.paren \/ p.lead = "-" \/ p.suffix = "DR", p.cents)
  BY DEF CsvAmount
<1>2. /\ ~(p.paren /\ p.suffix # "")
      /\ StatementAmount(p) =
            Signed(p.paren \/ p.trail \/ p.lead = "-" \/ p.suffix \in {"DR", "D"}, p.cents)
  BY DEF StatementAmount
<1> QED  BY <1>1, <1>2 DEF Signed

(* A plain amount, with its sign before it. *)
LEMMA PlainIs ==
    ASSUME NEW n \in Nat
    PROVE  /\ Plain(n) \in Printed(Nat)
           /\ CsvAmount(Plain(n)) = n
           /\ [Plain(n) EXCEPT !.lead = "-"] \in Printed(Nat)
           /\ CsvAmount([Plain(n) EXCEPT !.lead = "-"]) = -n
           /\ [Plain(n) EXCEPT !.lead = ""] \in Printed(Nat)
           /\ CsvAmount([Plain(n) EXCEPT !.lead = ""]) = n
<1>2. Plain(n) \in Printed(Nat)
  BY DEF Plain, Printed
<1> DEFINE minus == [Plain(n) EXCEPT !.lead = "-"]
           same == [Plain(n) EXCEPT !.lead = ""]
<1>3. minus \in Printed(Nat) /\ same \in Printed(Nat)
  BY <1>2 DEF Printed
<1>4. Plain(n).cents = n /\ Plain(n).lead = "" /\ ~Plain(n).paren /\ ~Plain(n).trail
      /\ Plain(n).suffix = ""
  BY DEF Plain
<1>5. minus.cents = n /\ minus.lead = "-" /\ ~minus.trail
  BY <1>2, <1>4 DEF Printed
<1>6. same.cents = n /\ same.lead = "" /\ ~same.paren /\ ~same.trail /\ same.suffix = ""
  BY <1>2, <1>4 DEF Printed
<1> HIDE DEF minus, same
<1>7. CsvAmount(minus) = -n /\ CsvAmount(same) = n /\ CsvAmount(Plain(n)) = n
  BY <1>4, <1>5, <1>6 DEF CsvAmount, Signed
<1> QED  BY <1>2, <1>3, <1>7 DEF minus, same

(* A debit column and a credit column give what a signed column gives,     *)
(* whatever the amount, unless the debit of a credit is printed as zero    *)
(* (_resolve_amount looks at the debit first).                             *)
THEOREM ColumnsAgree ==
    ASSUME NEW move \in Int \ {0}, NEW other \in {None, Plain(0)},
           move < 0 \/ other = None
    PROVE  LET plain == Plain(Magnitude(move))
           IN CsvRow([plain EXCEPT !.lead = IF move < 0 THEN "-" ELSE ""], None, None)
                = CsvRow(None, IF move < 0 THEN plain ELSE other,
                               IF move < 0 THEN other ELSE plain)
<1> DEFINE plain == Plain(Magnitude(move))
           minus == [plain EXCEPT !.lead = "-"]
           bare == [plain EXCEPT !.lead = ""]
           size == Magnitude(move)
<1>1. size \in Nat /\ size # 0 /\ -size \in Int /\ -size # 0
  BY DEF Magnitude
<1> HIDE DEF size
<1>2. plain # None /\ minus # None /\ CsvAmount(plain) = size
      /\ CsvAmount(minus) = -size /\ bare # None /\ CsvAmount(bare) = size
  BY <1>1, PlainIs, ReadingAssumption DEF size
<1>3. size # None /\ -size # None /\ Magnitude(size) = size
  BY <1>1, ReadingAssumption DEF Magnitude
<1> HIDE DEF plain, minus, bare
<1>4. CASE move < 0
  <2>1. CsvRow(minus, None, None) = -size
    BY <1>1, <1>2, <1>3 DEF CsvRow
  <2>2. CsvRow(None, plain, other) = -size
    BY <1>1, <1>2, <1>3 DEF CsvRow
  <2> QED  BY <1>4, <2>1, <2>2 DEF plain, minus
<1>5. CASE ~(move < 0)
  <2>1. CsvRow(bare, None, None) = size
    BY <1>1, <1>2, <1>3 DEF CsvRow
  <2>2. CsvRow(None, None, plain) = size
    BY <1>1, <1>2, <1>3 DEF CsvRow
  <2> QED  BY <1>5, <2>1, <2>2 DEF plain, bare
<1> QED  BY <1>4, <1>5

(* A row without a year gets its own, whatever the period, unless the      *)
(* period crosses New Year; months are numbered over the years             *)
(* (parse_date's year_hint).                                               *)
THEOREM YearIsOwn ==
    ASSUME NEW from \in Nat, NEW to \in Nat, NEW row \in Nat,
           from \div 12 = to \div 12, from <= row, row <= to
    PROVE  DateRead([month |-> row % 12, year |-> None], to \div 12).year = row \div 12
<1>1. row \div 12 = to \div 12
  <2> DEFINE q == to \div 12
  <2>1. q \in Nat /\ 12 * q <= from /\ to < 12 * q + 12  OBVIOUS
  <2> QED  BY <2>1
<1>2. to \div 12 # None  BY ReadingAssumption
<1> QED  BY <1>1, <1>2 DEF DateRead

-----------------------------------------------------------------------------
(***************************************************************************)
(* The text layer against the rendering.                                   *)
(***************************************************************************)

(* A figure nobody drew, or another one, is never taken for a match. *)
LEMMA DrawnOtherwise ==
    ASSUME NEW t \in Token, Plausible(t), NEW read \in {t.first, t.second}
    PROVE  /\ t.drawn = "nothing" => Verdict(t, read) = "conflict"
           /\ t.drawn = "other" => Verdict(t, read) \in {"omitted", "conflict"}
<1>1. CASE t.drawn = "nothing"
  <2>1. read = "unread"  BY <1>1 DEF Plausible
  <2> QED  BY <1>1, <2>1 DEF Verdict
<1>2. CASE t.drawn = "other"
  <2>1. read \in {"other", "unread"} /\ t.focused \in {"other", "unread"}
    BY <1>2 DEF Plausible
  <2> QED  BY <1>2, <2>1 DEF Verdict
<1> QED  BY <1>1, <1>2

(* What the budget of a page is. *)
LEMMA BudgetIs ==
    ASSUME NEW n \in Nat, NEW s, Len(s) = n
    PROVE  /\ Budget(s) \in Nat
           /\ \A r : Len(r) = n => Budget(r) = Budget(s)
<1>1. MaxOmissions \in Nat /\ (n * OmissionPercent) \div 100 \in Nat
  BY ReadingAssumption
<1>2. Max({MaxOmissions, (n * OmissionPercent) \div 100}) \in Nat
  BY <1>1, MaxMinOfTwo
<1> QED  BY <1>2 DEF Budget

(* Verdicts within the budget leave no conflict, and few omissions. *)
LEMMA WithinBudgetIs ==
    ASSUME NEW n \in Nat, NEW tokens \in [1 .. n -> Token], NEW verdicts,
           verdicts = [i \in 1 .. n |-> verdicts[i]],
           \A i \in 1 .. n :
                /\ tokens[i].drawn = "nothing" => verdicts[i] = "conflict"
                /\ tokens[i].drawn = "other" => verdicts[i] \in {"omitted", "conflict"},
           WithinBudget(verdicts)
    PROVE  /\ \A i \in 1 .. n : tokens[i].drawn # "nothing"
           /\ Cardinality({i \in 1 .. n : tokens[i].drawn = "other"}) <= Budget(tokens)
<1>1. DOMAIN verdicts = 1 .. n  OBVIOUS
<1>2. \A i \in 1 .. n : verdicts[i] # "conflict"
  BY <1>1 DEF WithinBudget, Range
<1>3. Len(verdicts) = n /\ Len(tokens) = n
  BY <1>1, LenProperties, SeqDef
<1> DEFINE others == {i \in 1 .. n : tokens[i].drawn = "other"}
           omitted == {i \in 1 .. n : verdicts[i] = "omitted"}
<1>4. others \in SUBSET omitted  BY <1>2
<1>5. IsFiniteSet(1 .. n) /\ omitted \in SUBSET (1 .. n)
  <2>1. 0 \in Int /\ 1 \in Int /\ n \in Int  OBVIOUS
  <2>2. IsFiniteSet(1 .. n)  BY <2>1, FS_Interval
  <2> QED  BY <2>2
<1>6. /\ Cardinality(others) <= Cardinality(omitted)
      /\ Cardinality(others) \in Nat /\ Cardinality(omitted) \in Nat
  <2> HIDE DEF others, omitted
  <2>1. IsFiniteSet(omitted)  BY <1>5, FS_Subset
  <2> QED  BY <1>4, <2>1, FS_Subset, FS_CardinalityType
<1>7. Cardinality(omitted) <= Budget(verdicts)
  BY <1>1 DEF WithinBudget
<1>8. Budget(verdicts) = Budget(tokens) /\ Budget(tokens) \in Nat
  BY <1>3, BudgetIs
<1> QED  BY <1>2, <1>6, <1>7, <1>8

(* A page of any length that is accepted draws something for every figure  *)
(* its text claims, and no more figures than the budget are others than    *)
(* claimed, whichever pass accepted it (verify's pass and second pass).    *)
THEOREM AcceptedIsDrawn ==
    ASSUME NEW n \in Nat, NEW tokens \in [1 .. n -> Token],
           \A i \in 1 .. n : Plausible(tokens[i]),
           NEW again \in BOOLEAN, PageAgrees(tokens, TRUE, again)
    PROVE  /\ \A i \in DOMAIN tokens : tokens[i].drawn # "nothing"
           /\ Cardinality({i \in DOMAIN tokens : tokens[i].drawn = "other"}) <= Budget(tokens)
<1>1. DOMAIN tokens = 1 .. n  OBVIOUS
<1>2. CASE tokens = <<>>
  <2>1. {i \in DOMAIN tokens : tokens[i].drawn = "other"} = {} /\ DOMAIN tokens = {}
    BY <1>2
  <2>2. Len(tokens) = 0  BY <1>2
  <2>3. Budget(tokens) \in Nat  BY <2>2, BudgetIs
  <2> QED  BY <2>1, <2>3, FS_EmptySet
<1>3. CASE WithinBudget([i \in DOMAIN tokens |-> FirstPass(tokens[i])])
  <2> DEFINE verdicts == [i \in 1 .. n |-> FirstPass(tokens[i])]
  <2>1. \A i \in 1 .. n :
            /\ tokens[i].drawn = "nothing" => verdicts[i] = "conflict"
            /\ tokens[i].drawn = "other" => verdicts[i] \in {"omitted", "conflict"}
    BY DrawnOtherwise DEF FirstPass
  <2>2. verdicts = [i \in 1 .. n |-> verdicts[i]]  OBVIOUS
  <2>3. WithinBudget(verdicts)  BY <1>1, <1>3
  <2> HIDE DEF verdicts
  <2> QED  BY <1>1, <2>1, <2>2, <2>3, WithinBudgetIs
<1>4. CASE WithinBudget([i \in DOMAIN tokens |-> SecondPass(tokens[i])])
  <2> DEFINE verdicts == [i \in 1 .. n |-> SecondPass(tokens[i])]
  <2>1. \A i \in 1 .. n :
            /\ tokens[i].drawn = "nothing" => verdicts[i] = "conflict"
            /\ tokens[i].drawn = "other" => verdicts[i] \in {"omitted", "conflict"}
    BY DrawnOtherwise DEF SecondPass
  <2>2. verdicts = [i \in 1 .. n |-> verdicts[i]]  OBVIOUS
  <2>3. WithinBudget(verdicts)  BY <1>1, <1>4
  <2> HIDE DEF verdicts
  <2> QED  BY <1>1, <2>1, <2>2, <2>3, WithinBudgetIs
<1> QED  BY <1>2, <1>3, <1>4 DEF PageAgrees

-----------------------------------------------------------------------------
(***************************************************************************)
(* A receipt.                                                              *)
(***************************************************************************)

(* A line of a receipt, of any amount. *)
AnyReceiptLine == [label : Fields \cup {"none"}, cents : Nat, confidence : 0 .. 100]

(* A guess at the total is at most sixty percent sure. *)
LEMMA GuessIsUnsure ==
    ASSUME NEW n \in Nat, NEW lines \in [1 .. n -> AnyReceiptLine],
           \A i \in 1 .. n : lines[i].label # "total"
    PROVE  \/ FieldRead(lines, "total") = None
           \/ \E cents \in Nat, sure \in 0 .. 60 :
                FieldRead(lines, "total") = [cents |-> cents, confidence |-> sure]
<1>1. {i \in DOMAIN lines : lines[i].label = "total"} = {}  OBVIOUS
<1> DEFINE largest == {i \in DOMAIN lines : \A j \in DOMAIN lines : lines[j].cents <= lines[i].cents}
<1>2. CASE lines = <<>>  BY <1>1, <1>2 DEF FieldRead
<1>3. CASE lines # <<>>
  <2>1. n # 0
    <3>1. n = 0 => lines = <<>>  OBVIOUS
    <3> QED  BY <1>3, <3>1
  <2> DEFINE v == [i \in 1 .. n |-> lines[i].cents]
  <2>2. v \in [1 .. n -> Int] /\ 1 .. n # {} /\ IsFiniteSet(1 .. n)
    <3>1. v \in [1 .. n -> Int]  BY DEF AnyReceiptLine
    <3>2. 1 \in Int /\ n \in Int  OBVIOUS
    <3>3. IsFiniteSet(1 .. n)  BY <3>2, FS_Interval
    <3>4. 1 \in 1 .. n  BY <2>1
    <3> QED  BY <3>1, <3>3, <3>4
  <2>3. PICK m \in 1 .. n : \A i \in 1 .. n : v[i] <= v[m]
    <3> HIDE DEF v
    <3> QED  BY <2>2, FamilyGreatest
  <2>4. m \in largest  BY <2>3
  <2>5. largest \in SUBSET Nat /\ largest # {}  BY <2>4
  <2>6. Min(largest) \in largest
    <3>1. PICK x \in largest : \A y \in largest : x <= y
      <4> HIDE DEF largest
      <4> QED  BY <2>5, LeastNatural
    <3> HIDE DEF largest
    <3> QED  BY <3>1, Zenon DEF Min
  <2>7. Min(largest) \in 1 .. n  BY <2>6
  <2> DEFINE best == lines[Min(largest)]
  <2>8. FieldRead(lines, "total") = [cents |-> best.cents, confidence |-> (best.confidence * 60) \div 100]
    BY <1>1, <1>3 DEF FieldRead
  <2>9. best \in AnyReceiptLine  BY <2>7
  <2> HIDE DEF best
  <2>10. best.cents \in Nat /\ best.confidence \in 0 .. 100  BY <2>9 DEF AnyReceiptLine
  <2>11. (best.confidence * 60) \div 100 \in 0 .. 60
    <3>1. \A c \in 0 .. 100 : (c * 60) \div 100 \in 0 .. 60  OBVIOUS
    <3> QED  BY <2>10, <3>1
  <2> QED  BY <2>8, <2>10, <2>11
<1> QED  BY <1>2, <1>3

(* A total no line is labelled with is reviewed, however many lines the    *)
(* receipt has, whatever they say, and even when the parts add up to it:   *)
(* the ten percent of _apply_consistency do not lift a guess over          *)
(* FIELD_REVIEW_THRESHOLD.                                                 *)
THEOREM GuessIsReviewed ==
    ASSUME NEW n \in Nat, NEW lines \in [1 .. n -> AnyReceiptLine],
           \A i \in 1 .. n : lines[i].label # "total", NEW merchant, NEW date
    PROVE  ReceiptNeedsReview(lines, merchant, date)
<1> DEFINE first == [f \in Fields |-> FieldRead(lines, f)]
           read == Corroborated(first)
<1>1. "total" \in Fields  BY DEF Fields
<1>2. SUFFICES ASSUME read["total"] # None  PROVE read["total"].confidence < 75
  BY <1>1 DEF ReceiptNeedsReview, ReceiptRead
<1>3. first["total"] = FieldRead(lines, "total")  BY <1>1
<1>4. first["total"] # None
  <2> SUFFICES ASSUME first["total"] = None  PROVE read["total"] = None
    BY <1>2
  <2> QED  BY DEF Corroborated, Checkable
<1>5. PICK cents \in Nat, sure \in 0 .. 60 :
          first["total"] = [cents |-> cents, confidence |-> sure]
  BY <1>3, <1>4, GuessIsUnsure
<1> HIDE DEF first
<1>6. CASE ~Checkable(first)
  <2>1. read = first  BY <1>6 DEF Corroborated
  <2> HIDE DEF read
  <2> QED  BY <1>5, <2>1
<1>7. CASE Checkable(first)
  <2>1. read["total"] = [first["total"] EXCEPT !.confidence =
                            IF AddsUp(first) THEN Min({100, @ + 10}) ELSE Max({0, @ - 25})]
    BY <1>1, <1>4, <1>7 DEF Corroborated
  <2> HIDE DEF read
  <2>2. read["total"].confidence = IF AddsUp(first) THEN Min({100, sure + 10}) ELSE Max({0, sure - 25})
    BY <1>5, <2>1
  <2>3. Min({100, sure + 10}) <= 70 /\ Max({0, sure - 25}) <= 70
        /\ Min({100, sure + 10}) \in Int /\ Max({0, sure - 25}) \in Int
    <3> DEFINE up == sure + 10
               down == sure - 25
    <3>1. up \in Int /\ down \in Int /\ up <= 70 /\ down <= 35  OBVIOUS
    <3> HIDE DEF up, down
    <3>2. Min({100, up}) = IF 100 <= up THEN 100 ELSE up
      <4>1. \A a, b \in Int : Min({a, b}) = IF a <= b THEN a ELSE b  BY MaxMinOfTwo
      <4> DEFINE top == 100
      <4>2. top \in Int  OBVIOUS
      <4> HIDE DEF top
      <4>3. Min({top, up}) = IF top <= up THEN top ELSE up  BY <3>1, <4>1, <4>2, Zenon
      <4> QED  BY <4>3 DEF top
    <3>3. Max({0, down}) = IF 0 >= down THEN 0 ELSE down  BY <3>1, MaxMinOfTwo
    <3>4. Min({100, up}) <= 70 /\ Max({0, down}) <= 70
          /\ Min({100, up}) \in Int /\ Max({0, down}) \in Int
      BY <3>1, <3>2, <3>3
    <3> QED  BY <3>4 DEF up, down
  <2> QED  BY <2>2, <2>3
<1> QED  BY <1>6, <1>7

-----------------------------------------------------------------------------
(***************************************************************************)
(* Sequences taken one element after the other.                            *)
(***************************************************************************)

(* What holds of zero and of every successor holds of every number. *)
LEMMA AllNaturals ==
    ASSUME NEW T \in SUBSET Nat, 0 \in T, \A k \in T : k + 1 \in T
    PROVE  T = Nat
<1> DEFINE Lacks == Nat \ T
<1> SUFFICES ASSUME Lacks # {}  PROVE FALSE  OBVIOUS
<1>1. Lacks \in SUBSET Nat  OBVIOUS
<1>2. PICK n \in Lacks : \A m \in Lacks : n <= m
  <2> HIDE DEF Lacks
  <2> QED  BY <1>1, LeastNatural
<1>3. n # 0 /\ n \in Nat  OBVIOUS
<1>4. n - 1 \in Nat /\ n - 1 \notin Lacks  BY <1>2, <1>3
<1>5. n - 1 + 1 \in T /\ n - 1 + 1 = n  BY <1>3, <1>4
<1> QED  BY <1>5

(* The greatest number of an initial segment, and of any part of it. *)
LEMMA GreatestOfPart ==
    ASSUME NEW n \in Nat, NEW s \in SUBSET (1 .. n), s # {}
    PROVE  /\ Max(s) \in s
           /\ IsFiniteSet(s) /\ IsFiniteSet(s \ {Max(s)})
           /\ Cardinality(s) \in Nat /\ Cardinality(s \ {Max(s)}) \in Nat
           /\ Cardinality(s \ {Max(s)}) = Cardinality(s) - 1
<1> DEFINE v == [i \in s |-> i]
<1>1. v \in [s -> Int]  OBVIOUS
<1>2. 1 \in Int /\ n \in Int  OBVIOUS
<1>3. IsFiniteSet(1 .. n)  BY <1>2, FS_Interval
<1>4. IsFiniteSet(s)  BY <1>3, FS_Subset
<1>5. PICK m \in s : \A i \in s : v[i] <= v[m]
  <2> HIDE DEF v
  <2> QED  BY <1>1, <1>4, FamilyGreatest
<1>6. \A i \in s : m >= i  BY <1>5
<1>7. Max(s) \in s  BY <1>6, Zenon DEF Max
<1>8. IsFiniteSet(s \ {Max(s)}) /\ Cardinality(s \ {Max(s)}) = Cardinality(s) - 1
  BY <1>4, <1>7, FS_RemoveElement
<1> QED  BY <1>4, <1>7, <1>8, FS_CardinalityType

(* The greatest of the first numbers is the last. *)
LEMMA GreatestOfFirst ==
    ASSUME NEW k \in Nat \ {0}
    PROVE  Max(1 .. k) = k /\ (1 .. k) \ {k} = 1 .. k - 1
<1>1. k \in 1 .. k /\ \A y \in 1 .. k : k >= y  OBVIOUS
<1>2. Max(1 .. k) \in 1 .. k /\ \A y \in 1 .. k : Max(1 .. k) >= y
  BY <1>1, Zenon DEF Max
<1> QED  BY <1>2

(* The first numbers are some of those that go further. *)
LEMMA FirstPart ==
    ASSUME NEW n \in Nat, NEW k \in 1 .. n
    PROVE  1 .. k \in SUBSET (1 .. n) /\ 1 .. k # {} /\ k \in Nat \ {0}
<1>1. k \in Nat \ {0} /\ k \in 1 .. k  OBVIOUS
<1>2. \A x \in 1 .. k : x \in 1 .. n  OBVIOUS
<1> QED  BY <1>1, <1>2

(* The subsets of the first n numbers with at most m elements. *)
SmallPart(n, m) == {s \in SUBSET (1 .. n) : Cardinality(s) <= m}

(* g takes the elements of a set in their order, a step for each. *)
Walks(g, base, step, D) ==
    g = [s \in D |-> IF s = {} THEN base ELSE step[Max(s)][g[s \ {Max(s)}]]]

(* However the steps are chosen, there is such a function. *)
LEMMA WalkExists ==
    ASSUME NEW n \in Nat, NEW State, NEW base \in State, NEW step \in [1 .. n -> [State -> State]]
    PROVE  \E g \in [SUBSET (1 .. n) -> State] : Walks(g, base, step, SUBSET (1 .. n))
<1> DEFINE Has(m) == \E g \in [SmallPart(n, m) -> State] : Walks(g, base, step, SmallPart(n, m))
           T == {m \in Nat : Has(m)}
<1>1. Has(0)
  <2> DEFINE g == [s \in SmallPart(n, 0) |-> base]
  <2>1. \A s \in SmallPart(n, 0) : s = {}
    <3> SUFFICES ASSUME NEW s \in SmallPart(n, 0), s # {}  PROVE FALSE  OBVIOUS
    <3>1. s \in SUBSET (1 .. n) /\ Cardinality(s) <= 0  BY DEF SmallPart
    <3>2. Cardinality(s) \in Nat /\ Cardinality(s \ {Max(s)}) \in Nat
          /\ Cardinality(s \ {Max(s)}) = Cardinality(s) - 1
      BY <3>1, GreatestOfPart
    <3> QED  BY <3>1, <3>2
  <2>2. Walks(g, base, step, SmallPart(n, 0))  BY <2>1 DEF Walks
  <2>3. g \in [SmallPart(n, 0) -> State]  OBVIOUS
  <2> QED  BY <2>2, <2>3
<1>2. ASSUME NEW m \in Nat, Has(m)  PROVE Has(m + 1)
  <2>1. PICK g \in [SmallPart(n, m) -> State] : Walks(g, base, step, SmallPart(n, m))  BY <1>2
  <2> DEFINE h == [s \in SmallPart(n, m + 1) |->
                     IF s = {} THEN base ELSE step[Max(s)][g[s \ {Max(s)}]]]
  <2>2. ASSUME NEW s \in SmallPart(n, m + 1), s # {}
        PROVE  Max(s) \in 1 .. n /\ s \ {Max(s)} \in SmallPart(n, m)
               /\ s \ {Max(s)} \in SmallPart(n, m + 1)
    <3>1. s \in SUBSET (1 .. n) /\ Cardinality(s) <= m + 1  BY DEF SmallPart
    <3>2. /\ Max(s) \in s /\ Cardinality(s) \in Nat /\ Cardinality(s \ {Max(s)}) \in Nat
          /\ Cardinality(s \ {Max(s)}) = Cardinality(s) - 1
      BY <2>2, <3>1, GreatestOfPart
    <3>3. Cardinality(s \ {Max(s)}) <= m /\ Cardinality(s \ {Max(s)}) <= m + 1
      BY <3>1, <3>2
    <3> QED  BY <3>1, <3>2, <3>3 DEF SmallPart
  <2>3. ASSUME NEW s \in SmallPart(n, m)  PROVE s \in SmallPart(n, m + 1) /\ h[s] = g[s]
    <3>1. s \in SmallPart(n, m + 1)
      <4>1. s \in SUBSET (1 .. n) /\ Cardinality(s) <= m  BY DEF SmallPart
      <4>2. 1 \in Int /\ n \in Int  OBVIOUS
      <4>3. IsFiniteSet(s)  BY <4>1, <4>2, FS_Interval, FS_Subset
      <4>4. Cardinality(s) \in Nat  BY <4>3, FS_CardinalityType
      <4> QED  BY <4>1, <4>4 DEF SmallPart
    <3>2. g[s] = IF s = {} THEN base ELSE step[Max(s)][g[s \ {Max(s)}]]
      BY <2>1 DEF Walks
    <3> QED  BY <3>1, <3>2
  <2>4. h \in [SmallPart(n, m + 1) -> State]
    <3> SUFFICES ASSUME NEW s \in SmallPart(n, m + 1)
                 PROVE  (IF s = {} THEN base ELSE step[Max(s)][g[s \ {Max(s)}]]) \in State
      OBVIOUS
    <3>1. CASE s = {}  BY <3>1
    <3>2. CASE s # {}
      <4>1. Max(s) \in 1 .. n /\ g[s \ {Max(s)}] \in State  BY <2>2, <3>2
      <4>2. step[Max(s)] \in [State -> State]  BY <4>1
      <4>3. step[Max(s)][g[s \ {Max(s)}]] \in State  BY <4>1, <4>2
      <4> QED  BY <3>2, <4>3
    <3> QED  BY <3>1, <3>2
  <2>5. Walks(h, base, step, SmallPart(n, m + 1))
    <3>1. \A s \in SmallPart(n, m + 1) : s # {} => h[s \ {Max(s)}] = g[s \ {Max(s)}]
      BY <2>2, <2>3
    <3> HIDE DEF h
    <3>2. h = [s \in SmallPart(n, m + 1) |->
                  IF s = {} THEN base ELSE step[Max(s)][g[s \ {Max(s)}]]]  BY DEF h
    <3>3. h = [s \in SmallPart(n, m + 1) |->
                  IF s = {} THEN base ELSE step[Max(s)][h[s \ {Max(s)}]]]  BY <3>1, <3>2
    <3> QED  BY <3>3 DEF Walks
  <2> QED  BY <2>4, <2>5
<1>3. T = Nat
  <2>1. T \in SUBSET Nat /\ 0 \in T  BY <1>1
  <2>2. \A k \in T : k + 1 \in T  BY <1>2
  <2> HIDE DEF T
  <2> QED  BY <2>1, <2>2, AllNaturals
<1>4. 1 \in Int /\ n \in Int  OBVIOUS
<1>5. IsFiniteSet(1 .. n) /\ Cardinality(1 .. n) \in Nat
  BY <1>4, FS_Interval, FS_CardinalityType
<1>6. Has(Cardinality(1 .. n))  BY <1>3, <1>5
<1>7. SmallPart(n, Cardinality(1 .. n)) = SUBSET (1 .. n)
  BY <1>5, FS_Subset DEF SmallPart
<1> QED  BY <1>6, <1>7

(* One more entry leaves the earlier ones as they were. *)
LEMMA EntryAdded ==
    ASSUME NEW S, NEW k \in Nat, NEW log \in Seq(S), Len(log) = k, NEW e \in S
    PROVE  /\ Append(log, e) \in Seq(S) /\ Len(Append(log, e)) = k + 1
           /\ Append(log, e)[k + 1] = e
           /\ \A x \in 1 .. k : Append(log, e)[x] = log[x] /\ log[x] \in S
<1> DEFINE new == Append(log, e)
<1>1. new \in Seq(S) /\ Len(new) = k + 1 /\ new[k + 1] = e  OBVIOUS
<1>2. \A x \in 1 .. k : new[x] = log[x] /\ log[x] \in S  OBVIOUS
<1> QED  BY <1>1, <1>2

-----------------------------------------------------------------------------
(***************************************************************************)
(* The running balance.                                                    *)
(***************************************************************************)

(* A row of a statement, with any dates and notes, and what has been made  *)
(* of the rows so far.                                                     *)
AnyRow(When, Notes) ==
    [date : When, amount : Int, balance : Int \cup {None}, confidence : Int, notes : SUBSET Notes]
NoteNames(Notes) == {"sign_from_balance", "balance_mismatch"} \subseteq Notes
Chaining(Rows) == [previous : Int \cup {None}, rows : Seq(Rows)]
FreshChain == [previous |-> None, rows |-> <<>>]
RowChained(c, row) ==
    IF row.balance = None \/ c.previous = None THEN row ELSE Settled(row, c.previous)
NextChain(c, row) ==
    [previous |-> IF row.balance = None THEN c.previous ELSE row.balance,
     rows |-> Append(c.rows, RowChained(c, row))]

(* How the chain comes about, row by row: st[k] is what is made of the     *)
(* first k rows.                                                           *)
ChainSteps(n, rows, st) ==
    /\ st[0] = FreshChain
    /\ \A k \in 1 .. n : st[k] = NextChain(st[k - 1], rows[k])
    /\ Chained(rows) = st[n].rows

(* A row checked against the balance before it is put right, or noted.     *)
PutRight(row, previous, new) ==
    /\ new.balance = row.balance /\ row.notes \subseteq new.notes
    /\ Magnitude(row.balance - previous) = Magnitude(row.amount) =>
          new.amount = row.balance - previous
    /\ Magnitude(row.balance - previous) = Magnitude(row.amount)
            /\ row.balance - previous # row.amount => "sign_from_balance" \in new.notes
    /\ Magnitude(row.balance - previous) # Magnitude(row.amount) =>
          "balance_mismatch" \in new.notes /\ new.amount = row.amount /\ new.confidence <= 40

(* What Settled does: the sign is the one the balances tell, or the row is *)
(* noted.                                                                  *)
LEMMA SettledIs ==
    ASSUME NEW When, NEW Notes, NoteNames(Notes),
           NEW row \in AnyRow(When, Notes), NEW previous \in Int, row.balance \in Int
    PROVE  /\ Settled(row, previous) \in AnyRow(When, Notes)
           /\ PutRight(row, previous, Settled(row, previous))
<1> DEFINE delta == row.balance - previous
           new == Settled(row, previous)
           flipped == [row EXCEPT !.amount = delta, !.notes = row.notes \cup {"sign_from_balance"}]
           noted == [row EXCEPT !.confidence = IF row.confidence < 40 THEN row.confidence ELSE 40,
                                !.notes = row.notes \cup {"balance_mismatch"}]
<1>0. {"sign_from_balance", "balance_mismatch"} \subseteq Notes  BY DEF NoteNames
<1>1. delta \in Int /\ row.amount \in Int /\ row.confidence \in Int /\ row.notes \in SUBSET Notes
  BY DEF AnyRow
<1>2. new = IF delta = row.amount THEN row
            ELSE IF Magnitude(delta) = Magnitude(row.amount) THEN flipped ELSE noted
  BY Zenon DEF Settled
<1> HIDE DEF delta, new
<1>3. /\ flipped \in AnyRow(When, Notes) /\ flipped.balance = row.balance
      /\ flipped.notes = row.notes \cup {"sign_from_balance"} /\ flipped.amount = delta
  BY <1>0, <1>1 DEF AnyRow
<1>4. /\ noted \in AnyRow(When, Notes) /\ noted.balance = row.balance
      /\ noted.notes = row.notes \cup {"balance_mismatch"} /\ noted.amount = row.amount
      /\ noted.confidence <= 40
  <2> DEFINE unsure == IF row.confidence < 40 THEN row.confidence ELSE 40
             known == row.notes \cup {"balance_mismatch"}
  <2>1. unsure \in Int /\ unsure <= 40 /\ known \in SUBSET Notes  BY <1>0, <1>1
  <2> HIDE DEF unsure
  <2> DEFINE one == [row EXCEPT !.confidence = unsure]
  <2>2. /\ one \in AnyRow(When, Notes) /\ one.balance = row.balance
        /\ one.amount = row.amount /\ one.confidence = unsure
    BY <2>1 DEF AnyRow
  <2> HIDE DEF one, known
  <2> DEFINE two == [one EXCEPT !.notes = known]
  <2>3. /\ two \in AnyRow(When, Notes) /\ two.balance = row.balance /\ two.notes = known
        /\ two.amount = row.amount /\ two.confidence = unsure
    BY <2>1, <2>2 DEF AnyRow
  <2>4. noted = two  BY Zenon DEF unsure, known, one
  <2> QED  BY <2>1, <2>3, <2>4 DEF known
<1> HIDE DEF flipped, noted
<1>5. new \in AnyRow(When, Notes) /\ new.balance = row.balance /\ row.notes \subseteq new.notes
  BY <1>2, <1>3, <1>4
<1>6. Magnitude(delta) = Magnitude(row.amount) => new.amount = delta
  BY <1>2, <1>3
<1>7. Magnitude(delta) # Magnitude(row.amount) =>
        "balance_mismatch" \in new.notes /\ new.amount = row.amount /\ new.confidence <= 40
  BY <1>2, <1>4
<1>8. Magnitude(delta) = Magnitude(row.amount) /\ delta # row.amount =>
        "sign_from_balance" \in new.notes
  BY <1>2, <1>3
<1>9. PutRight(row, previous, new)  BY <1>5, <1>6, <1>7, <1>8 DEF delta, PutRight
<1> QED  BY <1>5, <1>9 DEF new

(* The chain goes on with rows. *)
LEMMA NextChainTyped ==
    ASSUME NEW When, NEW Notes, NoteNames(Notes),
           NEW c \in Chaining(AnyRow(When, Notes)), NEW row \in AnyRow(When, Notes)
    PROVE  /\ RowChained(c, row) \in AnyRow(When, Notes)
           /\ NextChain(c, row) \in Chaining(AnyRow(When, Notes))
<1> DEFINE R == AnyRow(When, Notes)
<1>1. c.previous \in Int \cup {None} /\ c.rows \in Seq(R)  BY DEF Chaining
<1>2. row.balance \in Int \cup {None}  BY DEF AnyRow
<1>3. RowChained(c, row) \in R
  <2>1. CASE row.balance = None \/ c.previous = None  BY <2>1 DEF RowChained
  <2>2. CASE ~(row.balance = None \/ c.previous = None)
    <3>1. row.balance \in Int /\ c.previous \in Int  BY <1>1, <1>2, <2>2
    <3>2. Settled(row, c.previous) \in R  BY <3>1, SettledIs
    <3> QED  BY <2>2, <3>2 DEF RowChained
  <2> QED  BY <2>1, <2>2
<1> HIDE DEF R
<1>4. Append(c.rows, RowChained(c, row)) \in Seq(R)  BY <1>1, <1>3
<1>5. NextChain(c, row) \in Chaining(R)  BY <1>1, <1>2, <1>4 DEF NextChain, Chaining
<1> QED  BY <1>3, <1>5 DEF R

(* The chain, row by row. *)
LEMMA ChainedIs ==
    ASSUME NEW When, NEW Notes, NoteNames(Notes),
           NEW n \in Nat, NEW rows \in [1 .. n -> AnyRow(When, Notes)]
    PROVE  \E st \in [0 .. n -> Chaining(AnyRow(When, Notes))] : ChainSteps(n, rows, st)
<1> DEFINE C == Chaining(AnyRow(When, Notes))
           step == [k \in 1 .. n |-> [b \in C |-> NextChain(b, rows[k])]]
           Right(g) == g = [s \in SUBSET (1 .. n) |->
                              IF s = {} THEN FreshChain
                              ELSE NextChain(g[s \ {Max(s)}], rows[Max(s)])]
           h == CHOOSE g : Right(g)
<1>1. FreshChain \in C
  <2>1. <<>> \in Seq(AnyRow(When, Notes))  OBVIOUS
  <2> QED  BY <2>1 DEF FreshChain, Chaining
<1>2. step \in [1 .. n -> [C -> C]]
  <2>1. \A k \in 1 .. n : \A b \in C : NextChain(b, rows[k]) \in C  BY NextChainTyped
  <2> HIDE DEF C
  <2> QED  BY <2>1
<1>3. PICK w \in [SUBSET (1 .. n) -> C] : Walks(w, FreshChain, step, SUBSET (1 .. n))
  <2> HIDE DEF step, C
  <2> QED  BY <1>1, <1>2, WalkExists
<1> HIDE DEF C
<1>4. Right(w)
  <2>1. ASSUME NEW s \in SUBSET (1 .. n), s # {}
        PROVE  step[Max(s)][w[s \ {Max(s)}]] = NextChain(w[s \ {Max(s)}], rows[Max(s)])
    <3>1. Max(s) \in 1 .. n  BY <2>1, GreatestOfPart
    <3>2. w[s \ {Max(s)}] \in C  OBVIOUS
    <3> QED  BY <3>1, <3>2
  <2> HIDE DEF step
  <2>2. w = [s \in SUBSET (1 .. n) |->
               IF s = {} THEN FreshChain ELSE step[Max(s)][w[s \ {Max(s)}]]]
    BY <1>3 DEF Walks
  <2> QED  BY <2>1, <2>2
<1>5. Right(h)
  <2> HIDE DEF Right
  <2> QED  BY <1>4, Zenon
<1>6. Chained(rows) = h[1 .. n].rows
  <2>1. DOMAIN rows = 1 .. n  OBVIOUS
  <2>2. Chained(rows) =
          (CHOOSE g : g = [s \in SUBSET DOMAIN rows |->
                             IF s = {} THEN FreshChain
                             ELSE NextChain(g[s \ {Max(s)}], rows[Max(s)])])[DOMAIN rows].rows
    BY DEF Chained, FoldLeft, MapThenFoldSet, FreshChain, NextChain, RowChained
  <2> QED  BY <2>1, <2>2, Zenon
<1> HIDE DEF h
<1>7. h[{}] = FreshChain
  <2>1. {} \in SUBSET (1 .. n)  OBVIOUS
  <2> QED  BY <1>5, <2>1
<1>8. \A k \in 1 .. n : h[1 .. k] = NextChain(h[1 .. k - 1], rows[k])
  <2> SUFFICES ASSUME NEW k \in 1 .. n  PROVE h[1 .. k] = NextChain(h[1 .. k - 1], rows[k])
    OBVIOUS
  <2>1. 1 .. k \in SUBSET (1 .. n) /\ 1 .. k # {} /\ k \in Nat \ {0}  BY FirstPart
  <2>2. Max(1 .. k) = k /\ (1 .. k) \ {k} = 1 .. k - 1  BY <2>1, GreatestOfFirst
  <2>3. h[1 .. k] = NextChain(h[(1 .. k) \ {Max(1 .. k)}], rows[Max(1 .. k)])
    BY <1>5, <2>1
  <2> QED  BY <2>2, <2>3, Zenon
<1> DEFINE T == {k \in Nat : k <= n => h[1 .. k] \in C}
<1>9. T = Nat
  <2>1. 1 .. 0 = {}  OBVIOUS
  <2>2. T \in SUBSET Nat /\ 0 \in T  BY <1>1, <1>7, <2>1
  <2>3. ASSUME NEW k \in T  PROVE k + 1 \in T
    <3> SUFFICES ASSUME k + 1 <= n  PROVE h[1 .. k + 1] \in C  OBVIOUS
    <3>1. k \in Nat /\ k <= n /\ h[1 .. k] \in C  OBVIOUS
    <3>2. k + 1 \in 1 .. n /\ (k + 1) - 1 = k  BY <3>1
    <3>3. h[1 .. k + 1] = NextChain(h[1 .. k], rows[k + 1])
      <4>1. h[1 .. k + 1] = NextChain(h[1 .. (k + 1) - 1], rows[k + 1])  BY <1>8, <3>2
      <4> QED  BY <3>2, <4>1
    <3>4. rows[k + 1] \in AnyRow(When, Notes)  BY <3>2
    <3> QED  BY <3>1, <3>3, <3>4, NextChainTyped DEF C
  <2> HIDE DEF T
  <2> QED  BY <2>2, <2>3, AllNaturals
<1> DEFINE st == [k \in 0 .. n |-> h[1 .. k]]
<1>10. st \in [0 .. n -> C]
  <2>1. \A k \in 0 .. n : h[1 .. k] \in C  BY <1>9
  <2> QED  BY <2>1
<1>11. st[0] = FreshChain
  <2>1. 1 .. 0 = {}  OBVIOUS
  <2> QED  BY <1>7, <2>1
<1>12. \A k \in 1 .. n : st[k] = NextChain(st[k - 1], rows[k])
  <2>1. \A k \in 1 .. n : k - 1 \in 0 .. n /\ k \in 0 .. n  OBVIOUS
  <2> QED  BY <1>8, <2>1
<1>13. st[n] = h[1 .. n]  OBVIOUS
<1> HIDE DEF st
<1>14. ChainSteps(n, rows, st)  BY <1>6, <1>11, <1>12, <1>13 DEF ChainSteps
<1> QED  BY <1>10, <1>14 DEF C

(* Each row of the chain is what its own step made of it.                  *)
RowByRow(n, rows, st) == \A j \in 1 .. n : Chained(rows)[j] = RowChained(st[j - 1], rows[j])

(* A row of the chain is what its own step made of it. *)
LEMMA ChainHistory ==
    ASSUME NEW When, NEW Notes, NoteNames(Notes),
           NEW n \in Nat, NEW rows \in [1 .. n -> AnyRow(When, Notes)],
           NEW st \in [0 .. n -> Chaining(AnyRow(When, Notes))],
           ChainSteps(n, rows, st)
    PROVE  Len(Chained(rows)) = n /\ RowByRow(n, rows, st)
<1>0. /\ st[0] = FreshChain /\ \A k \in 1 .. n : st[k] = NextChain(st[k - 1], rows[k])
      /\ Chained(rows) = st[n].rows
  BY DEF ChainSteps
<1> DEFINE R == AnyRow(When, Notes)
           Good(k) == /\ Len(st[k].rows) = k
                      /\ \A j \in 1 .. k : st[k].rows[j] = RowChained(st[j - 1], rows[j])
           T == {k \in Nat : k <= n => Good(k)}
<1>1. Good(0)
  <2>1. Len(<<>>) = 0 /\ 1 .. 0 = {}  OBVIOUS
  <2> QED  BY <1>0, <2>1 DEF FreshChain
<1>2. ASSUME NEW k \in T  PROVE k + 1 \in T
  <2> SUFFICES ASSUME k + 1 <= n  PROVE Good(k + 1)  OBVIOUS
  <2>1. k \in Nat /\ k <= n /\ Good(k)  OBVIOUS
  <2>2. k + 1 \in 1 .. n /\ (k + 1) - 1 = k /\ k \in 0 .. n  BY <2>1
  <2>3. st[k + 1] = NextChain(st[k], rows[k + 1])
    <3>1. st[k + 1] = NextChain(st[(k + 1) - 1], rows[k + 1])  BY <1>0, <2>2
    <3> QED  BY <2>2, <3>1
  <2> DEFINE row == RowChained(st[k], rows[k + 1])
             old == st[k].rows
  <2>4. st[k + 1].rows = Append(old, row)  BY <2>3 DEF NextChain
  <2>5. old \in Seq(R)  BY <2>2 DEF Chaining
  <2>6. rows[k + 1] \in R /\ st[k] \in Chaining(R)  BY <2>2
  <2>7. row \in R  BY <2>6, NextChainTyped
  <2>8. Len(old) = k /\ \A j \in 1 .. k : old[j] = RowChained(st[j - 1], rows[j])  BY <2>1
  <2> DEFINE new == Append(old, row)
  <2> HIDE DEF row, old, R
  <2>9. Len(new) = k + 1 /\ new[k + 1] = row /\ \A j \in 1 .. k : new[j] = old[j]
    <3>1. /\ Append(old, row) \in Seq(R) /\ Len(Append(old, row)) = k + 1
          /\ Append(old, row)[k + 1] = row
          /\ \A x \in 1 .. k : Append(old, row)[x] = old[x] /\ old[x] \in R
      BY <2>1, <2>5, <2>7, <2>8, EntryAdded
    <3> QED  BY <3>1
  <2>10. \A j \in 1 .. k + 1 : j \in 1 .. k \/ j = k + 1  BY <2>1
  <2>11. \A j \in 1 .. k + 1 : new[j] = RowChained(st[j - 1], rows[j])
    <3> SUFFICES ASSUME NEW j \in 1 .. k + 1  PROVE new[j] = RowChained(st[j - 1], rows[j])
      OBVIOUS
    <3>1. CASE j \in 1 .. k  BY <2>8, <2>9, <3>1
    <3>2. CASE j = k + 1
      <4>1. row = RowChained(st[(k + 1) - 1], rows[k + 1])  BY <2>2, Zenon DEF row
      <4> QED  BY <2>9, <3>2, <4>1
    <3> QED  BY <2>10, <3>1, <3>2
  <2> QED  BY <2>4, <2>9, <2>11
<1>3. T = Nat
  <2>1. T \in SUBSET Nat /\ 0 \in T  BY <1>1
  <2> HIDE DEF T
  <2> QED  BY <1>2, <2>1, AllNaturals
<1>4. Good(n)  BY <1>3
<1> QED  BY <1>0, <1>4 DEF RowByRow

(* The balance of row i is the last one on the rows up to row j.           *)
LastBalance(rows, i, j) ==
    rows[i].balance # None /\ \A x \in i + 1 .. j : rows[x].balance = None

(* What a row is checked against is the last balance before it. *)
LEMMA ChainPrevious ==
    ASSUME NEW When, NEW Notes, NoteNames(Notes),
           NEW n \in Nat, NEW rows \in [1 .. n -> AnyRow(When, Notes)],
           NEW st \in [0 .. n -> Chaining(AnyRow(When, Notes))],
           ChainSteps(n, rows, st),
           NEW i \in 1 .. n, NEW j \in i .. n, LastBalance(rows, i, j)
    PROVE  st[j].previous = rows[i].balance
<1>0. rows[i].balance # None /\ \A x \in i + 1 .. j : rows[x].balance = None
  BY DEF LastBalance
<1>s. \A k \in 1 .. n : st[k] = NextChain(st[k - 1], rows[k])  BY DEF ChainSteps
<1> DEFINE T == {m \in Nat : i + m <= j => st[i + m].previous = rows[i].balance}
<1>1. 0 \in T
  <2>1. st[i] = NextChain(st[i - 1], rows[i])  BY <1>s
  <2>2. st[i].previous = rows[i].balance  BY <1>0, <2>1 DEF NextChain
  <2>3. i + 0 = i  OBVIOUS
  <2> QED  BY <2>2, <2>3
<1>2. ASSUME NEW m \in T  PROVE m + 1 \in T
  <2> SUFFICES ASSUME i + (m + 1) <= j  PROVE st[i + (m + 1)].previous = rows[i].balance
    OBVIOUS
  <2>1. m \in Nat /\ i + m <= j /\ st[i + m].previous = rows[i].balance  OBVIOUS
  <2>2. i + (m + 1) \in 1 .. n /\ (i + (m + 1)) - 1 = i + m /\ i + (m + 1) \in i + 1 .. j
    BY <2>1
  <2>3. st[i + (m + 1)] = NextChain(st[i + m], rows[i + (m + 1)])
    <3>1. st[i + (m + 1)] = NextChain(st[(i + (m + 1)) - 1], rows[i + (m + 1)])  BY <1>s, <2>2
    <3> QED  BY <2>2, <3>1
  <2>4. rows[i + (m + 1)].balance = None  BY <1>0, <2>2
  <2> QED  BY <2>1, <2>3, <2>4 DEF NextChain
<1>3. T = Nat
  <2>1. T \in SUBSET Nat  OBVIOUS
  <2> HIDE DEF T
  <2> QED  BY <1>1, <1>2, <2>1, AllNaturals
<1>4. j - i \in Nat /\ i + (j - i) = j /\ i + (j - i) <= j  OBVIOUS
<1>5. j - i \in T  BY <1>3, <1>4
<1>6. st[i + (j - i)].previous = rows[i].balance  BY <1>4, <1>5
<1> QED  BY <1>4, <1>6

(* Marking the first row changes no amount and no balance, takes no note   *)
(* away and makes no row surer.                                            *)
LEMMA FlagKeeps ==
    ASSUME NEW When, NEW Notes, NEW n \in Nat, NEW rows \in [1 .. n -> AnyRow(When, Notes)]
    PROVE  \A j \in 1 .. n :
              /\ FlagFirst(rows)[j].amount = rows[j].amount
              /\ rows[j].notes \subseteq FlagFirst(rows)[j].notes
              /\ FlagFirst(rows)[j].confidence <= rows[j].confidence
              /\ FlagFirst(rows)[j].confidence \in Int
<1> DEFINE at == Min(Unresolved(rows))
           unsure(row) == IF row.confidence < 50 THEN row.confidence ELSE 50
<1>1. FlagFirst(rows) = rows \/ FlagFirst(rows) = [rows EXCEPT ![at] = Unsure(rows[at])]
  BY DEF FlagFirst
<1>2. \A j \in 1 .. n : /\ rows[j].confidence \in Int
                        /\ Unsure(rows[j]).amount = rows[j].amount
                        /\ rows[j].notes \subseteq Unsure(rows[j]).notes
                        /\ Unsure(rows[j]).confidence <= rows[j].confidence
                        /\ Unsure(rows[j]).confidence \in Int
  <2> SUFFICES ASSUME NEW row \in AnyRow(When, Notes)
               PROVE  /\ row.confidence \in Int
                      /\ Unsure(row).amount = row.amount
                      /\ row.notes \subseteq Unsure(row).notes
                      /\ Unsure(row).confidence <= row.confidence
                      /\ Unsure(row).confidence \in Int
    BY Zenon
  <2>1. row.confidence \in Int  BY DEF AnyRow
  <2>2. unsure(row) <= row.confidence /\ unsure(row) \in Int  BY <2>1
  <2> DEFINE one == [row EXCEPT !.confidence = unsure(row)]
             known == row.notes \cup {"sign_unresolved"}
             two == [one EXCEPT !.notes = known]
  <2>3. Unsure(row) = two  BY Zenon DEF Unsure
  <2> HIDE DEF unsure
  <2>4. one.amount = row.amount /\ one.confidence = unsure(row)
        /\ DOMAIN one = {"date", "amount", "balance", "confidence", "notes"}
    BY DEF AnyRow
  <2> HIDE DEF one, known
  <2>5. two.amount = row.amount /\ two.confidence = unsure(row) /\ two.notes = known
    BY <2>4
  <2> QED  BY <2>1, <2>2, <2>3, <2>5 DEF known
<1> HIDE DEF at
<1>3. CASE FlagFirst(rows) = rows  BY <1>2, <1>3
<1>4. CASE FlagFirst(rows) = [rows EXCEPT ![at] = Unsure(rows[at])]
  <2> DEFINE new == [rows EXCEPT ![at] = Unsure(rows[at])]
  <2>1. \A j \in 1 .. n : new[j] = rows[j] \/ new[j] = Unsure(rows[j])  OBVIOUS
  <2> HIDE DEF new
  <2>2. \A j \in 1 .. n :
            /\ new[j].amount = rows[j].amount
            /\ rows[j].notes \subseteq new[j].notes
            /\ new[j].confidence <= rows[j].confidence /\ new[j].confidence \in Int
    BY <1>2, <2>1
  <2> QED  BY <1>4, <2>2 DEF new
<1> QED  BY <1>1, <1>3, <1>4

(* A row that has a balance.                                               *)
HasBalance(rows, j) == rows[j].balance # None

(* On a statement of any length, take a row with a balance and the last    *)
(* row before it that has one.  If the amount that is printed is, but for  *)
(* its sign, the difference of the two balances, the row gets that         *)
(* difference, sign included.  If not, something was misread: the row is   *)
(* noted, asks for review, and the statement does not pass.  So in a       *)
(* statement that passes every such amount is the difference of its        *)
(* balances (_apply_balance_chain).                                        *)
THEOREM ChainSettlesAmounts ==
    ASSUME NEW When, NEW Notes, NoteNames(Notes),
           NEW n \in Nat, NEW rows \in [1 .. n -> AnyRow(When, Notes)],
           NEW i \in 1 .. n, NEW j \in i + 1 .. n,
           LastBalance(rows, i, j - 1), HasBalance(rows, j)
    PROVE  LET delta == rows[j].balance - rows[i].balance
               row == AfterChain(rows)[j]
           IN /\ Magnitude(delta) = Magnitude(rows[j].amount) => row.amount = delta
              /\ Magnitude(delta) # Magnitude(rows[j].amount) =>
                    Noted(row, "balance_mismatch") /\ row.confidence <= 40 /\ ~ChainOk(rows)
              /\ ChainOk(rows) => row.amount = delta
<1> DEFINE R == AnyRow(When, Notes)
           delta == rows[j].balance - rows[i].balance
<1> HIDE DEF R, delta
<1>0. NoteNames(Notes) /\ n \in Nat /\ rows \in [1 .. n -> AnyRow(When, Notes)]  OBVIOUS
<1>1. PICK st \in [0 .. n -> Chaining(AnyRow(When, Notes))] : ChainSteps(n, rows, st)
  BY <1>0, ChainedIs
<1>2. i \in Nat /\ j \in 1 .. n /\ j - 1 \in i .. n /\ i < j /\ n \in 0 .. n /\ j - 1 \in 0 .. n
  OBVIOUS
<1>3. rows[i].balance \in Int /\ rows[j].balance \in Int /\ rows[j].amount \in Int /\ rows[j] \in R
  BY <1>2 DEF AnyRow, R, LastBalance, HasBalance
<1>4. st[j - 1].previous = rows[i].balance
  <2> DEFINE m == j - 1
  <2>1. m \in i .. n /\ LastBalance(rows, i, m)  BY <1>2
  <2> HIDE DEF m
  <2>3. st[m].previous = rows[i].balance  BY <1>0, <1>1, <1>2, <2>1, ChainPrevious
  <2> QED  BY <2>3 DEF m
<1>5. Len(Chained(rows)) = n /\ RowByRow(n, rows, st)  BY <1>0, <1>1, ChainHistory
<1> DEFINE chained == Chained(rows)
<1>6. chained \in Seq(R) /\ Len(chained) = n  BY <1>1, <1>2, <1>5 DEF Chaining, R, ChainSteps
<1>7. chained \in [1 .. n -> R]
  <2> HIDE DEF R, chained
  <2> QED  BY <1>6
<1>8. chained[j] = Settled(rows[j], rows[i].balance)
  <2>1. chained[j] = RowChained(st[j - 1], rows[j])  BY <1>2, <1>5 DEF RowByRow
  <2>2. rows[i].balance # None /\ rows[j].balance # None  BY DEF LastBalance, HasBalance
  <2> QED  BY <1>4, <2>1, <2>2, Zenon DEF RowChained
<1>9. /\ Magnitude(delta) = Magnitude(rows[j].amount) => chained[j].amount = delta
      /\ Magnitude(delta) # Magnitude(rows[j].amount) =>
            "balance_mismatch" \in chained[j].notes /\ chained[j].confidence <= 40
  <2>1. rows[j] \in AnyRow(When, Notes)  BY <1>3 DEF R
  <2> HIDE DEF chained
  <2>2. PutRight(rows[j], rows[i].balance, Settled(rows[j], rows[i].balance))
    BY <1>0, <1>3, <2>1, SettledIs
  <2>3. PutRight(rows[j], rows[i].balance, chained[j])  BY <1>8, <2>2
  <2> QED  BY <2>3, Zenon DEF PutRight, delta
<1>10. ChainChecked(rows)
  <2> DEFINE balanced == {x \in DOMAIN rows : rows[x].balance # None}
  <2>1. {i, j} \in SUBSET balanced /\ balanced \in SUBSET (1 .. n)
    BY <1>2 DEF LastBalance, HasBalance
  <2>2. 1 \in Int /\ n \in Int  OBVIOUS
  <2>3. IsFiniteSet(balanced)  BY <2>1, <2>2, FS_Interval, FS_Subset
  <2> HIDE DEF balanced
  <2>4. Cardinality({i, j}) = 2
    <3>0. j \notin {i}  BY <1>2
    <3> DEFINE one == {i}
    <3>1. IsFiniteSet(one) /\ Cardinality(one) = 1 /\ j \notin one  BY <3>0, FS_Singleton
    <3>2. {i, j} = one \cup {j}  OBVIOUS
    <3> HIDE DEF one
    <3>3. Cardinality(one \cup {j}) = 1 + 1  BY <3>1, FS_AddElement
    <3>4. Cardinality({i, j}) = Cardinality(one \cup {j})  BY <3>2, Zenon
    <3> QED  BY <3>3, <3>4
  <2>5. Cardinality({i, j}) <= Cardinality(balanced) /\ Cardinality(balanced) \in Nat
    BY <2>1, <2>3, FS_Subset, FS_CardinalityType
  <2>6. Cardinality(balanced) >= 2  BY <2>4, <2>5
  <2> QED  BY <2>6 DEF ChainChecked, balanced
<1>11. AfterChain(rows) = FlagFirst(chained)  BY <1>10 DEF AfterChain
<1> DEFINE row == AfterChain(rows)[j]
<1>12. /\ row.amount = chained[j].amount /\ chained[j].notes \subseteq row.notes
       /\ row.confidence <= chained[j].confidence /\ row.confidence \in Int
  <2> HIDE DEF chained
  <2>1. chained \in [1 .. n -> AnyRow(When, Notes)]  BY <1>7 DEF R
  <2>2. \A x \in 1 .. n :
            /\ FlagFirst(chained)[x].amount = chained[x].amount
            /\ chained[x].notes \subseteq FlagFirst(chained)[x].notes
            /\ FlagFirst(chained)[x].confidence <= chained[x].confidence
            /\ FlagFirst(chained)[x].confidence \in Int
    BY <2>1, FlagKeeps
  <2> QED  BY <1>2, <1>11, <2>2
<1>13. Magnitude(delta) = Magnitude(rows[j].amount) => row.amount = delta
  BY <1>9, <1>12
<1>14. ASSUME Magnitude(delta) # Magnitude(rows[j].amount)
       PROVE  Noted(row, "balance_mismatch") /\ row.confidence <= 40 /\ ~ChainOk(rows)
  <2>1. "balance_mismatch" \in row.notes  BY <1>9, <1>12, <1>14
  <2>2. row.confidence <= 40
    <3>1. chained[j].confidence \in Int  BY <1>2, <1>7 DEF AnyRow, R
    <3>2. row.confidence <= chained[j].confidence /\ chained[j].confidence <= 40
          /\ row.confidence \in Int
      BY <1>9, <1>12, <1>14
    <3> HIDE DEF row, chained
    <3> QED  BY <3>1, <3>2
  <2>3. j \in DOMAIN rows  BY <1>2
  <2> HIDE DEF row
  <2>4. Noted(row, "balance_mismatch")  BY <2>1 DEF Noted
  <2>5. ~ChainOk(rows)  BY <2>3, <2>4 DEF ChainOk, row
  <2> QED  BY <2>2, <2>4, <2>5
<1>15. ChainOk(rows) => row.amount = delta  BY <1>13, <1>14
<1> QED  BY <1>13, <1>14, <1>15 DEF delta, row

-----------------------------------------------------------------------------
(***************************************************************************)
(* Statements whose rows all have a balance, with at most one figure       *)
(* misread.                                                                *)
(***************************************************************************)

(* What the chain makes of such rows, before the first is marked.          *)
SettledInTurn(n, rows, chained) ==
    /\ chained[1] = rows[1]
    /\ \A i \in 2 .. n : chained[i] = Settled(rows[i], rows[i - 1].balance)

(* Every row but the first is checked against the one before it.           *)
LEMMA WholeChain ==
    ASSUME NEW When, NEW Notes, NoteNames(Notes), NEW n \in Nat, n >= 2,
           NEW rows \in [1 .. n -> AnyRow(When, Notes)], \A i \in 1 .. n : rows[i].balance \in Int
    PROVE  /\ Chained(rows) \in [1 .. n -> AnyRow(When, Notes)]
           /\ SettledInTurn(n, rows, Chained(rows))
           /\ AfterChain(rows) = FlagFirst(Chained(rows))
<1> DEFINE R == AnyRow(When, Notes)
           chained == Chained(rows)
<1>0. NoteNames(Notes) /\ n \in Nat /\ rows \in [1 .. n -> AnyRow(When, Notes)]  OBVIOUS
<1>1. PICK st \in [0 .. n -> Chaining(AnyRow(When, Notes))] : ChainSteps(n, rows, st)
  BY <1>0, ChainedIs
<1>2. Len(chained) = n /\ RowByRow(n, rows, st)  BY <1>0, <1>1, ChainHistory
<1>3. chained \in [1 .. n -> R]
  <2>1. n \in 0 .. n /\ chained = st[n].rows  BY <1>1 DEF ChainSteps
  <2>2. chained \in Seq(R)  BY <2>1 DEF Chaining
  <2> HIDE DEF R, chained
  <2> QED  BY <1>2, <2>2
<1>4. None \notin Int  BY ReadingAssumption
<1>5. chained[1] = rows[1]
  <2>1. 1 \in 1 .. n /\ 1 - 1 = 0  OBVIOUS
  <2>2. chained[1] = RowChained(st[0], rows[1])
    <3>1. chained[1] = RowChained(st[1 - 1], rows[1])  BY <1>2, <2>1, Zenon DEF RowByRow
    <3> QED  BY <2>1, <3>1
  <2>3. st[0].previous = None  BY <1>1 DEF ChainSteps, FreshChain
  <2> QED  BY <2>2, <2>3 DEF RowChained
<1>6. ASSUME NEW i \in 2 .. n  PROVE chained[i] = Settled(rows[i], rows[i - 1].balance)
  <2>1. i \in 1 .. n /\ i - 1 \in 1 .. n  OBVIOUS
  <2>2. rows[i - 1].balance # None /\ rows[i].balance # None  BY <1>4, <2>1
  <2>3. st[i - 1] = NextChain(st[(i - 1) - 1], rows[i - 1])  BY <1>1, <2>1, Zenon DEF ChainSteps
  <2>4. st[i - 1].previous = rows[i - 1].balance  BY <2>2, <2>3 DEF NextChain
  <2>5. chained[i] = RowChained(st[i - 1], rows[i])  BY <1>2, <2>1, Zenon DEF RowByRow
  <2> QED  BY <2>2, <2>4, <2>5 DEF RowChained
<1>7. SettledInTurn(n, rows, chained)
  <2> HIDE DEF chained
  <2> QED  BY <1>5, <1>6 DEF SettledInTurn
<1>8. ChainChecked(rows)
  <2>1. {i \in DOMAIN rows : rows[i].balance # None} = 1 .. n  BY <1>4
  <2>2. 1 \in Int /\ n \in Int  OBVIOUS
  <2>3. Cardinality(1 .. n) = n  BY <2>2, FS_Interval
  <2> QED  BY <2>1, <2>3 DEF ChainChecked
<1>9. AfterChain(rows) = FlagFirst(chained)  BY <1>8 DEF AfterChain
<1> QED  BY <1>3, <1>7, <1>9 DEF R

(* A row after the first: what its amount and its notes say.               *)
SaysOf(row, amount, delta) ==
    /\ Magnitude(delta) = Magnitude(amount) => row.amount = delta
    /\ Magnitude(delta) # Magnitude(amount) => "balance_mismatch" \in row.notes

(* Every row but the first has the amount its balances tell, or is noted.  *)
LEMMA EachSays ==
    ASSUME NEW When, NEW Notes, NoteNames(Notes), NEW n \in Nat, n >= 2,
           NEW rows \in [1 .. n -> AnyRow(When, Notes)], \A i \in 1 .. n : rows[i].balance \in Int
    PROVE  \A i \in 2 .. n :
              SaysOf(AfterChain(rows)[i], rows[i].amount, rows[i].balance - rows[i - 1].balance)
<1>1. /\ Chained(rows) \in [1 .. n -> AnyRow(When, Notes)]
      /\ SettledInTurn(n, rows, Chained(rows))
      /\ AfterChain(rows) = FlagFirst(Chained(rows))
  BY WholeChain
<1> DEFINE chained == Chained(rows)
<1> HIDE DEF chained
<1> SUFFICES ASSUME NEW i \in 2 .. n
             PROVE  SaysOf(AfterChain(rows)[i], rows[i].amount, rows[i].balance - rows[i - 1].balance)
  OBVIOUS
<1>2. i \in 1 .. n /\ i - 1 \in 1 .. n  OBVIOUS
<1>3. chained \in [1 .. n -> AnyRow(When, Notes)]  BY <1>1 DEF chained
<1>4. chained[i] = Settled(rows[i], rows[i - 1].balance)
  BY <1>1, Zenon DEF SettledInTurn, chained
<1>5. PutRight(rows[i], rows[i - 1].balance, Settled(rows[i], rows[i - 1].balance))
  <2>1. rows[i] \in AnyRow(When, Notes) /\ rows[i - 1].balance \in Int /\ rows[i].balance \in Int
    BY <1>2
  <2> QED  BY <2>1, SettledIs
<1>6. /\ FlagFirst(chained)[i].amount = chained[i].amount
      /\ chained[i].notes \subseteq FlagFirst(chained)[i].notes
  <2>1. \A x \in 1 .. n :
            /\ FlagFirst(chained)[x].amount = chained[x].amount
            /\ chained[x].notes \subseteq FlagFirst(chained)[x].notes
            /\ FlagFirst(chained)[x].confidence <= chained[x].confidence
            /\ FlagFirst(chained)[x].confidence \in Int
    BY <1>3, FlagKeeps
  <2> QED  BY <1>2, <2>1
<1>7. AfterChain(rows)[i] = FlagFirst(chained)[i]  BY <1>1 DEF chained
<1> DEFINE delta == rows[i].balance - rows[i - 1].balance
<1>8. PutRight(rows[i], rows[i - 1].balance, chained[i])  BY <1>4, <1>5
<1> DEFINE row == AfterChain(rows)[i]
<1>9. row.amount = chained[i].amount /\ chained[i].notes \subseteq row.notes  BY <1>6, <1>7
<1> HIDE DEF row
<1>10. SaysOf(row, rows[i].amount, delta)  BY <1>8, <1>9, Zenon DEF SaysOf, PutRight
<1> QED  BY <1>10 DEF row

(* What becomes of the first row.                                          *)
FirstIsTold(n, rows) ==
    /\ AfterChain(rows)[1].amount = rows[1].amount
    /\ (\E i \in 2 .. n :
           /\ Magnitude(rows[i].balance - rows[i - 1].balance) = Magnitude(rows[i].amount)
           /\ rows[i].balance - rows[i - 1].balance # rows[i].amount)
       => AfterChain(rows)[1].confidence <= 50

(* The first row keeps its amount, and is marked if a sign was put right   *)
(* further down.                                                           *)
LEMMA FirstSays ==
    ASSUME NEW When, NEW Notes, NoteNames(Notes), NEW n \in Nat, n >= 2,
           NEW rows \in [1 .. n -> AnyRow(When, Notes)], \A i \in 1 .. n : rows[i].balance \in Int,
           rows[1].notes = {}
    PROVE  FirstIsTold(n, rows)
<1>1. /\ Chained(rows) \in [1 .. n -> AnyRow(When, Notes)]
      /\ SettledInTurn(n, rows, Chained(rows))
      /\ AfterChain(rows) = FlagFirst(Chained(rows))
  BY WholeChain
<1> DEFINE chained == Chained(rows)
<1> HIDE DEF chained
<1>2. chained \in [1 .. n -> AnyRow(When, Notes)] /\ 1 \in 1 .. n  BY <1>1 DEF chained
<1>3. chained[1] = rows[1]  BY <1>1 DEF SettledInTurn, chained
<1>4. FlagFirst(chained)[1].amount = rows[1].amount
  <2>1. \A x \in 1 .. n :
            /\ FlagFirst(chained)[x].amount = chained[x].amount
            /\ chained[x].notes \subseteq FlagFirst(chained)[x].notes
            /\ FlagFirst(chained)[x].confidence <= chained[x].confidence
            /\ FlagFirst(chained)[x].confidence \in Int
    BY <1>2, FlagKeeps
  <2> QED  BY <1>2, <1>3, <2>1
<1>5. ASSUME NEW i \in 2 .. n,
             Magnitude(rows[i].balance - rows[i - 1].balance) = Magnitude(rows[i].amount),
             rows[i].balance - rows[i - 1].balance # rows[i].amount
      PROVE  FlagFirst(chained)[1].confidence <= 50
  <2>1. i \in 1 .. n /\ i - 1 \in 1 .. n  OBVIOUS
  <2>2. chained[i] = Settled(rows[i], rows[i - 1].balance)
    BY <1>1, Zenon DEF SettledInTurn, chained
  <2>3. PutRight(rows[i], rows[i - 1].balance, Settled(rows[i], rows[i - 1].balance))
    <3>1. rows[i] \in AnyRow(When, Notes) /\ rows[i - 1].balance \in Int /\ rows[i].balance \in Int
      BY <2>1
    <3> QED  BY <3>1, SettledIs
  <2>4. "sign_from_balance" \in chained[i].notes
    BY <1>5, <2>2, <2>3, Zenon DEF PutRight
  <2>5. \E x \in DOMAIN chained : Noted(chained[x], "sign_from_balance")
    BY <1>2, <2>1, <2>4 DEF Noted
  <2>6. 1 \in Unresolved(chained)
    <3>1. rows[1].balance # None  BY <1>2, ReadingAssumption
    <3>2. chained[1].balance # None /\ chained[1].notes = {}  BY <1>3, <3>1
    <3> QED  BY <1>2, <3>2 DEF Unresolved, Noted
  <2>7. \A x \in Unresolved(chained) : 1 <= x  BY <1>2 DEF Unresolved
  <2>8. Min(Unresolved(chained)) = 1
    <3> DEFINE U == Unresolved(chained)
    <3>1. U \subseteq Int  BY <1>2 DEF Unresolved
    <3> HIDE DEF U
    <3>2. 1 \in U /\ \A x \in U : 1 <= x  BY <2>6, <2>7 DEF U
    <3>3. Min(U) \in U /\ \A x \in U : Min(U) <= x  BY <3>2, Zenon DEF Min
    <3>4. Min(U) \in Int /\ 1 <= Min(U) /\ Min(U) <= 1  BY <3>1, <3>2, <3>3, Zenon
    <3> DEFINE m == Min(U)
    <3>5. m \in Int /\ 1 <= m /\ m <= 1  BY <3>4
    <3> HIDE DEF m
    <3>6. m = 1  BY <3>5
    <3>7. Min(U) = 1  BY <3>6 DEF m
    <3> QED  BY <3>7 DEF U
  <2>9. FlagFirst(chained) = [chained EXCEPT ![1] = Unsure(chained[1])]
    BY <2>5, <2>6, <2>8 DEF FlagFirst
  <2>10. FlagFirst(chained)[1] = Unsure(chained[1])  BY <1>2, <2>9
  <2> DEFINE row == chained[1]
             unsure == IF row.confidence < 50 THEN row.confidence ELSE 50
  <2>11. row \in AnyRow(When, Notes)  BY <1>2
  <2> HIDE DEF row
  <2>12. Unsure(row).confidence = unsure
    <3> DEFINE one == [row EXCEPT !.confidence = unsure]
               two == [one EXCEPT !.notes = row.notes \cup {"sign_unresolved"}]
    <3>1. Unsure(row) = two  BY Zenon DEF Unsure
    <3> HIDE DEF unsure
    <3>2. one.confidence = unsure
          /\ DOMAIN one = {"date", "amount", "balance", "confidence", "notes"}
      BY <2>11 DEF AnyRow
    <3> HIDE DEF one
    <3>3. two.confidence = one.confidence  BY <3>2
    <3> QED  BY <3>1, <3>2, <3>3
  <2>13. unsure <= 50
    <3>1. row.confidence \in Int  BY <2>11 DEF AnyRow
    <3> QED  BY <3>1
  <2> QED  BY <2>10, <2>12, <2>13 DEF row
<1>6. AfterChain(rows) = FlagFirst(chained)  BY <1>1 DEF chained
<1> QED  BY <1>4, <1>5, <1>6 DEF FirstIsTold

(* A statement of n rows, of any balances, printed with signs or without,  *)
(* and at most one figure misread, by any amount.                          *)
AnyChain(c, n) ==
    /\ c.balances \in [1 .. n -> Int] /\ \A i \in 1 .. n : Moved(c.balances, i) # 0
    /\ c.signed \in BOOLEAN
    /\ c.misread.what \in {"nothing", "amount", "balance"}
    /\ c.misread.at \in Nat /\ c.misread.by \in Int
    /\ c.misread.what # "nothing" => c.misread.by # 0

(* The notes of the balance check. *)
ChainNotes == {"sign_from_balance", "balance_mismatch", "sign_unresolved"}

(* Its rows.                                                               *)
LEMMA RowsAre ==
    ASSUME NEW n \in Nat, NEW c, AnyChain(c, n)
    PROVE  /\ RowsOf(c) \in [1 .. n -> AnyRow(Nat, ChainNotes)]
           /\ Len(c.balances) = n /\ Len(RowsOf(c)) = n /\ DOMAIN c.balances = 1 .. n
           /\ \A i \in 1 .. n :
                 /\ Moved(c.balances, i) \in Int
                 /\ OffBy(c, "amount", i) \in Int /\ OffBy(c, "balance", i) \in Int
                 /\ RowsOf(c)[i].amount = (IF c.signed THEN Moved(c.balances, i)
                                           ELSE Magnitude(Moved(c.balances, i))) + OffBy(c, "amount", i)
                 /\ RowsOf(c)[i].balance = c.balances[i] + OffBy(c, "balance", i)
                 /\ RowsOf(c)[i].notes = {}
<1>1. c.balances \in [1 .. n -> Int] /\ DOMAIN c.balances = 1 .. n
      /\ c.misread.by \in Int /\ c.misread.at \in Nat /\ c.signed \in BOOLEAN
  BY DEF AnyChain
<1>2. Len(c.balances) = n
  <2> DEFINE b == c.balances
  <2>1. b \in Seq(Int) /\ DOMAIN b = 1 .. n  BY <1>1, SeqDef
  <2> HIDE DEF b
  <2>2. Len(b) = n  BY <2>1, LenProperties
  <2> QED  BY <2>2 DEF b
<1>3. \A i \in 1 .. n : Moved(c.balances, i) \in Int
  <2> DEFINE b == c.balances
  <2>1. b \in [1 .. n -> Int]  BY <1>1
  <2> HIDE DEF b
  <2>2. \A i \in 1 .. n : b[i] \in Int /\ (i # 1 => b[i - 1] \in Int)  BY <2>1
  <2>3. \A i \in 1 .. n : Moved(b, i) \in Int  BY <2>2 DEF Moved
  <2> QED  BY <2>3 DEF b
<1>4. \A i : OffBy(c, "amount", i) \in Int /\ OffBy(c, "balance", i) \in Int
  BY <1>1 DEF OffBy
<1> DEFINE Amount(i) == (IF c.signed THEN Moved(c.balances, i)
                         ELSE Magnitude(Moved(c.balances, i))) + OffBy(c, "amount", i)
           Balance(i) == c.balances[i] + OffBy(c, "balance", i)
           Row(i) == [date |-> i, confidence |-> 100, notes |-> {},
                      amount |-> Amount(i), balance |-> Balance(i)]
<1>5. \A i \in 1 .. n : Amount(i) \in Int /\ Balance(i) \in Int
  <2> SUFFICES ASSUME NEW i \in 1 .. n  PROVE Amount(i) \in Int /\ Balance(i) \in Int  OBVIOUS
  <2>1. Moved(c.balances, i) \in Int /\ Magnitude(Moved(c.balances, i)) \in Int
    BY <1>3 DEF Magnitude
  <2>2. OffBy(c, "amount", i) \in Int /\ OffBy(c, "balance", i) \in Int /\ c.balances[i] \in Int
    BY <1>1, <1>4
  <2> QED  BY <2>1, <2>2
<1>6. RowsOf(c) = [i \in 1 .. n |-> Row(i)]  BY <1>1 DEF RowsOf
<1> HIDE DEF Amount, Balance
<1>7. \A i \in 1 .. n : Row(i) \in AnyRow(Nat, ChainNotes)  BY <1>5 DEF AnyRow
<1>8. \A i \in 1 .. n : Row(i).amount = Amount(i) /\ Row(i).balance = Balance(i) /\ Row(i).notes = {}
  OBVIOUS
<1> HIDE DEF Row
<1>9. RowsOf(c) \in [1 .. n -> AnyRow(Nat, ChainNotes)]  BY <1>6, <1>7
<1>10. Len(RowsOf(c)) = n
  <2> DEFINE s == RowsOf(c)
             S == AnyRow(Nat, ChainNotes)
  <2>1. s \in [1 .. n -> S]  BY <1>9
  <2> HIDE DEF s, S
  <2>2. s \in Seq(S) /\ DOMAIN s = 1 .. n  BY <2>1, SeqDef
  <2>3. Len(s) = n  BY <2>2, LenProperties
  <2> QED  BY <2>3 DEF s
<1>11. \A i \in 1 .. n : RowsOf(c)[i].amount = Amount(i) /\ RowsOf(c)[i].balance = Balance(i)
                         /\ RowsOf(c)[i].notes = {}
  BY <1>6, <1>8
<1> QED  BY <1>1, <1>2, <1>3, <1>4, <1>9, <1>10, <1>11 DEF Amount, Balance

(* Every amount after the first is the difference of the balances around   *)
(* it in a statement of any length whose chain holds, however the amounts  *)
(* were printed and whatever was misread (_apply_balance_chain).           *)
THEOREM AmountsReconcile ==
    ASSUME NEW n \in Nat, n >= 2, NEW c, AnyChain(c, n)
    PROVE  ChainReconciles(c)
<1> DEFINE rows == RowsOf(c)
<1>1. rows \in [1 .. n -> AnyRow(Nat, ChainNotes)] /\ Len(rows) = n  BY RowsAre
<1>2. \A i \in 1 .. n : rows[i].balance \in Int
  <2>1. \A i \in 1 .. n : c.balances[i] \in Int  BY DEF AnyChain
  <2>2. \A i \in 1 .. n : OffBy(c, "balance", i) \in Int
                          /\ rows[i].balance = c.balances[i] + OffBy(c, "balance", i)
    BY RowsAre
  <2> HIDE DEF rows
  <2> QED  BY <2>1, <2>2
<1> HIDE DEF rows
<1>3. NoteNames(ChainNotes)  BY DEF NoteNames, ChainNotes
<1>4. \A i \in 2 .. n : SaysOf(AfterChain(rows)[i], rows[i].amount, rows[i].balance - rows[i - 1].balance)
  BY <1>1, <1>2, <1>3, EachSays
<1>5. ASSUME ChainOk(rows), NEW i \in 2 .. n
      PROVE  AfterChain(rows)[i].amount = rows[i].balance - rows[i - 1].balance
  <2>1. i \in DOMAIN rows  BY <1>1
  <2>2. "balance_mismatch" \notin AfterChain(rows)[i].notes  BY <1>5, <2>1 DEF ChainOk, Noted
  <2>3. SaysOf(AfterChain(rows)[i], rows[i].amount, rows[i].balance - rows[i - 1].balance)  BY <1>4
  <2> QED  BY <2>2, <2>3, Zenon DEF SaysOf
<1> QED  BY <1>1, <1>5 DEF ChainReconciles, rows

(* In a statement that is read without error every amount has its true     *)
(* sign, or the row asks for review, whatever its length and its amounts,  *)
(* unless only credits follow a first row that is printed without sign     *)
(* (_flag_unresolved_first_row marks it where a sign was put right).       *)
THEOREM SignsAreKnown ==
    ASSUME NEW n \in Nat, n >= 2, NEW c, AnyChain(c, n)
    PROVE  SignsKnown(c)
<1> DEFINE rows == RowsOf(c)
           b == c.balances
<1>1. /\ rows \in [1 .. n -> AnyRow(Nat, ChainNotes)] /\ Len(b) = n /\ DOMAIN b = 1 .. n
      /\ b \in [1 .. n -> Int]
  BY RowsAre DEF AnyChain
<1>2. NoteNames(ChainNotes)  BY DEF NoteNames, ChainNotes
<1> SUFFICES ASSUME c.misread.what = "nothing"
             PROVE  \A i \in 1 .. n :
                        \/ AfterChain(rows)[i].amount = Moved(b, i) \/ AfterChain(rows)[i].confidence <= 50
                        \/ i = 1 /\ ~c.signed /\ \A k \in 2 .. n : Moved(b, k) > 0
  BY <1>1 DEF SignsKnown
<1>3. \A i : OffBy(c, "amount", i) = 0 /\ OffBy(c, "balance", i) = 0  BY DEF OffBy
<1>4. \A i \in 1 .. n :
        /\ rows[i].balance \in Int /\ rows[i].balance = b[i]
        /\ Moved(b, i) \in Int /\ Moved(b, i) # 0
        /\ rows[i].amount = (IF c.signed THEN Moved(b, i) ELSE Magnitude(Moved(b, i)))
        /\ rows[i].notes = {}
  <2>1. \A i \in 1 .. n :
          /\ Moved(b, i) \in Int
          /\ rows[i].amount = (IF c.signed THEN Moved(b, i) ELSE Magnitude(Moved(b, i)))
                                    + OffBy(c, "amount", i)
          /\ rows[i].balance = b[i] + OffBy(c, "balance", i)
          /\ rows[i].notes = {}
    BY RowsAre
  <2>2. \A i \in 1 .. n : b[i] \in Int /\ Moved(b, i) # 0  BY DEF AnyChain
  <2> HIDE DEF rows, b
  <2> SUFFICES ASSUME NEW i \in 1 .. n
               PROVE  /\ rows[i].balance \in Int /\ rows[i].balance = b[i]
                      /\ Moved(b, i) \in Int /\ Moved(b, i) # 0
                      /\ rows[i].amount = (IF c.signed THEN Moved(b, i) ELSE Magnitude(Moved(b, i)))
                      /\ rows[i].notes = {}
    OBVIOUS
  <2> DEFINE printed == IF c.signed THEN Moved(b, i) ELSE Magnitude(Moved(b, i))
  <2>3. printed \in Int /\ Moved(b, i) \in Int  BY <2>1 DEF Magnitude
  <2>4. rows[i].amount = printed + 0 /\ rows[i].balance = b[i] + 0  BY <1>3, <2>1
  <2> HIDE DEF printed
  <2>5. rows[i].amount = printed /\ rows[i].balance = b[i]  BY <2>2, <2>3, <2>4
  <2> QED  BY <2>1, <2>2, <2>5 DEF printed
<1> HIDE DEF rows, b
<1>5. \A i \in 2 .. n : /\ i \in 1 .. n
                        /\ rows[i].balance - rows[i - 1].balance = Moved(b, i)
  <2> SUFFICES ASSUME NEW i \in 2 .. n
               PROVE  i \in 1 .. n /\ rows[i].balance - rows[i - 1].balance = Moved(b, i)
    OBVIOUS
  <2>1. i \in 1 .. n /\ i - 1 \in 1 .. n /\ i # 1  OBVIOUS
  <2>2. rows[i].balance = b[i] /\ rows[i - 1].balance = b[i - 1]  BY <1>4, <2>1
  <2> QED  BY <2>1, <2>2 DEF Moved
<1>6. ASSUME NEW i \in 2 .. n  PROVE AfterChain(rows)[i].amount = Moved(b, i)
  <2>0. \A k \in 1 .. n : rows[k].balance \in Int  BY <1>4
  <2>1. \A k \in 2 .. n : SaysOf(AfterChain(rows)[k], rows[k].amount,
                                 rows[k].balance - rows[k - 1].balance)
    BY <1>1, <1>2, <2>0, EachSays
  <2>2. SaysOf(AfterChain(rows)[i], rows[i].amount, Moved(b, i))
    <3>1. SaysOf(AfterChain(rows)[i], rows[i].amount, rows[i].balance - rows[i - 1].balance)  BY <2>1
    <3> QED  BY <1>5, <3>1
  <2>3. Magnitude(Moved(b, i)) = Magnitude(rows[i].amount)
    <3> DEFINE m == Moved(b, i)
    <3>1. m \in Int /\ rows[i].amount = (IF c.signed THEN m ELSE Magnitude(m))  BY <1>4, <1>5
    <3> HIDE DEF m
    <3>2. Magnitude(Magnitude(m)) = Magnitude(m)  BY <3>1 DEF Magnitude
    <3> QED  BY <3>1, <3>2 DEF m
  <2> QED  BY <2>2, <2>3, Zenon DEF SaysOf
<1>7. \/ AfterChain(rows)[1].amount = Moved(b, 1) \/ AfterChain(rows)[1].confidence <= 50
      \/ ~c.signed /\ \A k \in 2 .. n : Moved(b, k) > 0
  <2>0. (\A k \in 1 .. n : rows[k].balance \in Int) /\ rows[1].notes = {} /\ 1 \in 1 .. n  BY <1>4
  <2>1. FirstIsTold(n, rows)  BY <1>1, <1>2, <2>0, FirstSays
  <2>2. CASE c.signed
    <3>1. rows[1].amount = Moved(b, 1)  BY <1>4, <2>0, <2>2
    <3> QED  BY <2>1, <3>1 DEF FirstIsTold
  <2>3. ASSUME ~c.signed, NEW k \in 2 .. n, ~(Moved(b, k) > 0)
        PROVE  AfterChain(rows)[1].confidence <= 50
    <3>1. k \in 1 .. n /\ rows[k].balance - rows[k - 1].balance = Moved(b, k)  BY <1>5
    <3> DEFINE m == Moved(b, k)
    <3>2. m \in Int /\ m # 0 /\ ~(m > 0) /\ rows[k].amount = Magnitude(m)  BY <1>4, <2>3, <3>1
    <3> HIDE DEF m
    <3>3. Magnitude(m) # m /\ Magnitude(Magnitude(m)) = Magnitude(m)  BY <3>2 DEF Magnitude
    <3>4. rows[k].balance - rows[k - 1].balance = m  BY <3>1 DEF m
    <3>5. /\ Magnitude(rows[k].balance - rows[k - 1].balance) = Magnitude(rows[k].amount)
          /\ rows[k].balance - rows[k - 1].balance # rows[k].amount
      BY <3>2, <3>3, <3>4, Zenon
    <3> QED  BY <2>1, <3>5 DEF FirstIsTold
  <2> QED  BY <2>2, <2>3
<1> QED  BY <1>5, <1>6, <1>7

(* A number keeps its size only when it turns round. *)
LEMMA SizesDiffer ==
    ASSUME NEW m \in Int, NEW e \in Int, e # 0
    PROVE  /\ e # -2 * m => Magnitude(m + e) # Magnitude(m)
           /\ e # 2 * m => Magnitude(m - e) # Magnitude(m)
<1> DEFINE up == m + e
           down == m - e
<1>1. up \in Int /\ down \in Int /\ up # m /\ down # m  OBVIOUS
<1>2. e # -2 * m => up # -m
  <2>1. up = -m => e = -m - m  OBVIOUS
  <2>2. -m - m = -2 * m  OBVIOUS
  <2> QED  BY <2>1, <2>2
<1>3. e # 2 * m => down # -m
  <2>1. down = -m => e = m + m  OBVIOUS
  <2> QED  BY <2>1
<1>4. \A x, y \in Int : x # y /\ x # -y => Magnitude(x) # Magnitude(y)
  <2> SUFFICES ASSUME NEW x \in Int, NEW y \in Int, x # y, x # -y
               PROVE  Magnitude(x) # Magnitude(y)
    OBVIOUS
  <2>1. Magnitude(x) = x \/ Magnitude(x) = -x  BY DEF Magnitude
  <2>2. Magnitude(y) = y \/ Magnitude(y) = -y  BY DEF Magnitude
  <2>3. -x # y /\ -x # -y  OBVIOUS
  <2> QED  BY <2>1, <2>2, <2>3
<1> HIDE DEF up, down
<1>5. (e # -2 * m => Magnitude(up) # Magnitude(m)) /\ (e # 2 * m => Magnitude(down) # Magnitude(m))
  BY <1>1, <1>2, <1>3, <1>4
<1> QED  BY <1>5 DEF up, down

(* One misread figure shows, in a statement of any length and whatever it  *)
(* was misread for: some row does not reconcile, unless it is the amount   *)
(* of the first row, which no balance is before, a sign only, or a balance *)
(* that is off by twice an amount beside it (_apply_balance_chain).        *)
THEOREM MisreadingShows ==
    ASSUME NEW n \in Nat, n >= 2, NEW c, AnyChain(c, n)
    PROVE  MisreadSeen(c)
<1> DEFINE rows == RowsOf(c)
           b == c.balances
           e == c.misread.by
           at == c.misread.at
           what == c.misread.what
           Flips == what = "balance"
                        /\ \/ at > 1 /\ e = -2 * Moved(b, at)
                           \/ at < n /\ e = 2 * Moved(b, at + 1)
           Unsigned == what = "amount" /\ Magnitude(rows[at].amount) = Magnitude(Moved(b, at))
<1>1. /\ rows \in [1 .. n -> AnyRow(Nat, ChainNotes)] /\ Len(b) = n /\ DOMAIN b = 1 .. n
      /\ b \in [1 .. n -> Int] /\ e \in Int /\ at \in Nat
  BY RowsAre DEF AnyChain
<1>2. NoteNames(ChainNotes)  BY DEF NoteNames, ChainNotes
<1> SUFFICES ASSUME what # "nothing", at \in 1 .. n, ~Flips, ~Unsigned, ~(what = "amount" /\ at = 1)
             PROVE  \E r \in 1 .. n : Noted(AfterChain(rows)[r], "balance_mismatch")
  BY <1>1 DEF MisreadSeen
<1>3. e # 0  BY DEF AnyChain
<1>4. \A i \in 1 .. n :
        /\ Moved(b, i) \in Int /\ Moved(b, i) # 0
        /\ OffBy(c, "amount", i) \in Int /\ OffBy(c, "balance", i) \in Int
        /\ rows[i].amount = (IF c.signed THEN Moved(b, i) ELSE Magnitude(Moved(b, i)))
                                + OffBy(c, "amount", i)
        /\ rows[i].balance = b[i] + OffBy(c, "balance", i)
  <2>1. \A i \in 1 .. n : Moved(b, i) # 0  BY DEF AnyChain
  <2>2. \A i \in 1 .. n :
            /\ Moved(b, i) \in Int
            /\ OffBy(c, "amount", i) \in Int /\ OffBy(c, "balance", i) \in Int
            /\ rows[i].amount = (IF c.signed THEN Moved(b, i) ELSE Magnitude(Moved(b, i)))
                                    + OffBy(c, "amount", i)
            /\ rows[i].balance = b[i] + OffBy(c, "balance", i)
    BY RowsAre, Zenon
  <2> QED  BY <2>1, <2>2, Zenon
<1>5. \A i \in 1 .. n : rows[i].balance \in Int
  <2> SUFFICES ASSUME NEW i \in 1 .. n  PROVE rows[i].balance \in Int  OBVIOUS
  <2> DEFINE off == OffBy(c, "balance", i)
             old == b[i]
  <2>1. old \in Int  BY <1>1
  <2>2. off \in Int /\ rows[i].balance = old + off  BY <1>4, Zenon
  <2> HIDE DEF off, old, rows
  <2> QED  BY <2>1, <2>2
<1>6. what \in {"amount", "balance"}  BY DEF AnyChain
<1>7. \A i \in 2 .. n : SaysOf(AfterChain(rows)[i], rows[i].amount, rows[i].balance - rows[i - 1].balance)
  <2> HIDE DEF rows
  <2> QED  BY <1>1, <1>2, <1>5, EachSays
<1>8. ASSUME NEW r \in 2 .. n,
             Magnitude(rows[r].balance - rows[r - 1].balance) # Magnitude(rows[r].amount)
      PROVE  \E k \in 1 .. n : Noted(AfterChain(rows)[k], "balance_mismatch")
  <2>1. SaysOf(AfterChain(rows)[r], rows[r].amount, rows[r].balance - rows[r - 1].balance)  BY <1>7
  <2> HIDE DEF rows
  <2>2. Noted(AfterChain(rows)[r], "balance_mismatch")
    BY <1>8, <2>1, Zenon DEF SaysOf, Noted
  <2> QED  BY <2>2
<1>9. \A i \in 1 .. n : OffBy(c, "balance", i) = IF what = "balance" /\ at = i THEN e ELSE 0
  BY DEF OffBy
<1>10. \A i \in 1 .. n : OffBy(c, "amount", i) = IF what = "amount" /\ at = i THEN e ELSE 0
  BY DEF OffBy
<1>11. \A i \in 2 .. n : i \in 1 .. n /\ i - 1 \in 1 .. n /\ Moved(b, i) = b[i] - b[i - 1]
  BY DEF Moved
<1>12. CASE what = "amount"
  <2>1. at \in 2 .. n  BY <1>12
  <2>2. rows[at].balance = b[at] /\ rows[at - 1].balance = b[at - 1]
    <3> HIDE DEF rows, b, e
    <3>1. OffBy(c, "balance", at) = 0 /\ OffBy(c, "balance", at - 1) = 0
      BY <1>9, <1>11, <1>12, <2>1
    <3>2. b[at] \in Int /\ b[at - 1] \in Int  BY <1>1, <1>11, <2>1
    <3>3. rows[at].balance = b[at] + 0 /\ rows[at - 1].balance = b[at - 1] + 0
      BY <1>4, <1>11, <2>1, <3>1
    <3> QED  BY <3>2, <3>3
  <2>3. rows[at].balance - rows[at - 1].balance = Moved(b, at)  BY <1>11, <2>1, <2>2
  <2>4. Magnitude(rows[at].amount) # Magnitude(Moved(b, at))  BY <1>12
  <2> HIDE DEF rows
  <2> QED  BY <1>8, <2>1, <2>3, <2>4
<1>13. CASE what = "balance"
  <2>1. \A i \in 1 .. n : Magnitude(rows[i].amount) = Magnitude(Moved(b, i))
    <3> SUFFICES ASSUME NEW i \in 1 .. n  PROVE Magnitude(rows[i].amount) = Magnitude(Moved(b, i))
      OBVIOUS
    <3> DEFINE m == Moved(b, i)
               printed == IF c.signed THEN m ELSE Magnitude(m)
    <3>1. m \in Int /\ rows[i].amount = printed + 0  BY <1>4, <1>10, <1>13
    <3> HIDE DEF m, rows
    <3>2. printed \in Int /\ Magnitude(printed) = Magnitude(m)  BY <3>1 DEF Magnitude
    <3> HIDE DEF printed
    <3>3. rows[i].amount = printed  BY <3>1, <3>2
    <3> QED  BY <3>2, <3>3 DEF m
  <2>2. CASE at > 1
    <3>1. at \in 2 .. n  BY <2>2
    <3> DEFINE m == Moved(b, at)
    <3>2. rows[at].balance = b[at] + e /\ rows[at - 1].balance = b[at - 1]
      <4> HIDE DEF rows, b, e
      <4>1. OffBy(c, "balance", at) = e /\ OffBy(c, "balance", at - 1) = 0
        BY <1>9, <1>11, <1>13, <3>1
      <4>2. b[at - 1] \in Int  BY <1>1, <1>11, <3>1
      <4>3. rows[at].balance = b[at] + e /\ rows[at - 1].balance = b[at - 1] + 0
        BY <1>4, <1>11, <3>1, <4>1
      <4> QED  BY <4>2, <4>3
    <3>3. m \in Int /\ m = b[at] - b[at - 1] /\ b[at] \in Int /\ b[at - 1] \in Int
      BY <1>1, <1>4, <1>11, <3>1
    <3>4. e # -2 * m  BY <1>13, <2>2
    <3>5. Magnitude(rows[at].amount) = Magnitude(m)  BY <2>1
    <3> HIDE DEF m, rows, b, e
    <3>6. rows[at].balance - rows[at - 1].balance = m + e
      <4>1. \A x, y, z \in Int : (x + z) - y = (x - y) + z  OBVIOUS
      <4>2. e \in Int  BY <1>1
      <4> DEFINE now == b[at]
                 before == b[at - 1]
      <4>3. rows[at].balance = now + e /\ rows[at - 1].balance = before  BY <3>2
      <4>4. now \in Int /\ before \in Int /\ m = now - before  BY <3>3
      <4> HIDE DEF now, before
      <4>5. (now + e) - before = (now - before) + e  BY <4>1, <4>2, <4>4, Zenon
      <4> QED  BY <4>3, <4>4, <4>5, Zenon
    <3>7. Magnitude(m + e) # Magnitude(m)  BY <1>1, <1>3, <3>3, <3>4, SizesDiffer
    <3> QED  BY <1>8, <3>1, <3>5, <3>6, <3>7
  <2>3. CASE at = 1
    <3>1. 2 \in 2 .. n /\ 2 \in 1 .. n /\ 1 \in 1 .. n /\ 2 - 1 = 1  OBVIOUS
    <3> DEFINE m == Moved(b, 2)
    <3>2. rows[2].balance = b[2] /\ rows[1].balance = b[1] + e
      <4> HIDE DEF rows, b, e
      <4>1. OffBy(c, "balance", 1) = e /\ OffBy(c, "balance", 2) = 0
        BY <1>9, <1>13, <2>3, <3>1
      <4>2. b[2] \in Int  BY <1>1, <3>1
      <4>3. rows[2].balance = b[2] + 0 /\ rows[1].balance = b[1] + e
        BY <1>4, <3>1, <4>1
      <4> QED  BY <4>2, <4>3
    <3>3. m \in Int /\ m = b[2] - b[1] /\ b[2] \in Int /\ b[1] \in Int
      <4>1. Moved(b, 2) = b[2] - b[2 - 1]  BY <1>11, <3>1
      <4> HIDE DEF b
      <4> QED  BY <1>1, <1>4, <3>1, <4>1
    <3>4. e # 2 * m
      <4>1. at + 1 = 2 /\ at < n  BY <2>3
      <4>2. ~(e = 2 * Moved(b, at + 1))  BY <1>13, <4>1
      <4> QED  BY <4>1, <4>2
    <3>5. Magnitude(rows[2].amount) = Magnitude(m)  BY <2>1, <3>1
    <3> HIDE DEF m, rows, b, e
    <3>6. rows[2].balance - rows[2 - 1].balance = m - e  BY <1>1, <3>1, <3>2, <3>3
    <3>7. Magnitude(m - e) # Magnitude(m)  BY <1>1, <1>3, <3>3, <3>4, SizesDiffer
    <3> QED  BY <1>8, <3>1, <3>5, <3>6, <3>7
  <2>4. at > 1 \/ at = 1  BY <1>1
  <2> QED  BY <2>2, <2>3, <2>4
<1> QED  BY <1>6, <1>12, <1>13

-----------------------------------------------------------------------------
(***************************************************************************)
(* The rows of a document.                                                 *)
(***************************************************************************)

(* A line as it may be printed: at most one word at each of four places,   *)
(* dates at the first, text at the second, money at the others; and some   *)
(* text.                                                                   *)
PlainLine(line) ==
    /\ \A w \in line :
          /\ w.at \in 1 .. 4
          /\ w.shape = "date" <=> w.at = 1
          /\ w.shape = "money" <=> w.at \in {3, 4}
          /\ w.at = 1 => w.value \in Dates
          /\ w.at \in {3, 4} => w.value \in Int
    /\ \A v, w \in line : v.at = w.at => v = w
    /\ \E w \in line : w.at = 2

(* Lines of a page, or of a whole document.                                *)
PlainLines(lines) ==
    /\ lines = [i \in DOMAIN lines |-> lines[i]] /\ IsFiniteSet(DOMAIN lines)
    /\ \A i \in DOMAIN lines : PlainLine(lines[i])

(* The lines that have a word at a place.                                  *)
Having(lines, x) == {i \in DOMAIN lines : \E w \in lines[i] : w.at = x}

(* The words of a shape that Populated counts.                             *)
WordsOf(lines, shape) ==
    {e \in (DOMAIN lines) \X (UNION Range(lines)) : e[2] \in lines[e[1]] /\ e[2].shape = shape}

(* There are as many words at a place as lines that have one there.        *)
LEMMA OneWordEach ==
    ASSUME NEW lines, PlainLines(lines), NEW x, NEW shape,
           \A i \in DOMAIN lines : \A w \in lines[i] : w.at = x => w.shape = shape
    PROVE  /\ Cardinality({e \in WordsOf(lines, shape) : e[2].at = x}) = Cardinality(Having(lines, x))
           /\ Cardinality(Having(lines, x)) \in Nat
<1> DEFINE S == Having(lines, x)
           T == {e \in WordsOf(lines, shape) : e[2].at = x}
           f == [i \in S |-> <<i, CHOOSE w \in lines[i] : w.at = x>>]
<1>1. \A i \in DOMAIN lines : \A v, w \in lines[i] : v.at = w.at => v = w
  BY DEF PlainLines, PlainLine
<1>2. \A i \in S : /\ (CHOOSE w \in lines[i] : w.at = x) \in lines[i]
                   /\ (CHOOSE w \in lines[i] : w.at = x).at = x
  BY DEF Having
<1>3. S \in SUBSET DOMAIN lines  BY DEF Having
<1>4. \A i \in DOMAIN lines : lines[i] \in Range(lines)  BY DEF Range
<1>5. ASSUME NEW i \in S  PROVE f[i] \in T
  <2> DEFINE w == CHOOSE w \in lines[i] : w.at = x
  <2>1. w \in lines[i] /\ w.at = x /\ i \in DOMAIN lines  BY <1>2, <1>3
  <2> HIDE DEF w
  <2>2. w.shape = shape /\ w \in UNION Range(lines)  BY <1>4, <2>1
  <2>3. <<i, w>> \in WordsOf(lines, shape)  BY <2>1, <2>2 DEF WordsOf
  <2>4. <<i, w>> \in T  BY <2>1, <2>3
  <2> QED  BY <2>4 DEF w
<1>6. ASSUME NEW e \in T  PROVE e[1] \in S /\ f[e[1]] = e
  <2>1. e \in (DOMAIN lines) \X (UNION Range(lines)) /\ e[2] \in lines[e[1]] /\ e[2].at = x
    BY DEF WordsOf
  <2>2. e[1] \in S  BY <2>1 DEF Having
  <2>3. (CHOOSE w \in lines[e[1]] : w.at = x) = e[2]  BY <1>1, <1>2, <1>3, <2>1, <2>2
  <2>4. f[e[1]] = <<e[1], e[2]>>  BY <2>2, <2>3
  <2> QED  BY <2>1, <2>2, <2>4
<1>7. \A i, j \in S : f[i] = f[j] => i = j  OBVIOUS
<1> HIDE DEF T, f
<1>8. f \in [S -> T]
  <2>1. f = [i \in S |-> f[i]]  BY DEF f
  <2> QED  BY <1>5, <2>1
<1> HIDE DEF S
<1>9. f \in Bijection(S, T)  BY <1>6, <1>7, <1>8 DEF Bijection, Injection, Surjection, IsInjective
<1>10. ExistsBijection(S, T)  BY <1>9 DEF ExistsBijection
<1>11. IsFiniteSet(S)  BY <1>3, FS_Subset DEF PlainLines
<1>12. Cardinality(S) = Cardinality(T) /\ Cardinality(S) \in Nat
  BY <1>10, <1>11, FS_Bijection, FS_CardinalityType
<1> QED  BY <1>12 DEF S, T

(* Which landmarks are shared, by how many lines have a word there.        *)
LEMMA PopulatedIs ==
    ASSUME NEW lines, PlainLines(lines)
    PROVE  /\ Populated(lines, "date") = {x \in {1} : Cardinality(Having(lines, x)) >= MinTableRows}
           /\ Populated(lines, "money") =
                {x \in {3, 4} : Cardinality(Having(lines, x)) >= MinTableRows}
<1>1. ASSUME NEW shape, NEW places,
             \A i \in DOMAIN lines : \A w \in lines[i] : w.shape = shape <=> w.at \in places
      PROVE  Populated(lines, shape) =
                {x \in places : Cardinality(Having(lines, x)) >= MinTableRows}
  <2> DEFINE words == WordsOf(lines, shape)
             Count(x) == Cardinality({e \in words : e[2].at = x})
  <2>1. Populated(lines, shape) = {x \in {e[2].at : e \in words} : Count(x) >= MinTableRows}
    BY DEF Populated, WordsOf
  <2>2. \A x \in places : Count(x) = Cardinality(Having(lines, x)) /\ Count(x) \in Nat
    <3> SUFFICES ASSUME NEW x \in places
                 PROVE  Count(x) = Cardinality(Having(lines, x)) /\ Count(x) \in Nat
      OBVIOUS
    <3>1. \A i \in DOMAIN lines : \A w \in lines[i] : w.at = x => w.shape = shape  BY <1>1
    <3> QED  BY <3>1, OneWordEach
  <2>3. {e[2].at : e \in words} \in SUBSET places
    <3>1. \A e \in words : e[1] \in DOMAIN lines /\ e[2] \in lines[e[1]] /\ e[2].shape = shape
      BY DEF WordsOf
    <3> HIDE DEF words
    <3>2. \A e \in words : e[2].at \in places  BY <1>1, <3>1
    <3> QED  BY <3>2
  <2>4. \A x \in places : Count(x) >= MinTableRows => x \in {e[2].at : e \in words}
    <3> SUFFICES ASSUME NEW x \in places, Count(x) >= MinTableRows
                 PROVE  x \in {e[2].at : e \in words}
      OBVIOUS
    <3> HIDE DEF words
    <3>1. Count(x) # 0  BY <2>2, ReadingAssumption
    <3>2. {e \in words : e[2].at = x} # {}  BY <3>1, FS_EmptySet
    <3> QED  BY <3>2
  <2> HIDE DEF words, Count
  <2> QED  BY <2>1, <2>2, <2>3, <2>4
<1>2. /\ \A i \in DOMAIN lines : \A w \in lines[i] : w.shape = "date" <=> w.at \in {1}
      /\ \A i \in DOMAIN lines : \A w \in lines[i] : w.shape = "money" <=> w.at \in {3, 4}
  BY DEF PlainLines, PlainLine
<1> QED  BY <1>1, <1>2

(* The columns of a plain page: date, amount, and perhaps the balance.     *)
OwnColumns(columns) == columns.date = 1 /\ columns.amount = 3 /\ columns.balance \in {None, 4}

(* A page takes the balances for the amounts.                              *)
TakesBalances(lines) == 4 \in Populated(lines, "money") /\ 3 \notin Populated(lines, "money")

(* Where the balances are not taken for the amounts, the columns are those *)
(* of the page, if enough lines have a date and enough an amount.          *)
LEMMA ColumnsAre ==
    ASSUME NEW lines, PlainLines(lines), ~TakesBalances(lines)
    PROVE  /\ InferColumns(lines) # None => OwnColumns(InferColumns(lines))
           /\ InferColumns(lines) # None <=>
                /\ Cardinality(Having(lines, 1)) >= MinTableRows
                /\ Cardinality(Having(lines, 3)) >= MinTableRows
<1> DEFINE dates == Populated(lines, "date")
           money == Populated(lines, "money")
           Enough(x) == Cardinality(Having(lines, x)) >= MinTableRows
<1>1. dates = {x \in {1} : Enough(x)} /\ money = {x \in {3, 4} : Enough(x)}
  BY PopulatedIs
<1>2. ~(4 \in money /\ 3 \notin money)  BY DEF TakesBalances
<1>3. Enough(1) <=> dates # {}  BY <1>1
<1>4. Enough(3) <=> money # {}  BY <1>1, <1>2
<1>5. CASE dates = {} \/ money = {}
  <2>1. InferColumns(lines) = None  BY <1>5 DEF InferColumns
  <2> QED  BY <1>3, <1>4, <1>5, <2>1
<1>6. CASE dates # {} /\ money # {}
  <2>1. dates = {1} /\ (money = {3} \/ money = {3, 4})  BY <1>1, <1>2, <1>6
  <2> DEFINE one == Cardinality(money) = 1
             amount == IF one THEN Max(money) ELSE Max(money \ {Max(money)})
             columns == [date |-> Min(dates), amount |-> amount,
                         balance |-> IF one THEN None ELSE Max(money)]
  <2>2. InferColumns(lines) =
            IF dates = {} \/ money = {} THEN None
            ELSE IF amount <= Min(dates) + 1 THEN None ELSE columns
    BY DEF InferColumns
  <2>3. InferColumns(lines) = IF amount <= Min(dates) + 1 THEN None ELSE columns
    BY <1>6, <2>2
  <2> HIDE DEF dates, money
  <2>4. /\ Max({3, 4}) = 4 /\ Max({3}) = 3 /\ Min({1}) = 1 /\ {3, 4} \ {4} = {3}
    <3>1. {3} = {3, 3} /\ {1} = {1, 1} /\ 1 \in Int /\ 3 \in Int /\ 4 \in Int  OBVIOUS
    <3>2. Max({3, 4}) = 4  BY <3>1, MaxMinOfTwo
    <3>3. Max({3, 3}) = 3 /\ Min({1, 1}) = 1  BY <3>1, MaxMinOfTwo
    <3>4. Max({3}) = 3 /\ Min({1}) = 1  BY <3>1, <3>3
    <3>5. {3, 4} \ {4} = {3}  OBVIOUS
    <3> QED  BY <3>2, <3>4, <3>5
  <2>5. Min(dates) = 1  BY <2>1, <2>4
  <2>6. amount = 3 /\ columns.balance \in {None, 4}
    <3>1. CASE money = {3}
      <4>1. one  BY <3>1, FS_Singleton
      <4>2. Max(money) = 3  BY <2>4, <3>1
      <4> QED  BY <4>1, <4>2
    <3>2. CASE money = {3, 4}
      <4>1. ~one
        <5>1. {3, 4} = {3} \cup {4} /\ 4 \notin {3}  OBVIOUS
        <5>2. IsFiniteSet({3}) /\ Cardinality({3}) = 1  BY FS_Singleton
        <5> DEFINE T == {3}
        <5> HIDE DEF T
        <5>3. Cardinality(T \cup {4}) = Cardinality(T) + 1  BY <5>1, <5>2, FS_AddElement DEF T
        <5>4. Cardinality(money) = 1 + 1  BY <3>2, <5>1, <5>2, <5>3 DEF T
        <5> QED  BY <5>4
      <4>2. Max(money) = 4 /\ money \ {Max(money)} = {3}  BY <2>4, <3>2
      <4>3. Max(money \ {Max(money)}) = 3  BY <2>4, <4>2
      <4> QED  BY <4>1, <4>2, <4>3
    <3> QED  BY <2>1, <3>1, <3>2
  <2>7. InferColumns(lines) = columns  BY <2>3, <2>5, <2>6
  <2>8. columns.date = 1 /\ columns.amount = 3 /\ columns.balance \in {None, 4}  BY <2>5, <2>6
  <2>9. columns \in Columns
    <3> HIDE DEF one, amount
    <3>1. columns = [date |-> columns.date, amount |-> columns.amount, balance |-> columns.balance]
      OBVIOUS
    <3> HIDE DEF columns
    <3> QED  BY <2>8, <3>1 DEF Columns
  <2>10. columns # None
    <3> HIDE DEF columns
    <3> QED  BY <2>9, ReadingAssumption
  <2> QED  BY <1>3, <1>4, <1>6, <2>7, <2>8, <2>10 DEF OwnColumns
<1> QED  BY <1>5, <1>6

(* The words of a line under its columns.                                  *)
LEMMA WithinIs ==
    ASSUME NEW line, PlainLine(line), NEW columns, OwnColumns(columns)
    PROVE  /\ Within(line, columns, "date") = {w \in line : w.at = 1}
           /\ Within(line, columns, "description") = {w \in line : w.at = 2}
           /\ Within(line, columns, "amount") = {w \in line : w.at = 3}
<1> DEFINE Landmark(w) == CASE w.at = columns.amount -> "amount"
                            [] w.at = columns.balance -> "balance"
                            [] w.at = columns.date -> "date"
                            [] columns.date < w.at /\ w.at < columns.amount -> "description"
                            [] OTHER -> "unknown"
<1>1. \A column : Within(line, columns, column) = {w \in line : Landmark(w) = column}
  BY DEF Within
<1>2. ASSUME NEW w \in line
      PROVE  /\ Landmark(w) = "date" <=> w.at = 1
             /\ Landmark(w) = "description" <=> w.at = 2
             /\ Landmark(w) = "amount" <=> w.at = 3
  <2>1. w.at \in 1 .. 4  BY DEF PlainLine
  <2>2. columns.date = 1 /\ columns.amount = 3 /\ columns.balance \in {None, 4}  BY DEF OwnColumns
  <2>3. None \notin Int  BY ReadingAssumption
  <2>4. CASE w.at = 1
    <3>1. w.at # columns.amount /\ w.at # columns.balance /\ w.at = columns.date
          /\ ~(columns.date < w.at)
      BY <2>2, <2>3, <2>4
    <3> QED  BY <2>4, <3>1
  <2>5. CASE w.at = 2
    <3>1. w.at # columns.amount /\ w.at # columns.balance /\ w.at # columns.date
          /\ columns.date < w.at /\ w.at < columns.amount
      BY <2>2, <2>3, <2>5
    <3> QED  BY <2>5, <3>1
  <2>6. CASE w.at = 3
    <3>1. w.at = columns.amount /\ w.at # columns.balance /\ w.at # columns.date
          /\ ~(w.at < columns.amount)
      BY <2>2, <2>3, <2>6
    <3> QED  BY <2>6, <3>1
  <2>7. CASE w.at = 4
    <3>1. w.at # columns.amount /\ w.at # columns.date /\ ~(w.at < columns.amount)
      BY <2>2, <2>7
    <3> QED  BY <2>7, <3>1
  <2> QED  BY <2>1, <2>4, <2>5, <2>6, <2>7
<1> HIDE DEF Landmark
<1> QED  BY <1>1, <1>2

(* A line resolves to a row if it has a date and an amount, and then the   *)
(* row has the amount of the line.                                         *)
LEMMA LineIs ==
    ASSUME NEW line, PlainLine(line), NEW columns, OwnColumns(columns), NEW hint \in Int
    PROVE  /\ LineMatches(line, columns) <=> (\E w \in line : w.at = 1) /\ (\E w \in line : w.at = 3)
           /\ Resolves(line, columns, hint) <=> LineMatches(line, columns)
           /\ LineMatches(line, columns) =>
                {RowFrom(line, columns, hint).amount} = {w.value : w \in {v \in line : v.at = 3}}
<1>1. /\ Within(line, columns, "date") = {w \in line : w.at = 1}
      /\ Within(line, columns, "description") = {w \in line : w.at = 2}
      /\ Within(line, columns, "amount") = {w \in line : w.at = 3}
  BY WithinIs
<1>2. /\ \A w \in line : /\ w.shape = "date" <=> w.at = 1
                         /\ w.at = 3 => w.shape = "money" /\ w.value \in Int
                         /\ w.at = 1 => w.value \in Dates
      /\ \A v, w \in line : v.at = w.at => v = w
      /\ \E w \in line : w.at = 2
  BY DEF PlainLine
<1>3. LineMatches(line, columns) <=> (\E w \in line : w.at = 1) /\ (\E w \in line : w.at = 3)
  BY <1>1, <1>2 DEF LineMatches
<1>4. ASSUME LineMatches(line, columns)
      PROVE  /\ Resolves(line, columns, hint)
             /\ {RowFrom(line, columns, hint).amount} = {w.value : w \in {v \in line : v.at = 3}}
  <2>1. PICK d \in line : d.at = 1  BY <1>3, <1>4
  <2>2. PICK a \in line : a.at = 3  BY <1>3, <1>4
  <2>3. {w \in line : w.at = 1} = {d} /\ {w \in line : w.at = 3} = {a}  BY <1>2, <2>1, <2>2
  <2>4. ValueIn(line, columns, "date") = d.value /\ ValueIn(line, columns, "amount") = a.value
    BY <1>1, <2>3 DEF ValueIn
  <2>5. d.value \in Dates /\ a.value \in Int  BY <1>2, <2>1, <2>2
  <2>6. DateRead(d.value, hint) # None
    <3> DEFINE v == d.value
               own == [v EXCEPT !.year = hint]
    <3>1. v \in Dates  BY <2>5
    <3> HIDE DEF v
    <3>2. own \in Dates  BY <3>1 DEF Dates
    <3>3. hint # None /\ own # None /\ v # None  BY <3>1, <3>2, ReadingAssumption
    <3>4. DateRead(v, hint) # None  BY <3>3 DEF DateRead
    <3> QED  BY <3>4 DEF v
  <2>7. a.value # None  BY <2>5, ReadingAssumption
  <2>8. Described(line, columns) # {}  BY <1>1, <1>2 DEF Described
  <2>9. Resolves(line, columns, hint)  BY <1>4, <2>4, <2>6, <2>7, <2>8 DEF Resolves
  <2>10. RowFrom(line, columns, hint).amount = a.value  BY <2>4 DEF RowFrom
  <2>11. {w.value : w \in {v \in line : v.at = 3}} = {a.value}  BY <2>3
  <2> QED  BY <2>9, <2>10, <2>11
<1>5. Resolves(line, columns, hint) => LineMatches(line, columns)  BY DEF Resolves
<1> QED  BY <1>3, <1>4, <1>5

(* The lines that have a date and an amount.                               *)
CompleteLines(lines) == Having(lines, 1) \cap Having(lines, 3)

(* The amount a row has is the one on its line.                            *)
HasAmountOf(row, line) == {row.amount} = {w.value : w \in {v \in line : v.at = 3}}

(* A page gives a row for every line that is complete, and no other, with  *)
(* columns of its own or with those of the document.                       *)
LEMMA PageIsRead ==
    ASSUME NEW page, PlainLines(page), ~TakesBalances(page),
           InferColumns(page) # None => IsTable(page, InferColumns(page), MinTableRows),
           NEW document, OwnColumns(document), document # None, NEW hint \in Int
    PROVE  /\ DOMAIN PageRows(page, document, hint) = CompleteLines(page)
           /\ \A i \in CompleteLines(page) : HasAmountOf(PageRows(page, document, hint)[i], page[i])
<1> DEFINE own == InferColumns(page)
           columns == IF own # None THEN own ELSE document
           minimum == IF own # None THEN MinTableRows ELSE 1
           Read == {i \in DOMAIN page : /\ columns # None
                                        /\ IsTable(page, columns, minimum)
                                        /\ Resolves(page[i], columns, hint)}
<1>1. columns # None /\ OwnColumns(columns)  BY ColumnsAre
<1>2. PageRows(page, document, hint) = [i \in Read |-> RowFrom(page[i], columns, hint)]
  BY DEF PageRows
<1>3. own # None => IsTable(page, columns, minimum)  OBVIOUS
<1>4. own = None => minimum = 1  OBVIOUS
<1> HIDE DEF columns, minimum, own
<1>5. \A i \in DOMAIN page :
        /\ LineMatches(page[i], columns) <=>
                (\E w \in page[i] : w.at = 1) /\ (\E w \in page[i] : w.at = 3)
        /\ Resolves(page[i], columns, hint) <=> LineMatches(page[i], columns)
        /\ LineMatches(page[i], columns) => HasAmountOf(RowFrom(page[i], columns, hint), page[i])
  <2> SUFFICES ASSUME NEW i \in DOMAIN page
               PROVE  /\ LineMatches(page[i], columns) <=>
                            (\E w \in page[i] : w.at = 1) /\ (\E w \in page[i] : w.at = 3)
                      /\ Resolves(page[i], columns, hint) <=> LineMatches(page[i], columns)
                      /\ LineMatches(page[i], columns) =>
                            HasAmountOf(RowFrom(page[i], columns, hint), page[i])
    OBVIOUS
  <2>1. PlainLine(page[i])  BY DEF PlainLines
  <2> DEFINE line == page[i]
  <2> HIDE DEF line
  <2>2. PlainLine(line)  BY <2>1 DEF line
  <2>3. /\ LineMatches(line, columns) <=> (\E w \in line : w.at = 1) /\ (\E w \in line : w.at = 3)
        /\ Resolves(line, columns, hint) <=> LineMatches(line, columns)
        /\ LineMatches(line, columns) =>
                {RowFrom(line, columns, hint).amount} = {w.value : w \in {v \in line : v.at = 3}}
    BY <1>1, <2>2, LineIs
  <2> QED  BY <2>3 DEF line, HasAmountOf
<1>6. \A i \in DOMAIN page : i \in CompleteLines(page) <=> LineMatches(page[i], columns)
  BY <1>5 DEF CompleteLines, Having
<1>7. CompleteLines(page) \subseteq DOMAIN page  BY DEF CompleteLines, Having
<1>8. CompleteLines(page) # {} => IsTable(page, columns, minimum)
  <2> DEFINE S == {i \in DOMAIN page : LineMatches(page[i], columns)}
  <2>1. S = CompleteLines(page)  BY <1>6, <1>7
  <2>2. IsFiniteSet(DOMAIN page) /\ S \in SUBSET DOMAIN page  BY DEF PlainLines
  <2> HIDE DEF S
  <2>3. IsFiniteSet(S)  BY <2>2, FS_Subset
  <2>4. S # {} => Cardinality(S) >= 1  BY <2>3, FS_EmptySet, FS_CardinalityType
  <2>5. S # {} => IsTable(page, columns, 1)  BY <2>4 DEF IsTable, S
  <2> QED  BY <1>3, <1>4, <2>1, <2>5
<1>9. Read = CompleteLines(page)  BY <1>1, <1>5, <1>6, <1>7, <1>8
<1> HIDE DEF Read
<1>10. \A i \in CompleteLines(page) : HasAmountOf(RowFrom(page[i], columns, hint), page[i])
  BY <1>5, <1>6, <1>7
<1> QED  BY <1>2, <1>9, <1>10

(* What all pages hold is what each holds.                                 *)
LEMMA PagedIs ==
    ASSUME NEW P, NEW pages, pages = [p \in P |-> pages[p]]
    PROVE  /\ \A at : at \in DOMAIN Paged(pages) <=>
                        \E p \in P : \E i \in DOMAIN pages[p] : at = <<p, i>>
           /\ \A p \in P : \A i \in DOMAIN pages[p] :
                    <<p, i>> \in DOMAIN Paged(pages) /\ Paged(pages)[<<p, i>>] = pages[p][i]
<1>1. DOMAIN pages = P  OBVIOUS
<1> DEFINE places == UNION {{p} \X DOMAIN pages[p] : p \in P}
<1>2. \A at : at \in places <=> \E p \in P : \E i \in DOMAIN pages[p] : at = <<p, i>>
  <2>1. \A at : at \in places <=> \E p \in P : at \in {p} \X DOMAIN pages[p]  OBVIOUS
  <2>2. \A p : \A at : at \in {p} \X DOMAIN pages[p] <=> \E i \in DOMAIN pages[p] : at = <<p, i>>
    OBVIOUS
  <2> HIDE DEF places
  <2> QED  BY <2>1, <2>2
<1>3. Paged(pages) = [at \in places |-> pages[at[1]][at[2]]]  BY <1>1 DEF Paged
<1> HIDE DEF places
<1>4. DOMAIN Paged(pages) = places  BY <1>3
<1>5. \A p \in P : \A i \in DOMAIN pages[p] :
        <<p, i>> \in places /\ Paged(pages)[<<p, i>>] = pages[p][i]
  BY <1>2, <1>3
<1> QED  BY <1>2, <1>4, <1>5

(* A document of plain pages, however many and however long.               *)
PlainPages(pages) ==
    /\ pages = [p \in DOMAIN pages |-> pages[p]] /\ IsFiniteSet(DOMAIN pages)
    /\ \A p \in DOMAIN pages : PlainLines(pages[p])

(* Its lines are plain.                                                    *)
LEMMA DocumentIsPlain ==
    ASSUME NEW pages, PlainPages(pages)
    PROVE  PlainLines(Paged(pages))
<1> DEFINE P == DOMAIN pages
           lines == Paged(pages)
<1>1. pages = [p \in P |-> pages[p]] /\ IsFiniteSet(P) /\ \A p \in P : PlainLines(pages[p])
  BY DEF PlainPages
<1> HIDE DEF P
<1>2. /\ \A at : at \in DOMAIN lines <=> \E p \in P : \E i \in DOMAIN pages[p] : at = <<p, i>>
      /\ \A p \in P : \A i \in DOMAIN pages[p] :
            <<p, i>> \in DOMAIN lines /\ lines[<<p, i>>] = pages[p][i]
  BY <1>1, PagedIs
<1>3. \A at \in DOMAIN lines : PlainLine(lines[at])
  <2> HIDE DEF lines
  <2> QED  BY <1>1, <1>2 DEF PlainLines
<1>4. IsFiniteSet(DOMAIN lines)
  <2> DEFINE lots == {{p} \X DOMAIN pages[p] : p \in P}
  <2>1. DOMAIN lines = UNION lots  BY DEF Paged, P
  <2>2. \A T \in lots : IsFiniteSet(T)
    <3> SUFFICES ASSUME NEW p \in P  PROVE IsFiniteSet({p} \X DOMAIN pages[p])  OBVIOUS
    <3> DEFINE one == {p}
               D == DOMAIN pages[p]
    <3>1. IsFiniteSet(one) /\ IsFiniteSet(D)  BY <1>1, FS_Singleton DEF PlainLines
    <3> HIDE DEF one, D
    <3>2. IsFiniteSet(one \X D)  BY <3>1, FS_Product
    <3> QED  BY <3>2 DEF one, D
  <2>3. IsFiniteSet(lots)
    <3> DEFINE f == [p \in P |-> {p} \X DOMAIN pages[p]]
    <3>1. f \in Surjection(P, lots)  BY DEF Surjection
    <3> HIDE DEF f, lots
    <3> QED  BY <1>1, <3>1, FS_Surjection
  <2> HIDE DEF lots, lines
  <2>4. IsFiniteSet(UNION lots)  BY <2>2, <2>3, FS_UNION
  <2> QED  BY <2>1, <2>4
<1>5. lines = [at \in DOMAIN lines |-> lines[at]]  BY DEF Paged
<1> QED  BY <1>3, <1>4, <1>5 DEF PlainLines

(* Every line of a document with a date and an amount becomes a row with   *)
(* that amount, and no other line does, whatever the number of pages and   *)
(* their lengths, as on a last page too short to resolve columns of its    *)
(* own; unless a page takes the balances for the amounts, or resolves      *)
(* columns its lines do not corroborate, or the whole document has too few *)
(* rows (parse_pages).                                                     *)
THEOREM NothingIsLost ==
    ASSUME NEW pages, PlainPages(pages), NEW hint \in Int
    PROVE  NothingLost(pages, hint)
<1> DEFINE P == DOMAIN pages
           lines == Paged(pages)
           complete == CompleteLines(lines)
           document == InferColumns(lines)
           read == [p \in P |-> PageRows(pages[p], document, hint)]
           rows == DocumentRows(pages, hint)
<1>1. pages = [p \in P |-> pages[p]] /\ \A p \in P : PlainLines(pages[p])
  BY DEF PlainPages
<1>2. PlainLines(lines)  BY DocumentIsPlain
<1>3. {line \in DOMAIN lines : {w \in lines[line] : w.at = 1} # {} /\ {w \in lines[line] : w.at = 3} # {}}
        = complete
  BY DEF CompleteLines, Having
<1> SUFFICES ASSUME ~TakesBalances(lines), \A p \in P : ~TakesBalances(pages[p]),
                    \A p \in P : InferColumns(pages[p]) # None
                                    => IsTable(pages[p], InferColumns(pages[p]), MinTableRows),
                    ~(Cardinality(complete) < MinTableRows)
             PROVE  /\ DOMAIN rows = complete
                    /\ \A line \in complete :
                          {rows[line].amount} = {w.value : w \in {v \in lines[line] : v.at = 3}}
  BY <1>3 DEF NothingLost, TakesBalances
<1>4. OwnColumns(document) /\ document # None
  <2>1. /\ complete \in SUBSET Having(lines, 1) /\ complete \in SUBSET Having(lines, 3)
        /\ Having(lines, 1) \in SUBSET DOMAIN lines /\ Having(lines, 3) \in SUBSET DOMAIN lines
        /\ IsFiniteSet(DOMAIN lines)
    BY <1>2 DEF CompleteLines, Having, PlainLines
  <2> DEFINE dated == Having(lines, 1)
             priced == Having(lines, 3)
  <2> HIDE DEF dated, priced, complete, lines
  <2>2. IsFiniteSet(dated) /\ IsFiniteSet(priced)  BY <2>1, FS_Subset DEF dated, priced
  <2>3. /\ Cardinality(complete) <= Cardinality(dated) /\ Cardinality(complete) <= Cardinality(priced)
        /\ IsFiniteSet(complete)
    BY <2>1, <2>2, FS_Subset DEF dated, priced
  <2>4. Cardinality(complete) \in Nat /\ Cardinality(dated) \in Nat /\ Cardinality(priced) \in Nat
    BY <2>2, <2>3, FS_CardinalityType
  <2>5. Cardinality(dated) >= MinTableRows /\ Cardinality(priced) >= MinTableRows
    BY <2>3, <2>4, ReadingAssumption
  <2>6. document # None  BY <1>2, <2>5, ColumnsAre DEF dated, priced
  <2> QED  BY <1>2, <2>6, ColumnsAre
<1> HIDE DEF document
<1>5. \A p \in P : /\ DOMAIN read[p] = CompleteLines(pages[p])
                   /\ \A i \in CompleteLines(pages[p]) : HasAmountOf(read[p][i], pages[p][i])
  <2> SUFFICES ASSUME NEW p \in P
               PROVE  /\ DOMAIN PageRows(pages[p], document, hint) = CompleteLines(pages[p])
                      /\ \A i \in CompleteLines(pages[p]) :
                            HasAmountOf(PageRows(pages[p], document, hint)[i], pages[p][i])
    OBVIOUS
  <2> DEFINE page == pages[p]
  <2>1. /\ PlainLines(page) /\ ~TakesBalances(page)
        /\ InferColumns(page) # None => IsTable(page, InferColumns(page), MinTableRows)
    BY <1>1
  <2> HIDE DEF page
  <2>2. /\ DOMAIN PageRows(page, document, hint) = CompleteLines(page)
        /\ \A i \in CompleteLines(page) : HasAmountOf(PageRows(page, document, hint)[i], page[i])
    BY <1>4, <2>1, PageIsRead
  <2> QED  BY <2>2 DEF page
<1>6. rows = Paged(read)  BY DEF DocumentRows, document
<1>7. read = [p \in P |-> read[p]]  OBVIOUS
<1> HIDE DEF read, rows, P
<1>8. /\ \A at : at \in DOMAIN rows <=> \E p \in P : \E i \in DOMAIN read[p] : at = <<p, i>>
      /\ \A p \in P : \A i \in DOMAIN read[p] : rows[<<p, i>>] = read[p][i]
  BY <1>6, <1>7, PagedIs
<1>9. /\ \A at : at \in DOMAIN lines <=> \E p \in P : \E i \in DOMAIN pages[p] : at = <<p, i>>
      /\ \A p \in P : \A i \in DOMAIN pages[p] : lines[<<p, i>>] = pages[p][i]
  BY <1>1, PagedIs
<1> HIDE DEF lines
<1>10. \A p \in P : \A i \in DOMAIN pages[p] :
          <<p, i>> \in complete <=> i \in CompleteLines(pages[p])
  BY <1>9 DEF CompleteLines, Having
<1>11. \A p \in P : CompleteLines(pages[p]) \subseteq DOMAIN pages[p]
  BY DEF CompleteLines, Having
<1>12. complete \subseteq DOMAIN lines  BY DEF CompleteLines, Having
<1> HIDE DEF complete
<1>13. \A at : at \in complete <=> \E p \in P : \E i \in CompleteLines(pages[p]) : at = <<p, i>>
  BY <1>9, <1>10, <1>11, <1>12
<1>14. DOMAIN rows = complete  BY <1>5, <1>8, <1>13
<1>15. \A at \in complete : HasAmountOf(rows[at], lines[at])
  <2> SUFFICES ASSUME NEW p \in P, NEW i \in CompleteLines(pages[p])
               PROVE  HasAmountOf(rows[<<p, i>>], lines[<<p, i>>])
    BY <1>13
  <2>1. i \in DOMAIN read[p] /\ i \in DOMAIN pages[p] /\ HasAmountOf(read[p][i], pages[p][i])
    BY <1>5, <1>11
  <2> QED  BY <1>8, <1>9, <2>1
<1> QED  BY <1>14, <1>15 DEF HasAmountOf

-----------------------------------------------------------------------------
(***************************************************************************)
(* What the runs check of statements and receipts.                         *)
(***************************************************************************)

(* What kind an input is says which set it is from. *)
LEMMA ReadingKinds ==
    ASSUME Init
    PROVE  /\ case.kind = "chain" => case \in Chains
           /\ case.kind = "document" => case \in Documents
           /\ case.kind = "amount" => case \in Amounts
           /\ case.kind = "export" => case \in Exports
           /\ case.kind = "months" => case \in Months
           /\ case.kind = "rendering" => case \in Renderings
           /\ case.kind = "receipt" => case \in Slips
<1>1. CASE case \in Chains
  <2>1. case.kind = "chain"  BY <1>1 DEF Chains
  <2> QED  BY <1>1, <2>1
<1>2. CASE case \in Documents
  <2>1. case.kind = "document"  BY <1>2 DEF Documents
  <2> QED  BY <1>2, <2>1
<1>3. CASE case \in Amounts
  <2>1. case.kind = "amount"  BY <1>3 DEF Amounts
  <2> QED  BY <1>3, <2>1
<1>4. CASE case \in Exports
  <2>1. case.kind = "export"  BY <1>4 DEF Exports
  <2> QED  BY <1>4, <2>1
<1>5. CASE case \in Months
  <2>1. case.kind = "months"  BY <1>5 DEF Months
  <2> QED  BY <1>5, <2>1
<1>6. CASE case \in Renderings
  <2>1. case.kind = "rendering"  BY <1>6 DEF Renderings
  <2> QED  BY <1>6, <2>1
<1>7. CASE case \in Slips
  <2>1. case.kind = "receipt"  BY <1>7 DEF Slips
  <2> QED  BY <1>7, <2>1
<1>8. CASE case \in Imports \cup Judged \cup Matchings \cup Candidates
  <2>1. case.kind \in {"imports", "judged", "matching", "candidate"}
    BY <1>8 DEF Imports, Judged, Matchings, Candidates
  <2> QED  BY <2>1
<1>9. CASE case \in Spans \cup Questions \cup Books
  <2>1. case.kind \in {"span", "question", "book"}
    BY <1>9 DEF Spans, Questions, Books
  <2> QED  BY <2>1
<1>10. CASE case \in Told \cup Namings \cup Calls \cup Charges
  <2>1. case.kind \in {"told", "naming", "calls", "charges"}
    BY <1>10 DEF Told, Namings, Calls, Charges
  <2> QED  BY <2>1
<1> QED
  BY <1>1, <1>2, <1>3, <1>4, <1>5, <1>6, <1>7, <1>8, <1>9, <1>10, Zenon DEF Init

(* The statements of the runs are statements. *)
LEMMA ChainsAre ==
    ASSUME NEW c \in Chains
    PROVE  \E n \in Nat : n >= 2 /\ AnyChain(c, n)
<1>1. c.balances \in Balances /\ c.signed \in BOOLEAN /\ c.misread \in Misread
  BY DEF Chains
<1>2. PICK n \in 2 .. 3 : c.balances \in [1 .. n -> 11 .. 29]
  BY <1>1 DEF Balances
<1>3. \A i \in 1 .. n : Moved(c.balances, i) # 0
  BY <1>1, <1>2 DEF Balances
<1>4. c.balances \in [1 .. n -> Int]
  <2> DEFINE b == c.balances
  <2>1. b \in [1 .. n -> 11 .. 29]  BY <1>2
  <2> HIDE DEF b
  <2>2. b \in [1 .. n -> Int]  BY <2>1
  <2> QED  BY <2>2 DEF b
<1>5. /\ c.misread.what \in {"nothing", "amount", "balance"}
      /\ c.misread.at \in Nat /\ c.misread.by \in Int
      /\ c.misread.what # "nothing" => c.misread.by # 0
  <2> DEFINE m == c.misread
  <2>1. m \in Misread  BY <1>1
  <2> HIDE DEF m
  <2>2. CASE m = [what |-> "nothing", at |-> 1, by |-> 0]  BY <2>2 DEF m
  <2>3. CASE m \in [what : {"amount", "balance"}, at : 1 .. 3, by : {-6, -4, -2, -1, 1, 2, 4, 6}]
    <3>1. m.what \in {"amount", "balance"} /\ m.at \in 1 .. 3
          /\ m.by \in {-6, -4, -2, -1, 1, 2, 4, 6}
      BY <2>3
    <3>2. \A x \in {-6, -4, -2, -1, 1, 2, 4, 6} : x \in Int /\ x # 0  OBVIOUS
    <3>3. m.by \in Int /\ m.by # 0  BY <3>1, <3>2
    <3> QED  BY <3>1, <3>3 DEF m
  <2> QED  BY <2>1, <2>2, <2>3 DEF Misread
<1>6. AnyChain(c, n)  BY <1>1, <1>3, <1>4, <1>5 DEF AnyChain
<1>7. n \in Nat /\ n >= 2  BY <1>2
<1> QED  BY <1>6, <1>7

(* The lines of the runs are lines. *)
LEMMA LineOfIsPlain ==
    ASSUME NEW kind, NEW i \in Int
    PROVE  PlainLine(LineOf(kind, i))
<1> DEFINE date == [shape |-> "date", at |-> 1, value |-> [day |-> i, year |-> None]]
           text == [shape |-> "text", at |-> 2, value |-> "words"]
           amount == [shape |-> "money", at |-> 3, value |-> i]
           balance == [shape |-> "money", at |-> 4, value |-> 100 + i]
           Printed4(w) == CASE w.at = 1 -> kind \in {"full", "bare", "carried"}
                            [] w.at = 2 -> TRUE
                            [] w.at = 3 -> kind \in {"full", "bare", "summary"}
                            [] w.at = 4 -> kind \in {"full", "carried"}
<1>1. LineOf(kind, i) = {w \in {date, text, amount, balance} : Printed4(w)}  BY DEF LineOf
<1>2. /\ date.at = 1 /\ date.shape = "date" /\ date.value \in Dates
      /\ text.at = 2 /\ text.shape = "text"
      /\ amount.at = 3 /\ amount.shape = "money" /\ amount.value \in Int
      /\ balance.at = 4 /\ balance.shape = "money" /\ balance.value \in Int
  BY DEF Dates
<1>3. Printed4(text)
  <2>1. text.at # 1 /\ text.at = 2 /\ text.at # 3 /\ text.at # 4  OBVIOUS
  <2> HIDE DEF text
  <2> QED  BY <2>1
<1> HIDE DEF date, text, amount, balance, Printed4
<1>4. text \in LineOf(kind, i)  BY <1>1, <1>3
<1>5. \A w \in LineOf(kind, i) : w \in {date, text, amount, balance}  BY <1>1
<1> QED  BY <1>2, <1>4, <1>5 DEF PlainLine

(* The documents of the runs are documents. *)
LEMMA DocumentsAre ==
    ASSUME NEW c \in Documents
    PROVE  PlainPages(PagesOf(c))
<1> DEFINE first == LinesOf(c.pages[1], 0)
           second == LinesOf(c.pages[2], 3)
<1>1. ASSUME NEW page \in Pages, NEW from \in Int  PROVE PlainLines(LinesOf(page, from))
  <2>1. PICK n \in 0 .. 3 : page \in [1 .. n -> {"full", "bare", "carried", "summary", "text"}]
    BY DEF Pages
  <2>2. LinesOf(page, from) = [i \in 1 .. n |-> LineOf(page[i], from + i)]  BY <2>1 DEF LinesOf
  <2>3. \A i \in 1 .. n : PlainLine(LineOf(page[i], from + i))
    <3>1. \A i \in 1 .. n : from + i \in Int  OBVIOUS
    <3> QED  BY <3>1, LineOfIsPlain
  <2>4. 1 \in Int /\ n \in Int  OBVIOUS
  <2>5. IsFiniteSet(1 .. n)  BY <2>4, FS_Interval
  <2> QED  BY <2>2, <2>3, <2>5 DEF PlainLines
<1>2. c.pages[1] \in Pages /\ c.pages[2] \in Pages  BY DEF Documents
<1>3. PlainLines(first) /\ PlainLines(second)  BY <1>1, <1>2
<1> HIDE DEF first, second
<1>4. PagesOf(c) = <<first, second>>  BY DEF PagesOf, first, second
<1>5. DOMAIN <<first, second>> = 1 .. 2 /\ <<first, second>>[1] = first /\ <<first, second>>[2] = second
  OBVIOUS
<1>6. 1 \in Int /\ 2 \in Int  OBVIOUS
<1>7. IsFiniteSet(1 .. 2)  BY <1>6, FS_Interval
<1> DEFINE pages == <<first, second>>
<1>8. pages = [p \in DOMAIN pages |-> pages[p]]  OBVIOUS
<1>9. \A p \in 1 .. 2 : p = 1 \/ p = 2  OBVIOUS
<1>10. \A p \in DOMAIN pages : PlainLines(pages[p])  BY <1>3, <1>5, <1>9
<1>11. IsFiniteSet(DOMAIN pages)  BY <1>5, <1>7
<1> HIDE DEF pages
<1>12. PlainPages(pages)  BY <1>8, <1>10, <1>11 DEF PlainPages
<1> QED  BY <1>4, <1>12 DEF pages

(* Rows, figures, pages and receipts of the runs are as the theorems take  *)
(* them.                                                                   *)
LEMMA OthersHold ==
    /\ \A c \in Amounts : AmountsAgree(c)
    /\ \A c \in Exports : SplitAgrees(c)
    /\ \A c \in Months : YearRight(c)
    /\ \A c \in Renderings : VerifiedMeansDrawn(c)
    /\ \A c \in Slips : GuessReviewed(c)
<1>1. ASSUME NEW c \in Amounts  PROVE AmountsAgree(c)
  <2>1. c.printed \in Printed({0, 500, 1200})  BY DEF Amounts
  <2> DEFINE p == c.printed
  <2>2. p \in Printed(Nat)
    <3> DEFINE few == {0, 500, 1200}
    <3>1. p \in Printed(few)  BY <2>1
    <3>2. few \subseteq Nat  OBVIOUS
    <3> HIDE DEF p, few
    <3> QED  BY <3>1, <3>2 DEF Printed
  <2> HIDE DEF p
  <2>3. StatementAmount(p) # None /\ CsvAmount(p) # None /\ p.suffix # "D"
            => StatementAmount(p) = CsvAmount(p)
    BY <2>2, ParsersAgree
  <2> QED  BY <2>3 DEF AmountsAgree, p
<1>2. ASSUME NEW c \in Exports  PROVE SplitAgrees(c)
  <2>1. c.move \in {-500, 500} /\ c.other \in {None, Plain(0)}  BY DEF Exports
  <2>2. c.move \in Int \ {0} /\ (c.move < 0 \/ c.move > 0)
    <3>1. \A x \in {-500, 500} : x \in Int \ {0} /\ (x < 0 \/ x > 0)  OBVIOUS
    <3> QED  BY <2>1, <3>1
  <2> DEFINE move == c.move
             other == c.other
             plain == Plain(Magnitude(move))
  <2> HIDE DEF move, other
  <2>3. CASE move < 0 \/ other = None
    <3>1. move \in Int \ {0} /\ other \in {None, Plain(0)}  BY <2>1, <2>2 DEF move, other
    <3>2. CsvRow([plain EXCEPT !.lead = IF move < 0 THEN "-" ELSE ""], None, None)
            = CsvRow(None, IF move < 0 THEN plain ELSE other, IF move < 0 THEN other ELSE plain)
      BY <2>3, <3>1, ColumnsAgree
    <3> QED  BY <3>2 DEF SplitAgrees, move, other
  <2>4. CASE ~(move < 0 \/ other = None)
    <3>1. c.move > 0 /\ c.other # None  BY <2>2, <2>4 DEF move, other
    <3> QED  BY <3>1 DEF SplitAgrees
  <2> QED  BY <2>3, <2>4
<1>3. ASSUME NEW c \in Months  PROVE YearRight(c)
  <2>1. c.from \in 20 .. 28 /\ c.to \in 20 .. 28 /\ c.row \in 20 .. 28  BY DEF Months
  <2>2. c.from \in Nat /\ c.to \in Nat /\ c.row \in Nat  BY <2>1
  <2> QED  BY <2>2, YearIsOwn DEF YearRight
<1>4. ASSUME NEW c \in Renderings  PROVE VerifiedMeansDrawn(c)
  <2>1. c.tokens \in [1 .. 2 -> Tokens] /\ c.again \in BOOLEAN  BY DEF Renderings
  <2> DEFINE tokens == c.tokens
  <2>2. tokens \in [1 .. 2 -> Tokens]  BY <2>1
  <2> HIDE DEF tokens
  <2>3. tokens \in [1 .. 2 -> Token] /\ \A i \in 1 .. 2 : Plausible(tokens[i])
    BY <2>2 DEF Tokens
  <2>4. PageAgrees(tokens, TRUE, c.again) =>
            /\ \A i \in DOMAIN tokens : tokens[i].drawn # "nothing"
            /\ Cardinality({i \in DOMAIN tokens : tokens[i].drawn = "other"}) <= Budget(tokens)
    <3>1. 2 \in Nat  OBVIOUS
    <3> QED  BY <2>1, <2>3, <3>1, AcceptedIsDrawn
  <2> QED  BY <2>4 DEF VerifiedMeansDrawn, tokens
<1>5. ASSUME NEW c \in Slips  PROVE GuessReviewed(c)
  <2>1. PICK n \in 0 .. 3 : c.lines \in [1 .. n -> ReceiptLines]  BY DEF Slips
  <2> DEFINE lines == c.lines
  <2>2. lines \in [1 .. n -> ReceiptLines] /\ n \in Nat  BY <2>1
  <2>3. \A line \in ReceiptLines : line \in AnyReceiptLine  BY DEF ReceiptLines, AnyReceiptLine
  <2> HIDE DEF lines
  <2>4. lines \in [1 .. n -> AnyReceiptLine]  BY <2>2, <2>3
  <2>5. CASE \E i \in DOMAIN lines : lines[i].label = "total"  BY <2>5 DEF GuessReviewed, lines
  <2>6. CASE ~(\E i \in DOMAIN lines : lines[i].label = "total")
    <3>1. \A i \in 1 .. n : lines[i].label # "total"  BY <2>4, <2>6
    <3>2. \A merchant, date : ReceiptNeedsReview(lines, merchant, date)
      BY <2>2, <2>4, <3>1, GuessIsReviewed
    <3> QED  BY <3>2 DEF GuessReviewed, lines
  <2> QED  BY <2>5, <2>6
<1> QED  BY <1>1, <1>2, <1>3, <1>4, <1>5

(* Money read off a statement or a receipt is right or asks for review,    *)
(* whatever a page must have to be a table and however many figures may go *)
(* unread.                                                                 *)
THEOREM ReadingIsSound == Spec => []ReadingHolds
<1>1. Init => ReadingHolds
  <2> SUFFICES ASSUME Init  PROVE ReadingHolds  OBVIOUS
  <2>1. case.kind = "chain" => ChainReconciles(case) /\ SignsKnown(case) /\ MisreadSeen(case)
    BY ReadingKinds, ChainsAre, AmountsReconcile, SignsAreKnown, MisreadingShows
  <2>2. case.kind = "document" => NothingLost(PagesOf(case), 2026)
    <3>1. 2026 \in Int  OBVIOUS
    <3> QED  BY <3>1, ReadingKinds, DocumentsAre, NothingIsLost
  <2>3. /\ case.kind = "amount" => AmountsAgree(case)
        /\ case.kind = "export" => SplitAgrees(case)
        /\ case.kind = "months" => YearRight(case)
        /\ case.kind = "rendering" => VerifiedMeansDrawn(case)
        /\ case.kind = "receipt" => GuessReviewed(case)
    BY ReadingKinds, OthersHold
  <2> QED  BY <2>1, <2>2, <2>3 DEF ReadingHolds
<1>2. ReadingHolds /\ [Next]_case => ReadingHolds'
  <2> SUFFICES ASSUME ReadingHolds, case' = case  PROVE ReadingHolds'
    BY DEF Next
  <2> QED  BY DEF ReadingHolds
<1> QED  BY <1>1, <1>2, PTL DEF Spec
=============================================================================
