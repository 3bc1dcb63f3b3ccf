---------------------------- MODULE QuotaProofs ----------------------------
(* What is proved of the upload budget for every number of requests, every *)
(* day length, TTL and limit.                                              *)
EXTENDS Quota, FiniteSetTheorems, TLAPS

-----------------------------------------------------------------------------
(***************************************************************************)
(* Sums.  SumOver folds over a set in the order CHOOSE takes; what it      *)
(* gives does not depend on that order.                                    *)
(***************************************************************************)

(* The element a sum takes from a set first. *)
Pick(s) == CHOOSE x \in s : TRUE
(* g is the recursive function the sum is the last value of. *)
Sums(g, f, D) ==
    g = [s \in D |-> IF s = {} THEN 0 ELSE f[Pick(s)] + g[s \ {Pick(s)}]]

(* What SumOver is by its definition. *)
LEMMA SumUnfolded ==
    ASSUME NEW f, NEW S
    PROVE  SumOver(f, S) = (CHOOSE g : Sums(g, f, SUBSET S))[S]
BY DEF SumOver, MapThenSumSet, MapThenFoldSet, Sums, Pick

(* A non-empty set of natural numbers has a least element. *)
LEMMA LeastNatural ==
    ASSUME NEW T \in SUBSET Nat, T # {}
    PROVE  \E x \in T : \A y \in T : x <= y
<1> DEFINE less == {p \in Nat \X Nat : p[1] < p[2]}
<1>1. IsWellFoundedOn(less, Nat)
  BY NatLessThanWellFounded, Zenon DEF OpToRel
<1>2. PICK x \in T : \A y \in T : ~ (<<y, x>> \in less)
  <2> HIDE DEF less
  <2> QED  BY <1>1, WFMin, Zenon
<1>3. \A y \in T : ~ (y < x)
  BY <1>2
<1> QED  BY <1>3

(* It is one of them. *)
LEMMA PickIn ==
    ASSUME NEW s, s # {}
    PROVE  Pick(s) \in s
BY DEF Pick

(* Taking one element away. *)
LEMMA OneLess ==
    ASSUME NEW R, IsFiniteSet(R), NEW s \in SUBSET R, NEW x \in s
    PROVE  /\ s \ {x} \in SUBSET R
           /\ Cardinality(s) \in Nat
           /\ Cardinality(s \ {x}) \in Nat
           /\ Cardinality(s \ {x}) = Cardinality(s) - 1
           /\ Cardinality(s) <= Cardinality(R)
<1>1. IsFiniteSet(s) /\ Cardinality(s) <= Cardinality(R)  BY FS_Subset
<1>2. IsFiniteSet(s \ {x}) /\ Cardinality(s \ {x}) = Cardinality(s) - 1
  BY <1>1, FS_RemoveElement
<1> QED  BY <1>1, <1>2, FS_CardinalityType

(* The subsets of at most n elements. *)
Small(R, n) == {s \in SUBSET R : Cardinality(s) <= n}

(* There is such a function. *)
LEMMA SumsExist ==
    ASSUME NEW R, IsFiniteSet(R), NEW f \in [R -> Nat]
    PROVE  \E g \in [SUBSET R -> Nat] : Sums(g, f, SUBSET R)
<1> DEFINE Has(n) == \E g \in [Small(R, n) -> Nat] : Sums(g, f, Small(R, n))
           Lacks == {n \in Nat : ~Has(n)}
<1>1. Has(0)
  <2> DEFINE g == [s \in Small(R, 0) |-> 0]
  <2>1. \A s \in Small(R, 0) : s = {}
    <3> SUFFICES ASSUME NEW s \in Small(R, 0)  PROVE s = {}  OBVIOUS
    <3>1. s \in SUBSET R /\ Cardinality(s) <= 0  BY DEF Small
    <3>2. IsFiniteSet(s)  BY <3>1, FS_Subset
    <3> QED  BY <3>1, <3>2, FS_CardinalityType, FS_EmptySet
  <2>2. Sums(g, f, Small(R, 0))  BY <2>1 DEF Sums
  <2>3. g \in [Small(R, 0) -> Nat]  OBVIOUS
  <2> QED  BY <2>2, <2>3
<1>2. ASSUME NEW n \in Nat, Has(n)  PROVE Has(n + 1)
  <2>1. PICK g \in [Small(R, n) -> Nat] : Sums(g, f, Small(R, n))  BY <1>2
  <2> DEFINE h == [s \in Small(R, n + 1) |->
                     IF s = {} THEN 0 ELSE f[Pick(s)] + g[s \ {Pick(s)}]]
  <2>2. ASSUME NEW s \in Small(R, n + 1), s # {}
        PROVE  Pick(s) \in s /\ Pick(s) \in R /\ s \ {Pick(s)} \in Small(R, n)
               /\ s \ {Pick(s)} \in Small(R, n + 1)
    <3>1. s \in SUBSET R /\ Cardinality(s) <= n + 1  BY DEF Small
    <3>2. Pick(s) \in s  BY <2>2, PickIn
    <3>3. /\ s \ {Pick(s)} \in SUBSET R /\ Cardinality(s) \in Nat
          /\ Cardinality(s \ {Pick(s)}) \in Nat
          /\ Cardinality(s \ {Pick(s)}) = Cardinality(s) - 1
      BY <3>1, <3>2, OneLess
    <3>4. Cardinality(s \ {Pick(s)}) <= n /\ Cardinality(s \ {Pick(s)}) <= n + 1
      BY <3>1, <3>3
    <3> QED  BY <3>1, <3>2, <3>3, <3>4 DEF Small
  <2>3. ASSUME NEW s \in Small(R, n)  PROVE s \in Small(R, n + 1) /\ h[s] = g[s]
    <3>1. s \in Small(R, n + 1)
      <4>1. s \in SUBSET R /\ Cardinality(s) <= n  BY DEF Small
      <4>2. IsFiniteSet(s)  BY <4>1, FS_Subset
      <4>3. Cardinality(s) \in Nat  BY <4>2, FS_CardinalityType
      <4> QED  BY <4>1, <4>3 DEF Small
    <3>2. g[s] = IF s = {} THEN 0 ELSE f[Pick(s)] + g[s \ {Pick(s)}]
      BY <2>1 DEF Sums
    <3> QED  BY <3>1, <3>2
  <2>4. h \in [Small(R, n + 1) -> Nat]
    <3> SUFFICES ASSUME NEW s \in Small(R, n + 1)
                 PROVE  (IF s = {} THEN 0 ELSE f[Pick(s)] + g[s \ {Pick(s)}]) \in Nat
      OBVIOUS
    <3>1. CASE s = {}  BY <3>1
    <3>2. CASE s # {}
      <4>1. f[Pick(s)] \in Nat /\ g[s \ {Pick(s)}] \in Nat  BY <2>2, <3>2
      <4> QED  BY <3>2, <4>1
    <3> QED  BY <3>1, <3>2
  <2>5. Sums(h, f, Small(R, n + 1))
    <3>1. \A s \in Small(R, n + 1) : s # {} => h[s \ {Pick(s)}] = g[s \ {Pick(s)}]
      BY <2>2, <2>3
    <3> HIDE DEF h
    <3>2. h = [s \in Small(R, n + 1) |->
                  IF s = {} THEN 0 ELSE f[Pick(s)] + g[s \ {Pick(s)}]]  BY DEF h
    <3>3. h = [s \in Small(R, n + 1) |->
                  IF s = {} THEN 0 ELSE f[Pick(s)] + h[s \ {Pick(s)}]]  BY <3>1, <3>2
    <3> QED  BY <3>3 DEF Sums
  <2> QED  BY <2>4, <2>5
<1>3. Lacks = {}
  <2> SUFFICES ASSUME Lacks # {}  PROVE FALSE  OBVIOUS
  <2>1. Lacks \in SUBSET Nat  OBVIOUS
  <2> HIDE DEF Has
  <2>2. PICK n \in Lacks : \A m \in Lacks : n <= m
    <3> HIDE DEF Lacks
    <3> QED  BY <2>1, LeastNatural
  <2>3. n # 0 /\ n \in Nat  BY <1>1
  <2>4. n - 1 \in Nat /\ n - 1 \notin Lacks  BY <2>2, <2>3
  <2>5. Has(n - 1)  BY <2>4
  <2>6. Has(n - 1 + 1)  BY <1>2, <2>4, <2>5
  <2>7. n - 1 + 1 = n  BY <2>3
  <2> QED  BY <2>6, <2>7
<1>4. Cardinality(R) \in Nat  BY FS_CardinalityType
<1>5. Has(Cardinality(R))  BY <1>3, <1>4
<1>6. Small(R, Cardinality(R)) = SUBSET R  BY FS_Subset DEF Small
<1> QED  BY <1>5, <1>6

(* The least cardinality of the members of a set of finite sets. *)
LEMMA SmallestMember ==
    ASSUME NEW R, IsFiniteSet(R), NEW F \in SUBSET SUBSET R, F # {}
    PROVE  \E s \in F : \A t \in SUBSET R : Cardinality(t) < Cardinality(s) => t \notin F
<1> DEFINE sizes == {Cardinality(s) : s \in F}
<1>1. \A s \in SUBSET R : Cardinality(s) \in Nat
  <2> SUFFICES ASSUME NEW s \in SUBSET R  PROVE Cardinality(s) \in Nat  OBVIOUS
  <2>1. IsFiniteSet(s)  BY FS_Subset
  <2> QED  BY <2>1, FS_CardinalityType
<1>2. sizes \in SUBSET Nat /\ sizes # {}  BY <1>1
<1>3. PICK n \in sizes : \A m \in sizes : n <= m
  <2> HIDE DEF sizes
  <2> QED  BY <1>2, LeastNatural
<1>4. PICK s \in F : Cardinality(s) = n  OBVIOUS
<1>5. \A t \in F : n <= Cardinality(t)  BY <1>3
<1> QED  BY <1>1, <1>4, <1>5

(* It has one value at a set, whatever set it is defined over. *)
LEMMA SumsAgree ==
    ASSUME NEW R, IsFiniteSet(R), NEW S \in SUBSET R, NEW f, NEW g, NEW h,
           Sums(g, f, SUBSET R), Sums(h, f, SUBSET S)
    PROVE  \A s \in SUBSET S : g[s] = h[s]
<1> DEFINE F == {s \in SUBSET S : g[s] # h[s]}
<1> SUFFICES ASSUME F # {}  PROVE FALSE  OBVIOUS
<1>1. IsFiniteSet(S)  BY FS_Subset
<1>2. PICK s \in F : \A t \in SUBSET S : Cardinality(t) < Cardinality(s) => t \notin F
  <2>1. F \in SUBSET SUBSET S  OBVIOUS
  <2> HIDE DEF F
  <2> QED  BY <1>1, <2>1, SmallestMember
<1>3. g[s] = IF s = {} THEN 0 ELSE f[Pick(s)] + g[s \ {Pick(s)}]  BY DEF Sums
<1>4. h[s] = IF s = {} THEN 0 ELSE f[Pick(s)] + h[s \ {Pick(s)}]  BY DEF Sums
<1>5. s # {}  BY <1>3, <1>4
<1>6. Pick(s) \in s  BY <1>5, PickIn
<1>7. s \ {Pick(s)} \in SUBSET S /\ Cardinality(s \ {Pick(s)}) < Cardinality(s)
  <2>1. /\ s \ {Pick(s)} \in SUBSET S /\ Cardinality(s) \in Nat
        /\ Cardinality(s \ {Pick(s)}) \in Nat
        /\ Cardinality(s \ {Pick(s)}) = Cardinality(s) - 1
    BY <1>1, <1>6, OneLess
  <2> QED  BY <2>1
<1>8. g[s \ {Pick(s)}] = h[s \ {Pick(s)}]  BY <1>2, <1>7
<1> QED  BY <1>3, <1>4, <1>5, <1>8

(* All sums over subsets of R are values of one function. *)
LEMMA SumIsValue ==
    ASSUME NEW R, IsFiniteSet(R), NEW f \in [R -> Nat]
    PROVE  \E g \in [SUBSET R -> Nat] :
              Sums(g, f, SUBSET R) /\ \A S \in SUBSET R : SumOver(f, S) = g[S]
<1>1. PICK g \in [SUBSET R -> Nat] : Sums(g, f, SUBSET R)  BY SumsExist
<1>2. ASSUME NEW S \in SUBSET R  PROVE SumOver(f, S) = g[S]
  <2> DEFINE h == CHOOSE h : Sums(h, f, SUBSET S)
             r0 == [s \in SUBSET S |-> g[s]]
  <2>1. \A s \in SUBSET S : s # {} => Pick(s) \in s  BY PickIn
  <2>2. Sums(r0, f, SUBSET S)
    <3>1. \A s \in SUBSET S : g[s] = IF s = {} THEN 0 ELSE f[Pick(s)] + g[s \ {Pick(s)}]
      BY <1>1 DEF Sums
    <3>2. \A s \in SUBSET S : s # {} => r0[s \ {Pick(s)}] = g[s \ {Pick(s)}]  OBVIOUS
    <3>3. r0 = [s \in SUBSET S |-> IF s = {} THEN 0 ELSE f[Pick(s)] + r0[s \ {Pick(s)}]]
      BY <3>1, <3>2
    <3> HIDE DEF r0
    <3> QED  BY <3>3 DEF Sums
  <2>3. Sums(h, f, SUBSET S)
    <3> HIDE DEF r0
    <3> QED  BY <2>2, Zenon
  <2>4. SumOver(f, S) = h[S]  BY SumUnfolded
  <2> HIDE DEF h, r0
  <2>5. \A s \in SUBSET S : g[s] = h[s]
    <3>1. Sums(g, f, SUBSET R)  BY <1>1
    <3>2. ASSUME NEW u, Sums(u, f, SUBSET S)
          PROVE  \A s \in SUBSET S : g[s] = u[s]
      BY <3>1, <3>2, SumsAgree, SMTT(30)
    <3> QED  BY <2>3, <3>2
  <2> QED  BY <2>4, <2>5
<1> QED  BY <1>1, <1>2

(* Sums of natural numbers are natural numbers. *)
LEMMA SumType ==
    ASSUME NEW R, IsFiniteSet(R), NEW f \in [R -> Nat], NEW S \in SUBSET R
    PROVE  SumOver(f, S) \in Nat
<1>1. PICK g \in [SUBSET R -> Nat] :
          Sums(g, f, SUBSET R) /\ \A s \in SUBSET R : SumOver(f, s) = g[s]
  BY SumIsValue
<1>2. g[S] \in Nat  BY <1>1
<1> QED  BY <1>1, <1>2

(* A sum over nothing is zero. *)
LEMMA SumEmpty ==
    ASSUME NEW f
    PROVE  SumOver(f, {}) = 0
<1> DEFINE g == [s \in SUBSET {} |-> 0]
           h == CHOOSE h : Sums(h, f, SUBSET {})
<1>1. Sums(g, f, SUBSET {})  BY DEF Sums
<1>2. Sums(h, f, SUBSET {})
  <2> HIDE DEF g
  <2> QED  BY <1>1, Zenon
<1>3. SumOver(f, {}) = h[{}]  BY SumUnfolded
<1> HIDE DEF h
<1>4. h[{}] = 0  BY <1>2 DEF Sums
<1> QED  BY <1>3, <1>4

(* One element of a set counts once, whichever it is. *)
LEMMA SumRemove ==
    ASSUME NEW R, IsFiniteSet(R), NEW f \in [R -> Nat], NEW S \in SUBSET R, NEW x \in S
    PROVE  SumOver(f, S) = f[x] + SumOver(f, S \ {x})
<1>1. PICK g \in [SUBSET R -> Nat] :
          Sums(g, f, SUBSET R) /\ \A s \in SUBSET R : SumOver(f, s) = g[s]
  BY SumIsValue
<1> DEFINE F == {s \in SUBSET R : \E y \in s : g[s] # f[y] + g[s \ {y}]}
<1>2. F = {}
  <2> SUFFICES ASSUME F # {}  PROVE FALSE  OBVIOUS
  <2>1. PICK s \in F : \A t \in SUBSET R : Cardinality(t) < Cardinality(s) => t \notin F
    <3>1. F \in SUBSET SUBSET R  OBVIOUS
    <3> HIDE DEF F
    <3> QED  BY <3>1, SmallestMember
  <2>2. PICK y \in s : g[s] # f[y] + g[s \ {y}]  OBVIOUS
  <2> DEFINE c == Pick(s)
  <2>3. c \in s  BY <2>2, PickIn
  <2>4. g[s] = f[c] + g[s \ {c}]  BY <1>1, <2>3 DEF Sums
  <2> HIDE DEF c
  <2>5. c # y  BY <2>2, <2>4
  <2>6. ASSUME NEW z \in s
        PROVE  /\ s \ {z} \in SUBSET R /\ s \ {z} \notin F
               /\ g[s \ {z}] \in Nat /\ f[z] \in Nat
    <3>1. /\ s \ {z} \in SUBSET R /\ Cardinality(s) \in Nat
          /\ Cardinality(s \ {z}) \in Nat
          /\ Cardinality(s \ {z}) = Cardinality(s) - 1
      BY OneLess
    <3>2. Cardinality(s \ {z}) < Cardinality(s)  BY <3>1
    <3>3. s \ {z} \notin F
      <4> HIDE DEF F
      <4> QED  BY <2>1, <3>1, <3>2
    <3>4. z \in R  OBVIOUS
    <3> QED  BY <3>1, <3>3, <3>4
  <2>7. g[s \ {c}] = f[y] + g[(s \ {c}) \ {y}]  BY <2>3, <2>5, <2>6
  <2>8. g[s \ {y}] = f[c] + g[(s \ {y}) \ {c}]  BY <2>3, <2>5, <2>6
  <2> DEFINE rest == g[(s \ {c}) \ {y}]
  <2>9. (s \ {y}) \ {c} = (s \ {c}) \ {y}  OBVIOUS
  <2>10. g[(s \ {y}) \ {c}] = rest  BY <2>9
  <2>11. (s \ {c}) \ {y} \in SUBSET R  OBVIOUS
  <2>12. rest \in Nat  BY <2>11
  <2>13. f[c] \in Nat /\ f[y] \in Nat  BY <2>3, <2>6
  <2>14. g[s] = f[c] + (f[y] + rest)  BY <2>4, <2>7
  <2>15. g[s \ {y}] = f[c] + rest  BY <2>8, <2>10
  <2> HIDE DEF rest
  <2> QED  BY <2>2, <2>12, <2>13, <2>14, <2>15
<1>3. g[S] = f[x] + g[S \ {x}]  BY <1>2
<1>4. S \ {x} \in SUBSET R  OBVIOUS
<1> QED  BY <1>1, <1>3, <1>4

(* One more element adds what it carries. *)
LEMMA SumAdd ==
    ASSUME NEW R, IsFiniteSet(R), NEW f \in [R -> Nat], NEW S \in SUBSET R, NEW x \in R \ S
    PROVE  SumOver(f, S \cup {x}) = SumOver(f, S) + f[x]
<1>1. S \cup {x} \in SUBSET R /\ (S \cup {x}) \ {x} = S  OBVIOUS
<1>2. SumOver(f, S \cup {x}) = f[x] + SumOver(f, S)
  <2>1. x \in S \cup {x}  OBVIOUS
  <2>2. SumOver(f, S \cup {x}) = f[x] + SumOver(f, (S \cup {x}) \ {x})
    BY <1>1, <2>1, SumRemove
  <2> QED  BY <1>1, <2>2
<1>3. SumOver(f, S) \in Nat /\ f[x] \in Nat  BY SumType
<1> QED  BY <1>2, <1>3

(* The sum over a set is the sum over two parts of it. *)
LEMMA SumSplit ==
    ASSUME NEW R, IsFiniteSet(R), NEW f \in [R -> Nat], NEW S \in SUBSET R, NEW T \in SUBSET R,
           S \cap T = {}
    PROVE  SumOver(f, S \cup T) = SumOver(f, S) + SumOver(f, T)
<1> DEFINE F == {t \in SUBSET T : SumOver(f, S \cup t) # SumOver(f, S) + SumOver(f, t)}
<1>0. SumOver(f, S) \in Nat  BY SumType
<1>1. F = {}
  <2> SUFFICES ASSUME F # {}  PROVE FALSE  OBVIOUS
  <2>0. IsFiniteSet(T)  BY FS_Subset
  <2>1. PICK t \in F : \A u \in SUBSET T : Cardinality(u) < Cardinality(t) => u \notin F
    <3>1. F \in SUBSET SUBSET T  OBVIOUS
    <3> HIDE DEF F
    <3> QED  BY <2>0, <3>1, SmallestMember
  <2>2. t # {}
    <3> SUFFICES ASSUME t = {}  PROVE FALSE  OBVIOUS
    <3>1. SumOver(f, t) = 0  BY SumEmpty
    <3>2. S \cup t = S  OBVIOUS
    <3> QED  BY <1>0, <3>1, <3>2
  <2>3. PICK x \in t : TRUE  BY <2>2
  <2>4. /\ t \ {x} \in SUBSET T /\ Cardinality(t) \in Nat
        /\ Cardinality(t \ {x}) \in Nat
        /\ Cardinality(t \ {x}) = Cardinality(t) - 1
    BY <2>0, OneLess
  <2>5. Cardinality(t \ {x}) < Cardinality(t)  BY <2>4
  <2>6. SumOver(f, S \cup (t \ {x})) = SumOver(f, S) + SumOver(f, t \ {x})
    BY <2>1, <2>4, <2>5
  <2>7. x \in R /\ x \notin t \ {x} /\ x \notin S \cup (t \ {x})
        /\ t \ {x} \in SUBSET R /\ S \cup (t \ {x}) \in SUBSET R  OBVIOUS
  <2>8. SumOver(f, t) = f[x] + SumOver(f, t \ {x})
    <3>1. t \in SUBSET R  OBVIOUS
    <3> QED  BY <3>1, SumRemove
  <2>9. SumOver(f, S \cup t) = f[x] + SumOver(f, S \cup (t \ {x}))
    <3>1. S \cup t \in SUBSET R /\ x \in S \cup t  OBVIOUS
    <3>2. SumOver(f, S \cup t) = f[x] + SumOver(f, (S \cup t) \ {x})
      BY <3>1, SumRemove
    <3>3. (S \cup t) \ {x} = S \cup (t \ {x})  BY <2>7
    <3> QED  BY <3>2, <3>3
  <2>11. SumOver(f, t \ {x}) \in Nat /\ f[x] \in Nat  BY <2>7, SumType
  <2>12. SumOver(f, S \cup t) = SumOver(f, S) + SumOver(f, t)
    <3>1. SumOver(f, S \cup t) = f[x] + (SumOver(f, S) + SumOver(f, t \ {x}))
      BY <2>6, <2>9
    <3> QED  BY <1>0, <2>8, <2>11, <3>1
  <2> QED  BY <2>12
<1> QED  BY <1>1

(* A part of a set sums up to no more than the set. *)
LEMMA SumMonotone ==
    ASSUME NEW R, IsFiniteSet(R), NEW f \in [R -> Nat], NEW T \in SUBSET R, NEW S \in SUBSET T
    PROVE  SumOver(f, S) <= SumOver(f, T)
<1>1. S \in SUBSET R /\ T \ S \in SUBSET R /\ S \cap (T \ S) = {} /\ S \cup (T \ S) = T  OBVIOUS
<1>2. SumOver(f, S) \in Nat /\ SumOver(f, T \ S) \in Nat  BY <1>1, SumType
<1>3. SumOver(f, S \cup (T \ S)) = SumOver(f, S) + SumOver(f, T \ S)  BY <1>1, SumSplit
<1>4. SumOver(f, T) = SumOver(f, S) + SumOver(f, T \ S)  BY <1>1, <1>3
<1> QED  BY <1>2, <1>4

(* A sum of zeros is zero. *)
LEMMA SumZero ==
    ASSUME NEW R, IsFiniteSet(R), NEW f \in [R -> Nat], NEW S \in SUBSET R,
           \A x \in S : f[x] = 0
    PROVE  SumOver(f, S) = 0
<1> DEFINE F == {s \in SUBSET S : SumOver(f, s) # 0}
<1>1. IsFiniteSet(S)  BY FS_Subset
<1>2. F = {}
  <2> SUFFICES ASSUME F # {}  PROVE FALSE  OBVIOUS
  <2>1. PICK s \in F : \A t \in SUBSET S : Cardinality(t) < Cardinality(s) => t \notin F
    <3>1. F \in SUBSET SUBSET S  OBVIOUS
    <3> HIDE DEF F
    <3> QED  BY <1>1, <3>1, SmallestMember
  <2>2. s # {}  BY SumEmpty
  <2>3. PICK x \in s : TRUE  BY <2>2
  <2>4. /\ s \ {x} \in SUBSET S /\ Cardinality(s) \in Nat
        /\ Cardinality(s \ {x}) \in Nat
        /\ Cardinality(s \ {x}) = Cardinality(s) - 1
    BY <1>1, OneLess
  <2>5. Cardinality(s \ {x}) < Cardinality(s)  BY <2>4
  <2>6. SumOver(f, s \ {x}) = 0  BY <2>1, <2>4, <2>5
  <2>7. s \in SUBSET R  OBVIOUS
  <2>8. SumOver(f, s) = f[x] + SumOver(f, s \ {x})  BY <2>7, SumRemove
  <2>9. f[x] = 0  OBVIOUS
  <2> QED  BY <2>6, <2>8, <2>9
<1> QED  BY <1>2

-----------------------------------------------------------------------------
(***************************************************************************)
(* The inductive invariant.                                                *)
(***************************************************************************)

(* The day row is held by exactly the request that is between its lock and *)
(* its COMMIT, and that request reserves for that day.                     *)
LockHeldByReserver ==
    /\ \A r \in Requests :
          phase[r] \in {"locked", "claimed"} => dayLock[UsageDate(r)] = r
    /\ \A d \in Days : \A r \in Requests :
          dayLock[d] = r => /\ UsageDate(r) = d
                            /\ phase[r] \in {"locked", "claimed"}

(* commit_by_upload works on a claim nobody has converted. *)
ConvertingUncounted ==
    \A r \in converting : phase[r] \in {"held", "lapsed"}

(* A claim used after its TTL is never live again. *)
LateNeverLive ==
    \A r \in late : phase[r] \in {"held", "lapsed", "converted", "released"} /\ r \notin Live

(* A claim's day has come when it is made, and its results come later. *)
ResultsFollowClaim ==
    \A r \in Requests :
        /\ moment[r] <= now
        /\ resultsDay[r] # -1 => phase[r] # "idle" /\ UsageDate(r) <= resultsDay[r]

(* Uploads whose bytes count against quota_stored_bytes: stored ones, and  *)
(* those live claims may still store.                                      *)
StoredOrDue ==
    {r \in Requests \ late : upload[r] = "stored"} \cup {r \in Live : upload[r] = "none"}

(* Uploads whose pages count: with results on any day, or still live. *)
PagesUsed == {r \in Requests \ late : resultsDay[r] # -1 \/ r \in Live}

(* While all requests read one day, its pages fit, on whatever day the     *)
(* results came.                                                           *)
PagesFit == OneDay => SumOver(PagesOf, PagesUsed) <= PagesPerDay

(* What is claimed and used stays within every limit of the budget. *)
Within ==
    DailyUploadsBounded /\ ConcurrentJobsFit /\ DailyBytesFit /\ StoredBytesFit /\ PagesFit

(* There is room for one more claim, of this request. *)
RoomFor(r) ==
    /\ Cardinality(InTime(UsageDate(r))) < UploadsPerDay
    /\ Cardinality(LiveOn(UsageDate(r))) < ConcurrentJobs
    /\ SumOver(SizeOf, InTime(UsageDate(r))) + SizeOf[r] <= BytesPerDay
    /\ OneDay => /\ SumOver(SizeOf, StoredOrDue) + SizeOf[r] <= StoredBytes
                 /\ SumOver(PagesOf, PagesUsed) + PagesOf[r] <= PagesPerDay

(* While a request holds the row with its claim not yet committed, nobody  *)
(* else takes the room it saw free.                                        *)
RoomKept == \A r \in Requests : phase[r] = "claimed" => RoomFor(r)

(* What every step of the budget preserves. *)
IInv ==
    /\ TypeOK
    /\ LockHeldByReserver
    /\ ConvertingUncounted
    /\ LateNeverLive
    /\ ResultsFollowClaim
    /\ UsageCountsConversions
    /\ RoomKept
    /\ Within

-----------------------------------------------------------------------------
(***************************************************************************)
(* Lemmas.                                                                 *)
(***************************************************************************)

(* Every set of requests is finite. *)
LEMMA RequestSetsFinite ==
    ASSUME NEW S \in SUBSET Requests
    PROVE  IsFiniteSet(S) /\ Cardinality(S) \in Nat
<1>1. IsFiniteSet(Requests)  BY BudgetAssumption
<1>2. IsFiniteSet(S)  BY <1>1, FS_Subset
<1> QED  BY <1>2, FS_CardinalityType

(* The clock readings reserve_upload takes belong to days of the model. *)
LEMMA UsageDateInDays ==
    ASSUME TypeOK, NEW r \in Requests
    PROVE  UsageDate(r) \in Days
BY DEF TypeOK, UsageDate, Days

(* Every step preserves the types. *)
LEMMA TypePreserved == TypeOK /\ [Next]_vars => TypeOK'
<1> SUFFICES ASSUME TypeOK, [Next]_vars  PROVE TypeOK'  OBVIOUS
<1> USE BudgetAssumption DEF TypeOK, Phases, Time
<1>1. CASE SweepExpired  BY <1>1 DEF SweepExpired
<1>2. CASE Tick  BY <1>2 DEF Tick
<1>3. ASSUME NEW r \in Requests, Arrive(r)  PROVE TypeOK'  BY <1>3 DEF Arrive
<1>4. ASSUME NEW r \in Requests, LockDay(r)  PROVE TypeOK'  BY <1>4 DEF LockDay
<1>5. ASSUME NEW r \in Requests, Claim(r)  PROVE TypeOK'  BY <1>5 DEF Claim
<1>6. ASSUME NEW r \in Requests, Refuse(r)  PROVE TypeOK'  BY <1>6 DEF Refuse
<1>7. ASSUME NEW r \in Requests, CommitClaim(r)  PROVE TypeOK'  BY <1>7 DEF CommitClaim
<1>8. ASSUME NEW r \in Requests, CrashReserving(r)  PROVE TypeOK'
  BY <1>8 DEF CrashReserving
<1>9. ASSUME NEW r \in Requests, StoreUpload(r)  PROVE TypeOK'  BY <1>9 DEF StoreUpload, Uses
<1>10. ASSUME NEW r \in Requests, CommitResults(r)  PROVE TypeOK'
  <2>1. Day(now) \in Days  BY DEF Days
  <2> QED  BY <1>10, <2>1 DEF CommitResults, Uses
<1>11. ASSUME NEW r \in Requests, FindClaim(r)  PROVE TypeOK'  BY <1>11 DEF FindClaim
<1>12. ASSUME NEW r \in Requests, Convert(r)  PROVE TypeOK'
  <2>1. UsageDate(r) \in Days  BY UsageDateInDays
  <2>2. usage' \in [Days -> [uploads : Nat, bytes : Nat]]
    BY <1>12, <2>1 DEF Convert, Uses
  <2> QED  BY <1>12, <2>2 DEF Convert, Uses
<1>13. ASSUME NEW r \in Requests, Release(r)  PROVE TypeOK'  BY <1>13 DEF Release
<1>14. ASSUME NEW r \in Requests, ReleaseStuck(r)  PROVE TypeOK'
  BY <1>14 DEF ReleaseStuck
<1>15. ASSUME NEW r \in Requests, PurgeObject(r)  PROVE TypeOK'  BY <1>15 DEF PurgeObject
<1>16. ASSUME NEW r \in Requests, DiscardResults(r)  PROVE TypeOK'
  BY <1>16 DEF DiscardResults
<1>17. CASE UNCHANGED vars  BY <1>17 DEF vars
<1> QED
  BY <1>1, <1>2, <1>3, <1>4, <1>5, <1>6, <1>7, <1>8, <1>9, <1>10, <1>11, <1>12,
     <1>13, <1>14, <1>15, <1>16, <1>17 DEF Next

(* The day rows stay with their reservers. *)
LEMMA LockPreserved ==
    ASSUME IInv, TypeOK', [Next]_vars
    PROVE  LockHeldByReserver'
<1> USE BudgetAssumption DEF LockHeldByReserver, UsageDate
<1>t. TypeOK /\ LockHeldByReserver /\ ConvertingUncounted  BY DEF IInv
<1>u. \A r \in Requests : UsageDate(r) \in Days  BY <1>t, UsageDateInDays
<1> USE DEF TypeOK, ConvertingUncounted
<1>1. CASE SweepExpired  BY <1>1, <1>t, <1>u DEF SweepExpired
<1>2. CASE Tick  BY <1>2, <1>t, <1>u DEF Tick
<1>3. ASSUME NEW r \in Requests, Arrive(r)  PROVE LockHeldByReserver'
  BY <1>3, <1>t, <1>u DEF Arrive
<1>4. ASSUME NEW r \in Requests, LockDay(r)  PROVE LockHeldByReserver'
  BY <1>4, <1>t, <1>u DEF LockDay
<1>5. ASSUME NEW r \in Requests, Claim(r)  PROVE LockHeldByReserver'
  BY <1>5, <1>t, <1>u DEF Claim
<1>6. ASSUME NEW r \in Requests, Refuse(r)  PROVE LockHeldByReserver'
  BY <1>6, <1>t, <1>u DEF Refuse
<1>7. ASSUME NEW r \in Requests, CommitClaim(r)  PROVE LockHeldByReserver'
  BY <1>7, <1>t, <1>u DEF CommitClaim
<1>8. ASSUME NEW r \in Requests, CrashReserving(r)  PROVE LockHeldByReserver'
  BY <1>8, <1>t, <1>u DEF CrashReserving
<1>9. ASSUME NEW r \in Requests, StoreUpload(r)  PROVE LockHeldByReserver'
  BY <1>9, <1>t, <1>u DEF StoreUpload, Uses
<1>10. ASSUME NEW r \in Requests, CommitResults(r)  PROVE LockHeldByReserver'
  BY <1>10, <1>t, <1>u DEF CommitResults, Uses
<1>11. ASSUME NEW r \in Requests, FindClaim(r)  PROVE LockHeldByReserver'
  BY <1>11, <1>t, <1>u DEF FindClaim
<1>12. ASSUME NEW r \in Requests, Convert(r)  PROVE LockHeldByReserver'
  BY <1>12, <1>t, <1>u DEF Convert, Uses
<1>13. ASSUME NEW r \in Requests, Release(r)  PROVE LockHeldByReserver'
  BY <1>13, <1>t, <1>u DEF Release
<1>14. ASSUME NEW r \in Requests, ReleaseStuck(r)  PROVE LockHeldByReserver'
  BY <1>14, <1>t, <1>u DEF ReleaseStuck
<1>15. ASSUME NEW r \in Requests, PurgeObject(r)  PROVE LockHeldByReserver'
  BY <1>15, <1>t, <1>u DEF PurgeObject
<1>16. ASSUME NEW r \in Requests, DiscardResults(r)  PROVE LockHeldByReserver'
  BY <1>16, <1>t, <1>u DEF DiscardResults
<1>17. CASE UNCHANGED vars  BY <1>17, <1>t, <1>u DEF vars
<1> QED
  BY <1>1, <1>2, <1>3, <1>4, <1>5, <1>6, <1>7, <1>8, <1>9,
     <1>10, <1>11, <1>12, <1>13, <1>14, <1>15, <1>16, <1>17 DEF Next

(* No conversion under way is counted. *)
LEMMA ConvertingPreserved ==
    ASSUME IInv, TypeOK', [Next]_vars
    PROVE  ConvertingUncounted'
<1> USE BudgetAssumption DEF ConvertingUncounted, TypeOK
<1>t. TypeOK /\ ConvertingUncounted  BY DEF IInv
<1>1. CASE SweepExpired  BY <1>1, <1>t DEF SweepExpired
<1>2. CASE Tick  BY <1>2, <1>t DEF Tick
<1>3. ASSUME NEW r \in Requests, Arrive(r)  PROVE ConvertingUncounted'
  BY <1>3, <1>t DEF Arrive
<1>4. ASSUME NEW r \in Requests, LockDay(r)  PROVE ConvertingUncounted'
  BY <1>4, <1>t DEF LockDay
<1>5. ASSUME NEW r \in Requests, Claim(r)  PROVE ConvertingUncounted'
  BY <1>5, <1>t DEF Claim
<1>6. ASSUME NEW r \in Requests, Refuse(r)  PROVE ConvertingUncounted'
  BY <1>6, <1>t DEF Refuse
<1>7. ASSUME NEW r \in Requests, CommitClaim(r)  PROVE ConvertingUncounted'
  BY <1>7, <1>t DEF CommitClaim
<1>8. ASSUME NEW r \in Requests, CrashReserving(r)  PROVE ConvertingUncounted'
  BY <1>8, <1>t DEF CrashReserving
<1>9. ASSUME NEW r \in Requests, StoreUpload(r)  PROVE ConvertingUncounted'
  BY <1>9, <1>t DEF StoreUpload, Uses
<1>10. ASSUME NEW r \in Requests, CommitResults(r)  PROVE ConvertingUncounted'
  BY <1>10, <1>t DEF CommitResults, Uses
<1>11. ASSUME NEW r \in Requests, FindClaim(r)  PROVE ConvertingUncounted'
  BY <1>11, <1>t DEF FindClaim
<1>12. ASSUME NEW r \in Requests, Convert(r)  PROVE ConvertingUncounted'
  BY <1>12, <1>t DEF Convert, Uses
<1>13. ASSUME NEW r \in Requests, Release(r)  PROVE ConvertingUncounted'
  BY <1>13, <1>t DEF Release
<1>14. ASSUME NEW r \in Requests, ReleaseStuck(r)  PROVE ConvertingUncounted'
  BY <1>14, <1>t DEF ReleaseStuck
<1>15. ASSUME NEW r \in Requests, PurgeObject(r)  PROVE ConvertingUncounted'
  BY <1>15, <1>t DEF PurgeObject
<1>16. ASSUME NEW r \in Requests, DiscardResults(r)  PROVE ConvertingUncounted'
  BY <1>16, <1>t DEF DiscardResults
<1>17. CASE UNCHANGED vars  BY <1>17, <1>t DEF vars
<1> QED
  BY <1>1, <1>2, <1>3, <1>4, <1>5, <1>6, <1>7, <1>8, <1>9,
     <1>10, <1>11, <1>12, <1>13, <1>14, <1>15, <1>16, <1>17 DEF Next

(* Late claims stay late. *)
LEMMA LatePreserved ==
    ASSUME IInv, TypeOK', [Next]_vars
    PROVE  LateNeverLive'
<1> USE BudgetAssumption DEF LateNeverLive, TypeOK, Live, Expired, Time
<1>t. TypeOK /\ LateNeverLive /\ ConvertingUncounted  BY DEF IInv
<1>1. CASE SweepExpired  BY <1>1, <1>t DEF SweepExpired
<1>2. CASE Tick  BY <1>2, <1>t DEF Tick
<1>3. ASSUME NEW r \in Requests, Arrive(r)  PROVE LateNeverLive'
  BY <1>3, <1>t DEF Arrive
<1>4. ASSUME NEW r \in Requests, LockDay(r)  PROVE LateNeverLive'
  BY <1>4, <1>t DEF LockDay
<1>5. ASSUME NEW r \in Requests, Claim(r)  PROVE LateNeverLive'
  BY <1>5, <1>t DEF Claim
<1>6. ASSUME NEW r \in Requests, Refuse(r)  PROVE LateNeverLive'
  BY <1>6, <1>t DEF Refuse
<1>7. ASSUME NEW r \in Requests, CommitClaim(r)  PROVE LateNeverLive'
  BY <1>7, <1>t DEF CommitClaim
<1>8. ASSUME NEW r \in Requests, CrashReserving(r)  PROVE LateNeverLive'
  BY <1>8, <1>t DEF CrashReserving
<1>9. ASSUME NEW r \in Requests, StoreUpload(r)  PROVE LateNeverLive'
  BY <1>9, <1>t DEF StoreUpload, Uses
<1>10. ASSUME NEW r \in Requests, CommitResults(r)  PROVE LateNeverLive'
  BY <1>10, <1>t DEF CommitResults, Uses
<1>11. ASSUME NEW r \in Requests, FindClaim(r)  PROVE LateNeverLive'
  BY <1>11, <1>t DEF FindClaim
<1>12. ASSUME NEW r \in Requests, Convert(r)  PROVE LateNeverLive'
  BY <1>12, <1>t DEF Convert, Uses, ConvertingUncounted
<1>13. ASSUME NEW r \in Requests, Release(r)  PROVE LateNeverLive'
  BY <1>13, <1>t DEF Release
<1>14. ASSUME NEW r \in Requests, ReleaseStuck(r)  PROVE LateNeverLive'
  BY <1>14, <1>t DEF ReleaseStuck
<1>15. ASSUME NEW r \in Requests, PurgeObject(r)  PROVE LateNeverLive'
  BY <1>15, <1>t DEF PurgeObject
<1>16. ASSUME NEW r \in Requests, DiscardResults(r)  PROVE LateNeverLive'
  BY <1>16, <1>t DEF DiscardResults
<1>17. CASE UNCHANGED vars  BY <1>17, <1>t DEF vars
<1> QED
  BY <1>1, <1>2, <1>3, <1>4, <1>5, <1>6, <1>7, <1>8, <1>9,
     <1>10, <1>11, <1>12, <1>13, <1>14, <1>15, <1>16, <1>17 DEF Next

(* Days follow each other as the clock does. *)
LEMMA DayMonotone ==
    ASSUME NEW s \in Nat, NEW t \in Nat, s <= t
    PROVE  Day(s) \in Nat /\ Day(t) \in Nat /\ Day(s) <= Day(t)
BY BudgetAssumption DEF Day

(* Results keep coming after their claim. *)
LEMMA ResultsPreserved ==
    ASSUME IInv, TypeOK', [Next]_vars
    PROVE  ResultsFollowClaim'
<1> USE BudgetAssumption DEF ResultsFollowClaim, TypeOK, UsageDate, Time
<1>t. TypeOK /\ ResultsFollowClaim  BY DEF IInv
<1>1. CASE SweepExpired  BY <1>1, <1>t DEF SweepExpired
<1>2. CASE Tick  BY <1>2, <1>t DEF Tick
<1>3. ASSUME NEW r \in Requests, Arrive(r)  PROVE ResultsFollowClaim'
  BY <1>3, <1>t DEF Arrive
<1>4. ASSUME NEW r \in Requests, LockDay(r)  PROVE ResultsFollowClaim'
  BY <1>4, <1>t DEF LockDay
<1>5. ASSUME NEW r \in Requests, Claim(r)  PROVE ResultsFollowClaim'
  BY <1>5, <1>t DEF Claim
<1>6. ASSUME NEW r \in Requests, Refuse(r)  PROVE ResultsFollowClaim'
  BY <1>6, <1>t DEF Refuse
<1>7. ASSUME NEW r \in Requests, CommitClaim(r)  PROVE ResultsFollowClaim'
  BY <1>7, <1>t DEF CommitClaim
<1>8. ASSUME NEW r \in Requests, CrashReserving(r)  PROVE ResultsFollowClaim'
  BY <1>8, <1>t DEF CrashReserving
<1>9. ASSUME NEW r \in Requests, StoreUpload(r)  PROVE ResultsFollowClaim'
  BY <1>9, <1>t DEF StoreUpload, Uses
<1>10. ASSUME NEW r \in Requests, CommitResults(r)  PROVE ResultsFollowClaim'
  <2>1. moment[r] \in Nat /\ now \in Nat /\ moment[r] <= now  BY <1>t
  <2>2. Day(moment[r]) <= Day(now)  BY <2>1, DayMonotone
  <2> QED  BY <1>10, <1>t, <2>2 DEF CommitResults, Uses
<1>11. ASSUME NEW r \in Requests, FindClaim(r)  PROVE ResultsFollowClaim'
  BY <1>11, <1>t DEF FindClaim
<1>12. ASSUME NEW r \in Requests, Convert(r)  PROVE ResultsFollowClaim'
  BY <1>12, <1>t DEF Convert, Uses
<1>13. ASSUME NEW r \in Requests, Release(r)  PROVE ResultsFollowClaim'
  BY <1>13, <1>t DEF Release
<1>14. ASSUME NEW r \in Requests, ReleaseStuck(r)  PROVE ResultsFollowClaim'
  BY <1>14, <1>t DEF ReleaseStuck
<1>15. ASSUME NEW r \in Requests, PurgeObject(r)  PROVE ResultsFollowClaim'
  BY <1>15, <1>t DEF PurgeObject
<1>16. ASSUME NEW r \in Requests, DiscardResults(r)  PROVE ResultsFollowClaim'
  BY <1>16, <1>t DEF DiscardResults
<1>17. CASE UNCHANGED vars  BY <1>17, <1>t DEF vars
<1> QED
  BY <1>1, <1>2, <1>3, <1>4, <1>5, <1>6, <1>7, <1>8, <1>9,
     <1>10, <1>11, <1>12, <1>13, <1>14, <1>15, <1>16, <1>17 DEF Next

(* A step that converts nothing leaves the counters right.                 *)
LEMMA NothingConverted ==
    ASSUME UsageCountsConversions, usage' = usage,
           \A d \in Days : ConvertedOn(d)' = ConvertedOn(d)
    PROVE  UsageCountsConversions'
BY DEF UsageCountsConversions

(* The counters of every day stay right. *)
LEMMA UsagePreserved ==
    ASSUME IInv, TypeOK', [Next]_vars
    PROVE  UsageCountsConversions'
<1> USE BudgetAssumption DEF TypeOK, ConvertedOn, UsageDate
<1>t. TypeOK /\ UsageCountsConversions /\ ConvertingUncounted  BY DEF IInv
<1>u. \A r \in Requests : UsageDate(r) \in Days  BY <1>t, UsageDateInDays
<1>1. CASE SweepExpired  BY <1>1, <1>t, NothingConverted DEF SweepExpired
<1>2. CASE Tick  BY <1>2, <1>t, NothingConverted DEF Tick
<1>3. ASSUME NEW r \in Requests, Arrive(r)  PROVE UsageCountsConversions'
  BY <1>3, <1>t, NothingConverted DEF Arrive
<1>4. ASSUME NEW r \in Requests, LockDay(r)  PROVE UsageCountsConversions'
  BY <1>4, <1>t, NothingConverted DEF LockDay
<1>5. ASSUME NEW r \in Requests, Claim(r)  PROVE UsageCountsConversions'
  BY <1>5, <1>t, NothingConverted DEF Claim
<1>6. ASSUME NEW r \in Requests, Refuse(r)  PROVE UsageCountsConversions'
  BY <1>6, <1>t, NothingConverted DEF Refuse
<1>7. ASSUME NEW r \in Requests, CommitClaim(r)  PROVE UsageCountsConversions'
  BY <1>7, <1>t, NothingConverted DEF CommitClaim
<1>8. ASSUME NEW r \in Requests, CrashReserving(r)  PROVE UsageCountsConversions'
  BY <1>8, <1>t, NothingConverted DEF CrashReserving
<1>9. ASSUME NEW r \in Requests, StoreUpload(r)  PROVE UsageCountsConversions'
  BY <1>9, <1>t, NothingConverted DEF StoreUpload, Uses
<1>10. ASSUME NEW r \in Requests, CommitResults(r)  PROVE UsageCountsConversions'
  BY <1>10, <1>t, NothingConverted DEF CommitResults, Uses
<1>11. ASSUME NEW r \in Requests, FindClaim(r)  PROVE UsageCountsConversions'
  BY <1>11, <1>t, NothingConverted DEF FindClaim
<1>12. ASSUME NEW r \in Requests, Convert(r)  PROVE UsageCountsConversions'
  <2> DEFINE d0 == UsageDate(r)
  <2>0. r \in Requests /\ phase[r] \in {"held", "lapsed"} /\ d0 \in Days
    BY <1>12, <1>t, <1>u DEF Convert, ConvertingUncounted
  <2> SUFFICES ASSUME NEW d \in Days
               PROVE  /\ usage'[d].uploads = Cardinality(ConvertedOn(d)')
                      /\ usage'[d].bytes = SumOver(SizeOf, ConvertedOn(d)')
    BY DEF UsageCountsConversions
  <2>1. ConvertedOn(d) \in SUBSET Requests  OBVIOUS
  <2>2. IsFiniteSet(ConvertedOn(d)) /\ Cardinality(ConvertedOn(d)) \in Nat
    BY <2>1, RequestSetsFinite
  <2>3. /\ usage[d].uploads = Cardinality(ConvertedOn(d))
        /\ usage[d].bytes = SumOver(SizeOf, ConvertedOn(d))
    BY <1>t DEF UsageCountsConversions
  <2>4. CASE d = d0
    <3>1. ConvertedOn(d)' = ConvertedOn(d) \cup {r}
      BY <1>12, <1>t, <2>4 DEF Convert, Uses
    <3>2. r \in Requests \ ConvertedOn(d)  BY <2>0
    <3>3. Cardinality(ConvertedOn(d)') = Cardinality(ConvertedOn(d)) + 1
      BY <2>2, <3>1, <3>2, FS_AddElement
    <3>4. SumOver(SizeOf, ConvertedOn(d)') = SumOver(SizeOf, ConvertedOn(d)) + SizeOf[r]
      <4> DEFINE C == ConvertedOn(d)
      <4>1. /\ IsFiniteSet(Requests) /\ SizeOf \in [Requests -> Nat]
            /\ C \in SUBSET Requests /\ r \in Requests \ C
        BY <2>1, <3>2
      <4>2. ConvertedOn(d)' = C \cup {r}  BY <3>1
      <4> HIDE DEF C
      <4>3. SumOver(SizeOf, C \cup {r}) = SumOver(SizeOf, C) + SizeOf[r]
        BY <4>1, SumAdd
      <4> QED  BY <4>2, <4>3 DEF C
    <3>5. /\ usage'[d].uploads = usage[d].uploads + 1
          /\ usage'[d].bytes = usage[d].bytes + SizeOf[r]
      BY <1>12, <1>t, <2>0, <2>4 DEF Convert
    <3> QED  BY <2>3, <3>3, <3>4, <3>5
  <2>5. CASE d # d0
    <3>1. ConvertedOn(d)' = ConvertedOn(d)
      BY <1>12, <1>t, <2>0, <2>5 DEF Convert, Uses
    <3>2. usage'[d] = usage[d]  BY <1>12, <1>t, <2>0, <2>5 DEF Convert
    <3> QED  BY <2>3, <3>1, <3>2
  <2> QED  BY <2>4, <2>5
<1>13. ASSUME NEW r \in Requests, Release(r)  PROVE UsageCountsConversions'
  BY <1>13, <1>t, NothingConverted DEF Release
<1>14. ASSUME NEW r \in Requests, ReleaseStuck(r)  PROVE UsageCountsConversions'
  BY <1>14, <1>t, NothingConverted DEF ReleaseStuck
<1>15. ASSUME NEW r \in Requests, PurgeObject(r)  PROVE UsageCountsConversions'
  BY <1>15, <1>t, NothingConverted DEF PurgeObject
<1>16. ASSUME NEW r \in Requests, DiscardResults(r)  PROVE UsageCountsConversions'
  BY <1>16, <1>t, NothingConverted DEF DiscardResults
<1>17. CASE UNCHANGED vars  BY <1>17, <1>t, NothingConverted DEF vars
<1> QED
  BY <1>1, <1>2, <1>3, <1>4, <1>5, <1>6, <1>7, <1>8, <1>9,
     <1>10, <1>11, <1>12, <1>13, <1>14, <1>15, <1>16, <1>17 DEF Next

(* Requests that once read two days have read two days. *)
LEMMA DaysSpread ==
    ASSUME IInv, TypeOK', [Next]_vars
    PROVE  OneDay' => OneDay
<1> USE BudgetAssumption DEF OneDay, UsageDate, TypeOK
<1>t. TypeOK /\ ConvertingUncounted  BY DEF IInv
<1>1. CASE SweepExpired  BY <1>1, <1>t DEF SweepExpired
<1>2. CASE Tick  BY <1>2, <1>t DEF Tick
<1>3. ASSUME NEW r \in Requests, Arrive(r)  PROVE OneDay' => OneDay
  BY <1>3, <1>t DEF Arrive
<1>4. ASSUME NEW r \in Requests, LockDay(r)  PROVE OneDay' => OneDay
  BY <1>4, <1>t DEF LockDay
<1>5. ASSUME NEW r \in Requests, Claim(r)  PROVE OneDay' => OneDay
  BY <1>5, <1>t DEF Claim
<1>6. ASSUME NEW r \in Requests, Refuse(r)  PROVE OneDay' => OneDay
  BY <1>6, <1>t DEF Refuse
<1>7. ASSUME NEW r \in Requests, CommitClaim(r)  PROVE OneDay' => OneDay
  BY <1>7, <1>t DEF CommitClaim
<1>8. ASSUME NEW r \in Requests, CrashReserving(r)  PROVE OneDay' => OneDay
  BY <1>8, <1>t DEF CrashReserving
<1>9. ASSUME NEW r \in Requests, StoreUpload(r)  PROVE OneDay' => OneDay
  BY <1>9, <1>t DEF StoreUpload, Uses
<1>10. ASSUME NEW r \in Requests, CommitResults(r)  PROVE OneDay' => OneDay
  BY <1>10, <1>t DEF CommitResults, Uses
<1>11. ASSUME NEW r \in Requests, FindClaim(r)  PROVE OneDay' => OneDay
  BY <1>11, <1>t DEF FindClaim
<1>12. ASSUME NEW r \in Requests, Convert(r)  PROVE OneDay' => OneDay
  BY <1>12, <1>t DEF Convert, Uses
<1>13. ASSUME NEW r \in Requests, Release(r)  PROVE OneDay' => OneDay
  BY <1>13, <1>t DEF Release
<1>14. ASSUME NEW r \in Requests, ReleaseStuck(r)  PROVE OneDay' => OneDay
  BY <1>14, <1>t DEF ReleaseStuck
<1>15. ASSUME NEW r \in Requests, PurgeObject(r)  PROVE OneDay' => OneDay
  BY <1>15, <1>t DEF PurgeObject
<1>16. ASSUME NEW r \in Requests, DiscardResults(r)  PROVE OneDay' => OneDay
  BY <1>16, <1>t DEF DiscardResults
<1>17. CASE UNCHANGED vars  BY <1>17, <1>t DEF vars
<1> QED
  BY <1>1, <1>2, <1>3, <1>4, <1>5, <1>6, <1>7, <1>8, <1>9,
     <1>10, <1>11, <1>12, <1>13, <1>14, <1>15, <1>16, <1>17 DEF Next

(* The steps that neither insert a reservation nor commit one. *)
Quiet ==
    \/ SweepExpired \/ Tick \/ UNCHANGED vars
    \/ \E r \in Requests :
          \/ Arrive(r) \/ LockDay(r) \/ Refuse(r) \/ CrashReserving(r)
          \/ StoreUpload(r) \/ CommitResults(r) \/ FindClaim(r) \/ Convert(r)
          \/ Release(r) \/ ReleaseStuck(r) \/ PurgeObject(r) \/ DiscardResults(r)

(* Nothing is added to what counts, and no claim is new. *)
Shrinks ==
    /\ \A d \in Days : InTime(d)' \subseteq InTime(d) /\ LiveOn(d)' \subseteq LiveOn(d)
    /\ StoredOrDue' \subseteq StoredOrDue
    /\ PagesUsed' \subseteq PagesUsed
    /\ \A r \in Requests :
          phase'[r] = "claimed" => phase[r] = "claimed" /\ UsageDate(r)' = UsageDate(r)

(* Such a step adds nothing to what counts. *)
LEMMA QuietShrinks ==
    ASSUME IInv, TypeOK', Quiet
    PROVE  Shrinks
<1> USE BudgetAssumption DEF Shrinks, TypeOK, InTime, LiveOn, Live, Expired, ConvertedOn, UsageDate,
           StoredOrDue, PagesUsed, Time
<1>t. TypeOK /\ ConvertingUncounted  BY DEF IInv
<1>1. CASE SweepExpired  BY <1>1, <1>t DEF SweepExpired
<1>2. CASE Tick  BY <1>2, <1>t DEF Tick
<1>3. ASSUME NEW r \in Requests, Arrive(r)  PROVE Shrinks
  BY <1>3, <1>t DEF Arrive
<1>4. ASSUME NEW r \in Requests, LockDay(r)  PROVE Shrinks
  BY <1>4, <1>t DEF LockDay
<1>5. ASSUME NEW r \in Requests, Refuse(r)  PROVE Shrinks
  BY <1>5, <1>t DEF Refuse
<1>6. ASSUME NEW r \in Requests, CrashReserving(r)  PROVE Shrinks
  BY <1>6, <1>t DEF CrashReserving
<1>7. ASSUME NEW r \in Requests, StoreUpload(r)  PROVE Shrinks
  BY <1>7, <1>t DEF StoreUpload, Uses
<1>8. ASSUME NEW r \in Requests, CommitResults(r)  PROVE Shrinks
  BY <1>8, <1>t DEF CommitResults, Uses
<1>9. ASSUME NEW r \in Requests, FindClaim(r)  PROVE Shrinks
  BY <1>9, <1>t DEF FindClaim
<1>10. ASSUME NEW r \in Requests, Convert(r)  PROVE Shrinks
  BY <1>10, <1>t DEF Convert, Uses, ConvertingUncounted
<1>11. ASSUME NEW r \in Requests, Release(r)  PROVE Shrinks
  BY <1>11, <1>t DEF Release
<1>12. ASSUME NEW r \in Requests, ReleaseStuck(r)  PROVE Shrinks
  BY <1>12, <1>t DEF ReleaseStuck
<1>13. ASSUME NEW r \in Requests, PurgeObject(r)  PROVE Shrinks
  BY <1>13, <1>t DEF PurgeObject
<1>14. ASSUME NEW r \in Requests, DiscardResults(r)  PROVE Shrinks
  BY <1>14, <1>t DEF DiscardResults
<1>15. CASE UNCHANGED vars  BY <1>15, <1>t DEF vars
<1> QED
  BY <1>1, <1>2, <1>3, <1>4, <1>5, <1>6, <1>7, <1>8,
     <1>9, <1>10, <1>11, <1>12, <1>13, <1>14, <1>15 DEF Quiet

(* The budget's weights are natural numbers, of finitely many requests. *)
LEMMA Weights ==
    /\ IsFiniteSet(Requests)
    /\ SizeOf \in [Requests -> Nat] /\ PagesOf \in [Requests -> Nat]
    /\ {ConcurrentJobs, UploadsPerDay, BytesPerDay, StoredBytes, PagesPerDay} \subseteq Nat
BY BudgetAssumption

(* What a part of a set of requests comes to. *)
LEMMA PartComesToLess ==
    ASSUME NEW f \in {SizeOf, PagesOf}, NEW S \in SUBSET Requests, NEW T \in SUBSET S
    PROVE  /\ Cardinality(S) \in Nat /\ Cardinality(T) \in Nat
           /\ Cardinality(T) <= Cardinality(S)
           /\ SumOver(f, S) \in Nat /\ SumOver(f, T) \in Nat
           /\ SumOver(f, T) <= SumOver(f, S)
<1>1. f \in [Requests -> Nat] /\ IsFiniteSet(Requests)  BY Weights
<1>2. T \in SUBSET Requests  OBVIOUS
<1>3. IsFiniteSet(S) /\ Cardinality(S) \in Nat /\ Cardinality(T) \in Nat
  BY <1>2, RequestSetsFinite
<1>4. Cardinality(T) <= Cardinality(S)  BY <1>3, FS_Subset
<1>5. SumOver(f, S) \in Nat /\ SumOver(f, T) \in Nat  BY <1>1, <1>2, SumType
<1>6. SumOver(f, T) <= SumOver(f, S)  BY <1>1, SumMonotone
<1> QED  BY <1>3, <1>4, <1>5, <1>6

(* What a set of requests comes to with one more request. *)
LEMMA OneMoreComesTo ==
    ASSUME NEW f \in {SizeOf, PagesOf}, NEW S \in SUBSET Requests, NEW r \in Requests,
           NEW T \in SUBSET (S \cup {r})
    PROVE  /\ Cardinality(S) \in Nat /\ Cardinality(T) \in Nat
           /\ Cardinality(T) <= Cardinality(S) + 1
           /\ SumOver(f, S) \in Nat /\ SumOver(f, T) \in Nat /\ f[r] \in Nat
           /\ SumOver(f, T) <= SumOver(f, S) + f[r]
<1>1. f \in [Requests -> Nat] /\ IsFiniteSet(Requests)  BY Weights
<1>2. f[r] \in Nat  BY <1>1
<1>3. CASE r \in S
  <2>1. T \in SUBSET S  BY <1>3
  <2> QED  BY <1>2, <2>1, PartComesToLess
<1>4. CASE r \notin S
  <2> DEFINE U == S \cup {r}
  <2>1. U \in SUBSET Requests /\ T \in SUBSET U  OBVIOUS
  <2>2. IsFiniteSet(S)  BY RequestSetsFinite
  <2>3. Cardinality(U) = Cardinality(S) + 1  BY <1>4, <2>2, FS_AddElement
  <2>4. SumOver(f, U) = SumOver(f, S) + f[r]  BY <1>1, <1>4, SumAdd
  <2> HIDE DEF U
  <2>5. /\ Cardinality(T) \in Nat /\ Cardinality(T) <= Cardinality(U)
        /\ SumOver(f, T) \in Nat /\ SumOver(f, T) <= SumOver(f, U)
    BY <2>1, PartComesToLess
  <2>6. Cardinality(S) \in Nat /\ SumOver(f, S) \in Nat  BY PartComesToLess
  <2> QED  BY <1>2, <2>3, <2>4, <2>5, <2>6
<1> QED  BY <1>3, <1>4

(* Two requests that are on their way while all read one day read that day. *)
LEMMA OnOneDay ==
    ASSUME OneDay, NEW q \in Requests, NEW r \in Requests,
           phase[q] # "idle", phase[r] # "idle"
    PROVE  UsageDate(q) = UsageDate(r)
BY DEF OneDay

(* What counts is counted over requests. *)
LEMMA CountedAreRequests ==
    /\ \A d : InTime(d) \in SUBSET Requests /\ LiveOn(d) \in SUBSET Requests
    /\ StoredOrDue \in SUBSET Requests /\ PagesUsed \in SUBSET Requests
BY DEF InTime, LiveOn, Live, ConvertedOn, StoredOrDue, PagesUsed

(* A step that adds nothing leaves what counts, and the room kept, within  *)
(* the limits.                                                             *)
LEMMA ShrinkingKeepsRoom ==
    ASSUME IInv, Shrinks, OneDay' => OneDay
    PROVE  Within' /\ RoomKept'
<1>0. Within /\ RoomKept /\ TypeOK  BY DEF IInv
<1>1. /\ IsFiniteSet(Requests)
      /\ SizeOf \in [Requests -> Nat] /\ PagesOf \in [Requests -> Nat]
      /\ {ConcurrentJobs, UploadsPerDay, BytesPerDay, StoredBytes, PagesPerDay} \subseteq Nat
  BY Weights
<1>2. ASSUME NEW d \in Days
      PROVE  /\ Cardinality(InTime(d)) \in Nat /\ Cardinality(InTime(d)') \in Nat
             /\ Cardinality(InTime(d)') <= Cardinality(InTime(d))
             /\ Cardinality(LiveOn(d)) \in Nat /\ Cardinality(LiveOn(d)') \in Nat
             /\ Cardinality(LiveOn(d)') <= Cardinality(LiveOn(d))
             /\ SumOver(SizeOf, InTime(d)) \in Nat /\ SumOver(SizeOf, InTime(d)') \in Nat
             /\ SumOver(SizeOf, InTime(d)') <= SumOver(SizeOf, InTime(d))
  <2>1. InTime(d) \in SUBSET Requests /\ LiveOn(d) \in SUBSET Requests
    BY CountedAreRequests
  <2>2. InTime(d)' \in SUBSET InTime(d) /\ LiveOn(d)' \in SUBSET LiveOn(d)  BY DEF Shrinks
  <2> QED  BY <2>1, <2>2, PartComesToLess
<1>3. /\ SumOver(SizeOf, StoredOrDue) \in Nat /\ SumOver(SizeOf, StoredOrDue') \in Nat
      /\ SumOver(SizeOf, StoredOrDue') <= SumOver(SizeOf, StoredOrDue)
      /\ SumOver(PagesOf, PagesUsed) \in Nat /\ SumOver(PagesOf, PagesUsed') \in Nat
      /\ SumOver(PagesOf, PagesUsed') <= SumOver(PagesOf, PagesUsed)
  <2>1. StoredOrDue \in SUBSET Requests /\ PagesUsed \in SUBSET Requests
    BY CountedAreRequests
  <2>2. StoredOrDue' \in SUBSET StoredOrDue /\ PagesUsed' \in SUBSET PagesUsed
    BY DEF Shrinks
  <2> QED  BY <2>1, <2>2, PartComesToLess
<1>4. Within'
  <2>1. DailyUploadsBounded'  BY <1>0, <1>1, <1>2 DEF Within, DailyUploadsBounded
  <2>2. ConcurrentJobsFit'  BY <1>0, <1>1, <1>2 DEF Within, ConcurrentJobsFit
  <2>3. DailyBytesFit'  BY <1>0, <1>1, <1>2 DEF Within, DailyBytesFit
  <2>4. StoredBytesFit'
    <3>1. OneDay => SumOver(SizeOf, StoredOrDue) <= StoredBytes
      BY <1>0 DEF Within, StoredBytesFit, StoredOrDue
    <3>2. OneDay' => SumOver(SizeOf, StoredOrDue') <= StoredBytes  BY <1>1, <1>3, <3>1
    <3> QED  BY <3>2 DEF StoredBytesFit, StoredOrDue
  <2>5. PagesFit'  BY <1>0, <1>1, <1>3 DEF Within, PagesFit
  <2> QED  BY <2>1, <2>2, <2>3, <2>4, <2>5 DEF Within
<1>5. RoomKept'
  <2> SUFFICES ASSUME NEW r \in Requests, phase'[r] = "claimed"
               PROVE  RoomFor(r)'
    BY DEF RoomKept
  <2>1. phase[r] = "claimed" /\ UsageDate(r)' = UsageDate(r)  BY DEF Shrinks
  <2>2. RoomFor(r)  BY <1>0, <2>1 DEF RoomKept
  <2>3. UsageDate(r) \in Days  BY <1>0, UsageDateInDays
  <2>4. PICK d \in Days : d = UsageDate(r)  BY <2>3
  <2>5. /\ InTime(UsageDate(r))' = InTime(d)'
        /\ LiveOn(UsageDate(r))' = LiveOn(d)'
    BY <2>1, <2>4 DEF InTime, LiveOn, ConvertedOn
  <2>6. SizeOf[r] \in Nat /\ PagesOf[r] \in Nat  BY <1>1
  <2>7. Cardinality(InTime(UsageDate(r))') < UploadsPerDay
    BY <1>1, <1>2, <2>2, <2>4, <2>5 DEF RoomFor
  <2>8. Cardinality(LiveOn(UsageDate(r))') < ConcurrentJobs
    BY <1>1, <1>2, <2>2, <2>4, <2>5 DEF RoomFor
  <2>9. SumOver(SizeOf, InTime(UsageDate(r))') + SizeOf[r] <= BytesPerDay
    BY <1>1, <1>2, <2>2, <2>4, <2>5, <2>6 DEF RoomFor
  <2>10. OneDay' => /\ SumOver(SizeOf, StoredOrDue') + SizeOf[r] <= StoredBytes
                    /\ SumOver(PagesOf, PagesUsed') + PagesOf[r] <= PagesPerDay
    BY <1>1, <1>3, <2>2, <2>6 DEF RoomFor
  <2> QED  BY <2>7, <2>8, <2>9, <2>10 DEF RoomFor
<1> QED  BY <1>4, <1>5

(* The checks of reserve_upload see everything that counts: where they     *)
(* pass there is room.                                                     *)
LEMMA FitsLeavesRoom ==
    ASSUME IInv, NEW r \in Requests, phase[r] = "locked", Fits(r)
    PROVE  RoomFor(r)
<1> DEFINE d == UsageDate(r)
           L == LiveOn(d)
           C == ConvertedOn(d) \ late
<1>0. TypeOK /\ Within /\ UsageCountsConversions /\ ResultsFollowClaim  BY DEF IInv
<1>1. /\ IsFiniteSet(Requests)
      /\ SizeOf \in [Requests -> Nat] /\ PagesOf \in [Requests -> Nat]
      /\ {ConcurrentJobs, UploadsPerDay, BytesPerDay, StoredBytes, PagesPerDay} \subseteq Nat
      /\ SizeOf[r] \in Nat /\ PagesOf[r] \in Nat
  BY Weights
<1>2. d \in Days  BY <1>0, UsageDateInDays
<1>3. /\ L \in SUBSET Requests /\ C \in SUBSET ConvertedOn(d) /\ L \cap C = {}
      /\ ConvertedOn(d) \in SUBSET Requests /\ InTime(d) = L \cup C
      /\ Live \in SUBSET Requests /\ L \in SUBSET Live
  BY DEF LiveOn, Live, ConvertedOn, InTime
<1>4. /\ Cardinality(Live) < ConcurrentJobs
      /\ usage[d].uploads + Cardinality(L) < UploadsPerDay
      /\ usage[d].bytes + SumOver(SizeOf, L) + SizeOf[r] <= BytesPerDay
      /\ Stored + SumOver(SizeOf, L) + SizeOf[r] <= StoredBytes
      /\ PagesOf[r] > 0 => PagesToday(d) + PagesOf[r] <= PagesPerDay
  BY DEF Fits
<1>5. /\ usage[d].uploads = Cardinality(ConvertedOn(d))
      /\ usage[d].bytes = SumOver(SizeOf, ConvertedOn(d))
  BY <1>0, <1>2 DEF UsageCountsConversions
<1>6. OneDay => Live = L
  BY <1>3, OnOneDay DEF LiveOn, Live
<1>7. OneDay => SumOver(SizeOf, StoredOrDue) <= Stored + SumOver(SizeOf, L)
  <2> SUFFICES ASSUME OneDay
               PROVE  SumOver(SizeOf, StoredOrDue) <= Stored + SumOver(SizeOf, L)
    OBVIOUS
  <2> DEFINE A == {q \in Requests : upload[q] = "stored"}
             B == {q \in Requests \ late : upload[q] = "stored"}
             N == {q \in Live : upload[q] = "none"}
  <2>1. B \in SUBSET A /\ A \in SUBSET Requests  OBVIOUS
  <2>2. N \in SUBSET L /\ N \in SUBSET Requests /\ B \in SUBSET Requests /\ B \cap N = {}
    BY <1>3, <1>6
  <2>3. StoredOrDue = B \cup N  BY DEF StoredOrDue
  <2>4. Stored = SumOver(SizeOf, A)  BY DEF Stored
  <2> HIDE DEF A, B, N, L
  <2>5. SumOver(SizeOf, B \cup N) = SumOver(SizeOf, B) + SumOver(SizeOf, N)
    BY <1>1, <2>2, SumSplit
  <2>6. /\ SumOver(SizeOf, B) \in Nat /\ SumOver(SizeOf, A) \in Nat
        /\ SumOver(SizeOf, B) <= SumOver(SizeOf, A)
    BY <2>1, PartComesToLess
  <2>7. /\ SumOver(SizeOf, N) \in Nat /\ SumOver(SizeOf, L) \in Nat
        /\ SumOver(SizeOf, N) <= SumOver(SizeOf, L)
    BY <1>3, <2>2, PartComesToLess
  <2> QED  BY <2>3, <2>4, <2>5, <2>6, <2>7
<1>8. OneDay => SumOver(PagesOf, PagesUsed) <= PagesToday(d)
  <2> SUFFICES ASSUME OneDay
               PROVE  SumOver(PagesOf, PagesUsed) <= PagesToday(d)
    OBVIOUS
  <2> DEFINE A == {q \in Imports : resultsDay[q] >= d}
             Z == WithResults \ Imports
             N == PagesUsed \ WithResults
             B == PagesUsed \cap WithResults
  <2>1. A = Imports
    <3>1. ASSUME NEW q \in Imports  PROVE resultsDay[q] >= d
      <4>1. q \in Requests /\ resultsDay[q] # -1  BY DEF Imports, WithResults
      <4>2. phase[q] # "idle" /\ UsageDate(q) <= resultsDay[q]
        BY <1>0, <4>1 DEF ResultsFollowClaim
      <4>3. UsageDate(q) = d  BY <4>1, <4>2, OnOneDay
      <4> QED  BY <4>2, <4>3
    <3> QED  BY <3>1
  <2>2. /\ A \in SUBSET Requests /\ Z \in SUBSET Requests /\ A \cap Z = {}
        /\ A \cup Z = WithResults
    BY <2>1 DEF Imports, WithResults
  <2>3. \A q \in Z : PagesOf[q] = 0  BY <1>1 DEF Imports, WithResults
  <2>4. N \in SUBSET L /\ N \in SUBSET Requests
    BY <1>3, <1>6 DEF PagesUsed, WithResults
  <2>5. B \in SUBSET WithResults /\ WithResults \in SUBSET Requests /\ B \in SUBSET Requests
    BY DEF WithResults
  <2>6. B \cap N = {} /\ PagesUsed = B \cup N  OBVIOUS
  <2>7. PagesToday(d) = SumOver(PagesOf, A) + SumOver(PagesOf, L)
    BY DEF PagesToday
  <2> HIDE DEF A, Z, N, B, L
  <2>8. SumOver(PagesOf, A \cup Z) = SumOver(PagesOf, A) + SumOver(PagesOf, Z)
    BY <1>1, <2>2, SumSplit
  <2>9. SumOver(PagesOf, Z) = 0  BY <1>1, <2>2, <2>3, SumZero
  <2>10. SumOver(PagesOf, B \cup N) = SumOver(PagesOf, B) + SumOver(PagesOf, N)
    BY <1>1, <2>4, <2>5, <2>6, SumSplit
  <2>11. /\ SumOver(PagesOf, B) \in Nat /\ SumOver(PagesOf, WithResults) \in Nat
         /\ SumOver(PagesOf, B) <= SumOver(PagesOf, WithResults)
    BY <2>5, PartComesToLess
  <2>12. /\ SumOver(PagesOf, N) \in Nat /\ SumOver(PagesOf, L) \in Nat
         /\ SumOver(PagesOf, N) <= SumOver(PagesOf, L)
    BY <1>3, <2>4, PartComesToLess
  <2>13. SumOver(PagesOf, A) \in Nat  BY <1>1, <2>2, SumType
  <2>14. SumOver(PagesOf, WithResults) = SumOver(PagesOf, A)
    BY <2>2, <2>8, <2>9, <2>13
  <2> QED  BY <2>6, <2>7, <2>10, <2>11, <2>12, <2>13, <2>14
<1>9. /\ Cardinality(C) \in Nat /\ Cardinality(ConvertedOn(d)) \in Nat
      /\ Cardinality(C) <= Cardinality(ConvertedOn(d))
      /\ SumOver(SizeOf, C) \in Nat /\ SumOver(SizeOf, ConvertedOn(d)) \in Nat
      /\ SumOver(SizeOf, C) <= SumOver(SizeOf, ConvertedOn(d))
  BY <1>3, PartComesToLess
<1>10. /\ Cardinality(L) \in Nat /\ Cardinality(Live) \in Nat
       /\ Cardinality(L) <= Cardinality(Live)
       /\ SumOver(SizeOf, L) \in Nat
  BY <1>3, PartComesToLess
<1>11. C \in SUBSET Requests /\ IsFiniteSet(C) /\ IsFiniteSet(L)
  BY <1>3, RequestSetsFinite
<1>12. Cardinality(L \cup C) = Cardinality(L) + Cardinality(C)
  <2>1. Cardinality(L \cap C) = 0  BY <1>3, FS_EmptySet
  <2> HIDE DEF L, C
  <2>2. Cardinality(L \cup C) = Cardinality(L) + Cardinality(C) - Cardinality(L \cap C)
    BY <1>11, FS_Union
  <2> QED  BY <1>9, <1>10, <2>1, <2>2
<1>13. SumOver(SizeOf, L \cup C) = SumOver(SizeOf, L) + SumOver(SizeOf, C)
  <2> HIDE DEF L, C
  <2> QED  BY <1>1, <1>3, <1>11, SumSplit
<1>14. SumOver(SizeOf, StoredOrDue) \in Nat /\ SumOver(PagesOf, PagesUsed) \in Nat
  BY <1>1, CountedAreRequests, SumType
<1>15. Stored \in Nat
  <2>1. {q \in Requests : upload[q] = "stored"} \in SUBSET Requests  OBVIOUS
  <2> QED  BY <1>1, <2>1, SumType DEF Stored
<1>16. PagesToday(d) \in Nat
  <2>1. {q \in Imports : resultsDay[q] >= d} \in SUBSET Requests
    BY DEF Imports, WithResults
  <2>2. SumOver(PagesOf, {q \in Imports : resultsDay[q] >= d}) \in Nat
    BY <1>1, <2>1, SumType
  <2>3. SumOver(PagesOf, L) \in Nat  BY <1>1, <1>3, SumType
  <2> QED  BY <2>2, <2>3 DEF PagesToday
<1> HIDE DEF L, C
<1>17. Cardinality(InTime(d)) < UploadsPerDay
  BY <1>1, <1>3, <1>4, <1>5, <1>9, <1>10, <1>12
<1>18. Cardinality(LiveOn(d)) < ConcurrentJobs
  BY <1>1, <1>4, <1>10 DEF L
<1>19. SumOver(SizeOf, InTime(d)) + SizeOf[r] <= BytesPerDay
  BY <1>1, <1>3, <1>4, <1>5, <1>9, <1>10, <1>13
<1>20. OneDay => SumOver(SizeOf, StoredOrDue) + SizeOf[r] <= StoredBytes
  BY <1>1, <1>4, <1>7, <1>10, <1>14, <1>15
<1>21. OneDay => SumOver(PagesOf, PagesUsed) + PagesOf[r] <= PagesPerDay
  BY <1>0, <1>1, <1>4, <1>8, <1>14, <1>16 DEF Within, PagesFit
<1> QED  BY <1>17, <1>18, <1>19, <1>20, <1>21 DEF RoomFor

(* Nothing that counts depends on who is between lock and COMMIT. *)
LEMMA ClaimCountsNothing ==
    ASSUME TypeOK, TypeOK', NEW r \in Requests, Claim(r)
    PROVE  /\ \A d \in Days : InTime(d)' = InTime(d) /\ LiveOn(d)' = LiveOn(d)
           /\ StoredOrDue' = StoredOrDue /\ PagesUsed' = PagesUsed
           /\ \A q \in Requests : UsageDate(q)' = UsageDate(q)
           /\ \A q \in Requests : phase'[q] = "claimed" => q = r \/ phase[q] = "claimed"
BY DEF Claim, TypeOK, InTime, LiveOn, Live, Expired, ConvertedOn, UsageDate,
       StoredOrDue, PagesUsed

(* Inserting a reservation keeps room for it. *)
LEMMA ClaimKeepsRoom ==
    ASSUME IInv, TypeOK', NEW r \in Requests, Claim(r), OneDay' => OneDay
    PROVE  Within' /\ RoomKept'
<1>0. Within /\ RoomKept /\ TypeOK  BY DEF IInv
<1>1. /\ \A d \in Days : InTime(d)' = InTime(d) /\ LiveOn(d)' = LiveOn(d)
      /\ StoredOrDue' = StoredOrDue /\ PagesUsed' = PagesUsed
      /\ \A q \in Requests : UsageDate(q)' = UsageDate(q)
      /\ \A q \in Requests : phase'[q] = "claimed" => q = r \/ phase[q] = "claimed"
  BY <1>0, ClaimCountsNothing
<1>2. RoomFor(r)  BY FitsLeavesRoom DEF Claim
<1>3. \A q \in Requests : UsageDate(q) \in Days  BY <1>0, UsageDateInDays
<1>4. ASSUME NEW q \in Requests, phase'[q] = "claimed"
      PROVE  RoomFor(q)'
  <2>1. RoomFor(q)  BY <1>0, <1>1, <1>2, <1>4 DEF RoomKept
  <2>2. PICK d \in Days : d = UsageDate(q)  BY <1>3
  <2>3. /\ InTime(UsageDate(q))' = InTime(d)'
        /\ LiveOn(UsageDate(q))' = LiveOn(d)'
    BY <1>1, <2>2 DEF InTime, LiveOn, ConvertedOn
  <2> QED  BY <1>1, <2>1, <2>2, <2>3 DEF RoomFor
<1>5. RoomKept'  BY <1>4 DEF RoomKept
<1>6. Within'
  <2>1. StoredBytesFit'
    <3>1. OneDay => SumOver(SizeOf, StoredOrDue) <= StoredBytes
      BY <1>0 DEF Within, StoredBytesFit, StoredOrDue
    <3>2. OneDay' => SumOver(SizeOf, StoredOrDue') <= StoredBytes  BY <1>1, <3>1
    <3> QED  BY <3>2 DEF StoredBytesFit, StoredOrDue
  <2>2. DailyUploadsBounded' /\ ConcurrentJobsFit' /\ DailyBytesFit' /\ PagesFit'
    BY <1>0, <1>1
    DEF Within, DailyUploadsBounded, ConcurrentJobsFit, DailyBytesFit, PagesFit
  <2> QED  BY <2>1, <2>2 DEF Within
<1> QED  BY <1>5, <1>6

(* A committed reservation is the only thing it adds. *)
LEMMA CommitAddsOne ==
    ASSUME TypeOK, TypeOK', NEW r \in Requests, CommitClaim(r)
    PROVE  /\ \A d \in Days \ {UsageDate(r)} :
                 InTime(d)' \subseteq InTime(d) /\ LiveOn(d)' \subseteq LiveOn(d)
           /\ InTime(UsageDate(r))' \subseteq InTime(UsageDate(r)) \cup {r}
           /\ LiveOn(UsageDate(r))' \subseteq LiveOn(UsageDate(r)) \cup {r}
           /\ StoredOrDue' \subseteq StoredOrDue \cup {r}
           /\ PagesUsed' \subseteq PagesUsed \cup {r}
           /\ \A q \in Requests : UsageDate(q)' = UsageDate(q)
           /\ \A q \in Requests : phase'[q] = "claimed" => q # r /\ phase[q] = "claimed"
<1> USE DEF CommitClaim, TypeOK
<1>1. \A q \in Requests : UsageDate(q)' = UsageDate(q)  BY DEF UsageDate
<1>2. \A q \in Requests : phase'[q] = "claimed" => q # r /\ phase[q] = "claimed"  OBVIOUS
<1>3. Live' \subseteq Live \cup {r}  BY DEF Live, Expired
<1>4. \A d : /\ ConvertedOn(d)' \subseteq ConvertedOn(d)
             /\ LiveOn(d)' \subseteq {q \in Live' : UsageDate(q) = d}
  BY <1>1 DEF ConvertedOn, LiveOn, Live
<1>5. \A d \in Days \ {UsageDate(r)} : LiveOn(d)' \subseteq LiveOn(d)
  BY <1>3, <1>4 DEF LiveOn
<1>6. LiveOn(UsageDate(r))' \subseteq LiveOn(UsageDate(r)) \cup {r}
  BY <1>1, <1>3, <1>4 DEF LiveOn, Live
<1>7. \A d \in Days \ {UsageDate(r)} : InTime(d)' \subseteq InTime(d)
  BY <1>4, <1>5 DEF InTime
<1>8. InTime(UsageDate(r))' \subseteq InTime(UsageDate(r)) \cup {r}
  BY <1>1, <1>4, <1>6 DEF InTime, ConvertedOn
<1>9. StoredOrDue' \subseteq StoredOrDue \cup {r}  BY <1>3 DEF StoredOrDue
<1>10. PagesUsed' \subseteq PagesUsed \cup {r}  BY <1>3 DEF PagesUsed
<1> QED  BY <1>1, <1>2, <1>5, <1>6, <1>7, <1>8, <1>9, <1>10

(* Committing the reservation takes the room kept for it, and no other's. *)
LEMMA CommitKeepsRoom ==
    ASSUME IInv, TypeOK', NEW r \in Requests, CommitClaim(r), OneDay' => OneDay
    PROVE  Within' /\ RoomKept'
<1> DEFINE e == UsageDate(r)
<1>0. Within /\ RoomKept /\ TypeOK /\ LockHeldByReserver  BY DEF IInv
<1>1. /\ \A d \in Days \ {e} : InTime(d)' \subseteq InTime(d) /\ LiveOn(d)' \subseteq LiveOn(d)
      /\ InTime(e)' \subseteq InTime(e) \cup {r}
      /\ LiveOn(e)' \subseteq LiveOn(e) \cup {r}
      /\ StoredOrDue' \subseteq StoredOrDue \cup {r}
      /\ PagesUsed' \subseteq PagesUsed \cup {r}
      /\ \A q \in Requests : UsageDate(q)' = UsageDate(q)
      /\ \A q \in Requests : phase'[q] = "claimed" => q # r /\ phase[q] = "claimed"
  BY <1>0, CommitAddsOne
<1>2. phase[r] = "claimed" /\ e \in Days
  BY <1>0, UsageDateInDays DEF CommitClaim
<1>3. RoomFor(r)  BY <1>0, <1>2 DEF RoomKept
<1>4. /\ IsFiniteSet(Requests)
      /\ SizeOf \in [Requests -> Nat] /\ PagesOf \in [Requests -> Nat]
      /\ {ConcurrentJobs, UploadsPerDay, BytesPerDay, StoredBytes, PagesPerDay} \subseteq Nat
  BY Weights
<1>5. ASSUME NEW d \in Days \ {e}
      PROVE  /\ Cardinality(InTime(d)) \in Nat /\ Cardinality(InTime(d)') \in Nat
             /\ Cardinality(InTime(d)') <= Cardinality(InTime(d))
             /\ Cardinality(LiveOn(d)) \in Nat /\ Cardinality(LiveOn(d)') \in Nat
             /\ Cardinality(LiveOn(d)') <= Cardinality(LiveOn(d))
             /\ SumOver(SizeOf, InTime(d)) \in Nat /\ SumOver(SizeOf, InTime(d)') \in Nat
             /\ SumOver(SizeOf, InTime(d)') <= SumOver(SizeOf, InTime(d))
  <2>1. InTime(d) \in SUBSET Requests /\ LiveOn(d) \in SUBSET Requests
    BY CountedAreRequests
  <2>2. InTime(d)' \in SUBSET InTime(d) /\ LiveOn(d)' \in SUBSET LiveOn(d)  BY <1>1
  <2> QED  BY <2>1, <2>2, PartComesToLess
<1>6. /\ Cardinality(InTime(e)') <= UploadsPerDay
      /\ Cardinality(LiveOn(e)') <= ConcurrentJobs
      /\ SumOver(SizeOf, InTime(e)') <= BytesPerDay
      /\ OneDay => /\ SumOver(SizeOf, StoredOrDue') <= StoredBytes
                   /\ SumOver(PagesOf, PagesUsed') <= PagesPerDay
  <2> DEFINE I == InTime(e)    J == InTime(e)'
             L == LiveOn(e)    M == LiveOn(e)'
             S == StoredOrDue  T == StoredOrDue'
             P == PagesUsed    Q == PagesUsed'
  <2>1. /\ I \in SUBSET Requests /\ L \in SUBSET Requests
        /\ S \in SUBSET Requests /\ P \in SUBSET Requests
    BY CountedAreRequests
  <2>2. /\ J \in SUBSET (I \cup {r}) /\ M \in SUBSET (L \cup {r})
        /\ T \in SUBSET (S \cup {r}) /\ Q \in SUBSET (P \cup {r})
    BY <1>1
  <2>3. /\ Cardinality(I) < UploadsPerDay /\ Cardinality(L) < ConcurrentJobs
        /\ SumOver(SizeOf, I) + SizeOf[r] <= BytesPerDay
        /\ OneDay => /\ SumOver(SizeOf, S) + SizeOf[r] <= StoredBytes
                     /\ SumOver(PagesOf, P) + PagesOf[r] <= PagesPerDay
    BY <1>3 DEF RoomFor
  <2>4. \A d \in {J, M, T, Q} : d = J \/ d = M \/ d = T \/ d = Q  OBVIOUS
  <2> HIDE DEF e, I, J, L, M, S, T, P, Q
  <2>5. /\ Cardinality(I) \in Nat /\ Cardinality(J) \in Nat
        /\ Cardinality(J) <= Cardinality(I) + 1
        /\ SumOver(SizeOf, I) \in Nat /\ SumOver(SizeOf, J) \in Nat /\ SizeOf[r] \in Nat
        /\ SumOver(SizeOf, J) <= SumOver(SizeOf, I) + SizeOf[r]
    BY <2>1, <2>2, OneMoreComesTo
  <2>6. /\ Cardinality(L) \in Nat /\ Cardinality(M) \in Nat
        /\ Cardinality(M) <= Cardinality(L) + 1
    BY <2>1, <2>2, OneMoreComesTo
  <2>7. /\ SumOver(SizeOf, S) \in Nat /\ SumOver(SizeOf, T) \in Nat
        /\ SumOver(SizeOf, T) <= SumOver(SizeOf, S) + SizeOf[r]
    BY <2>1, <2>2, OneMoreComesTo
  <2>8. /\ SumOver(PagesOf, P) \in Nat /\ SumOver(PagesOf, Q) \in Nat /\ PagesOf[r] \in Nat
        /\ SumOver(PagesOf, Q) <= SumOver(PagesOf, P) + PagesOf[r]
    BY <2>1, <2>2, OneMoreComesTo
  <2>9. Cardinality(J) <= UploadsPerDay /\ Cardinality(M) <= ConcurrentJobs
    BY <1>4, <2>3, <2>5, <2>6
  <2>10. SumOver(SizeOf, J) <= BytesPerDay  BY <1>4, <2>3, <2>5
  <2>11. OneDay => SumOver(SizeOf, T) <= StoredBytes  BY <1>4, <2>3, <2>5, <2>7
  <2>12. OneDay => SumOver(PagesOf, Q) <= PagesPerDay  BY <1>4, <2>3, <2>8
  <2> QED  BY <2>9, <2>10, <2>11, <2>12 DEF J, M, T, Q
<1>7. \A d \in Days : d = e => InTime(d)' = InTime(e)' /\ LiveOn(d)' = LiveOn(e)'
  BY <1>1 DEF InTime, LiveOn, ConvertedOn
<1> HIDE DEF e
<1>8. Within'
  <2>1. DailyUploadsBounded'
    <3> SUFFICES ASSUME NEW d \in Days  PROVE Cardinality(InTime(d)') <= UploadsPerDay
      BY DEF DailyUploadsBounded
    <3>1. CASE d = e  BY <1>6, <1>7, <3>1
    <3>2. CASE d # e  BY <1>0, <1>4, <1>5, <3>2 DEF Within, DailyUploadsBounded
    <3> QED  BY <3>1, <3>2
  <2>2. ConcurrentJobsFit'
    <3> SUFFICES ASSUME NEW d \in Days  PROVE Cardinality(LiveOn(d)') <= ConcurrentJobs
      BY DEF ConcurrentJobsFit
    <3>1. CASE d = e  BY <1>6, <1>7, <3>1
    <3>2. CASE d # e  BY <1>0, <1>4, <1>5, <3>2 DEF Within, ConcurrentJobsFit
    <3> QED  BY <3>1, <3>2
  <2>3. DailyBytesFit'
    <3> SUFFICES ASSUME NEW d \in Days  PROVE SumOver(SizeOf, InTime(d)') <= BytesPerDay
      BY DEF DailyBytesFit
    <3>1. CASE d = e  BY <1>6, <1>7, <3>1
    <3>2. CASE d # e  BY <1>0, <1>4, <1>5, <3>2 DEF Within, DailyBytesFit
    <3> QED  BY <3>1, <3>2
  <2>4. StoredBytesFit'  BY <1>6 DEF StoredBytesFit, StoredOrDue
  <2>5. PagesFit'  BY <1>6 DEF PagesFit
  <2> QED  BY <2>1, <2>2, <2>3, <2>4, <2>5 DEF Within
<1>9. RoomKept'
  <2> SUFFICES ASSUME NEW q \in Requests, phase'[q] = "claimed"
               PROVE  RoomFor(q)'
    BY DEF RoomKept
  <2>1. q # r /\ phase[q] = "claimed"  BY <1>1
  <2>2. RoomFor(q)  BY <1>0, <2>1 DEF RoomKept
  <2>3. UsageDate(q) # e
    BY <1>0, <1>2, <2>1 DEF LockHeldByReserver, e
  <2>4. ~OneDay
    BY <1>2, <2>1, <2>3, OnOneDay DEF e
  <2>5. UsageDate(q) \in Days  BY <1>0, UsageDateInDays
  <2>6. PICK d \in Days \ {e} : d = UsageDate(q)  BY <2>3, <2>5
  <2>7. /\ InTime(UsageDate(q))' = InTime(d)'
        /\ LiveOn(UsageDate(q))' = LiveOn(d)'
    BY <1>1, <2>6 DEF InTime, LiveOn, ConvertedOn
  <2>8. SizeOf[q] \in Nat  BY <1>4
  <2>9. Cardinality(InTime(UsageDate(q))') < UploadsPerDay
    BY <1>4, <1>5, <2>2, <2>6, <2>7 DEF RoomFor
  <2>10. Cardinality(LiveOn(UsageDate(q))') < ConcurrentJobs
    BY <1>4, <1>5, <2>2, <2>6, <2>7 DEF RoomFor
  <2>11. SumOver(SizeOf, InTime(UsageDate(q))') + SizeOf[q] <= BytesPerDay
    BY <1>4, <1>5, <2>2, <2>6, <2>7, <2>8 DEF RoomFor
  <2> QED  BY <2>4, <2>9, <2>10, <2>11 DEF RoomFor
<1> QED  BY <1>8, <1>9

(* The program starts with no claim, no lock and no usage. *)
LEMMA InitEstablishes == Init => IInv
<1> SUFFICES ASSUME Init  PROVE IInv  OBVIOUS
<1> USE BudgetAssumption
<1>1. TypeOK
  <2>1. 0 \in Time  BY DEF Time
  <2> QED  BY <2>1 DEF Init, TypeOK, Phases
<1>2. LockHeldByReserver  BY DEF Init, LockHeldByReserver
<1>3. ConvertingUncounted  BY DEF Init, ConvertingUncounted
<1>4. LateNeverLive /\ ResultsFollowClaim
  BY DEF Init, LateNeverLive, ResultsFollowClaim
<1>5. /\ \A d \in Days : InTime(d) = {} /\ LiveOn(d) = {} /\ ConvertedOn(d) = {}
      /\ StoredOrDue = {} /\ PagesUsed = {}
  BY DEF Init, InTime, LiveOn, Live, ConvertedOn, StoredOrDue, PagesUsed
<1>6. Cardinality({}) = 0 /\ SumOver(SizeOf, {}) = 0 /\ SumOver(PagesOf, {}) = 0
  BY FS_EmptySet, SumEmpty
<1>7. UsageCountsConversions  BY <1>5, <1>6 DEF Init, UsageCountsConversions
<1>8. RoomKept  BY DEF Init, RoomKept
<1>9. Within
  <2>1. DailyUploadsBounded /\ ConcurrentJobsFit /\ DailyBytesFit /\ PagesFit
    BY <1>5, <1>6 DEF DailyUploadsBounded, ConcurrentJobsFit, DailyBytesFit, PagesFit
  <2>2. SumOver(SizeOf, StoredOrDue) <= StoredBytes  BY <1>5, <1>6
  <2>3. StoredBytesFit  BY <2>2 DEF StoredBytesFit, StoredOrDue
  <2> QED  BY <2>1, <2>3 DEF Within
<1> QED  BY <1>1, <1>2, <1>3, <1>4, <1>7, <1>8, <1>9 DEF IInv

(* Every step preserves the invariant. *)
LEMMA StepPreserves == IInv /\ [Next]_vars => IInv'
<1> SUFFICES ASSUME IInv, [Next]_vars  PROVE IInv'  OBVIOUS
<1>1. TypeOK'  BY TypePreserved DEF IInv
<1>2. LockHeldByReserver' /\ ConvertingUncounted' /\ LateNeverLive' /\ ResultsFollowClaim'
  BY <1>1, LockPreserved, ConvertingPreserved, LatePreserved, ResultsPreserved
<1>3. UsageCountsConversions'  BY <1>1, UsagePreserved
<1>4. OneDay' => OneDay  BY <1>1, DaysSpread
<1>5. \/ Quiet
      \/ \E r \in Requests : Claim(r) \/ CommitClaim(r)
  BY DEF Next, Quiet
<1>6. Within' /\ RoomKept'
  <2>1. CASE Quiet  BY <1>1, <1>4, <2>1, QuietShrinks, ShrinkingKeepsRoom
  <2>2. CASE \E r \in Requests : Claim(r) \/ CommitClaim(r)
    BY <1>1, <1>4, <2>2, ClaimKeepsRoom, CommitKeepsRoom
  <2> QED  BY <1>5, <2>1, <2>2
<1> QED  BY <1>1, <1>2, <1>3, <1>6 DEF IInv

-----------------------------------------------------------------------------
(***************************************************************************)
(* Theorems.                                                               *)
(***************************************************************************)

(* The invariant holds in every reachable state. *)
THEOREM InvariantHolds == Spec => []IInv
<1>1. Init => IInv  BY InitEstablishes
<1>2. IInv /\ [Next]_vars => IInv'  BY StepPreserves
<1> QED  BY <1>1, <1>2, PTL DEF Spec

(* Every variable keeps its type, for every value of the constants. *)
THEOREM TypeCorrect == Spec => []TypeOK
<1>1. IInv => TypeOK  BY DEF IInv
<1> QED  BY <1>1, InvariantHolds, PTL

(* Two requests never take the last upload of a day: the row lock of       *)
(* _lock_day_row makes check-and-reserve atomic per day, for any number of *)
(* requests, sweeps, late conversions and crashes.                         *)
THEOREM DailyLimitHolds == Spec => []DailyUploadsBounded
<1>1. IInv => DailyUploadsBounded  BY DEF IInv, Within
<1> QED  BY <1>1, InvariantHolds, PTL

(* commit_by_upload counts every conversion once, uploads and bytes, on    *)
(* the day its request read, however conversions and sweeps interleave.    *)
THEOREM UsageIsExact == Spec => []UsageCountsConversions
<1>1. IInv => UsageCountsConversions  BY DEF IInv
<1> QED  BY <1>1, InvariantHolds, PTL

(* The pages of one day are among those that count on all of them. *)
LEMMA PagesFitMeansDaily ==
    ASSUME IInv
    PROVE  DailyPagesFit
<1>0. LateNeverLive /\ PagesFit  BY DEF IInv, Within
<1> SUFFICES ASSUME OneDay, NEW d \in Days
             PROVE  SumOver(PagesOf, {r \in Imports \ late : resultsDay[r] = d}
                               \cup {r \in LiveOn(d) : resultsDay[r] = -1}) <= PagesPerDay
  BY DEF DailyPagesFit
<1> DEFINE T == {r \in Imports \ late : resultsDay[r] = d} \cup {r \in LiveOn(d) : resultsDay[r] = -1}
<1>1. T \in SUBSET PagesUsed
  BY <1>0 DEF LateNeverLive, PagesUsed, Imports, WithResults, LiveOn, Live
<1>2. PagesUsed \in SUBSET Requests  BY CountedAreRequests
<1> HIDE DEF T
<1>3. /\ SumOver(PagesOf, T) \in Nat /\ SumOver(PagesOf, PagesUsed) \in Nat
      /\ SumOver(PagesOf, T) <= SumOver(PagesOf, PagesUsed)
  BY <1>1, <1>2, PartComesToLess
<1>4. PagesPerDay \in Nat  BY Weights
<1> QED  BY <1>0, <1>3, <1>4 DEF PagesFit, T

(* The other limits, on the bytes of a day, the jobs of a day, the bytes   *)
(* stored and the pages of a day, hold for any number of requests of any   *)
(* size: what one request saw free, nobody else takes while it holds the   *)
(* day's row.                                                              *)
THEOREM LimitsHold == Spec => []LimitsKept
<1>1. IInv => LimitsKept  BY PagesFitMeansDaily DEF IInv, Within, LimitsKept
<1> QED  BY <1>1, InvariantHolds, PTL
=============================================================================
