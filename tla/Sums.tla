-------------------------------- MODULE Sums --------------------------------
(***************************************************************************)
(* Facts about sums over finite sets and sequences, which the models write *)
(* SumFunctionOnSet(f, S) and SumFunction(f).                              *)
(*                                                                         *)
(* The sum is defined by recursion over the subsets of S.  The recursion   *)
(* theorems of the library have operators as parameters, so the recursion  *)
(* is justified here from the well-foundedness of the subset order alone:  *)
(* every induction below takes a minimal subset among the counterexamples  *)
(* and shows that it is not one.                                           *)
(***************************************************************************)
EXTENDS Integers, Sequences, FiniteSets, Functions, FiniteSetTheorems, TLAPS

(* The element of a set that the recursion takes next.                     *)
Pick(s) == CHOOSE x \in s : TRUE

(* g gives the sum of f over every subset of S.                            *)
IsTally(g, f, S) ==
    g = [s \in SUBSET S |-> IF s = {} THEN 0 ELSE f[Pick(s)] + g[s \ {Pick(s)}]]

(* The element that the recursion takes out of a set is one of its own.    *)
LEMMA PickIsMember ==
    ASSUME NEW S, S # {}
    PROVE  Pick(S) \in S
BY Zenon DEF Pick

(* A sum is the value at S of some function that satisfies the recursion.  *)
LEMMA SumIsTally ==
    ASSUME NEW f, NEW S
    PROVE  SumFunctionOnSet(f, S) = (CHOOSE g : IsTally(g, f, S))[S]
BY Zenon DEF SumFunctionOnSet, FoldFunctionOnSet, MapThenFoldSet, IsTally, Pick

(* A family of subsets of a finite set has a minimal member.               *)
LEMMA MinimalSubset ==
    ASSUME NEW S, IsFiniteSet(S), NEW B, B \subseteq SUBSET S, B # {}
    PROVE  \E T \in B : \A U \in B : ~(U \subseteq T /\ U # T)
<1>1. IsWellFoundedOn(StrictSubsetOrdering(S), SUBSET S)
  BY FS_StrictSubsetOrderingWellFounded, FS_FiniteSubsetsOfFinite, Zenon
<1>2. \E T \in B : \A U \in B : ~(<<U, T>> \in StrictSubsetOrdering(S))
  BY <1>1, WFMin, Zenon
<1>3. QED BY <1>2, Zenon DEF StrictSubsetOrdering

(* What a tally says of one subset.                                        *)
LEMMA TallyAt ==
    ASSUME NEW f, NEW S, NEW g, IsTally(g, f, S), NEW s \in SUBSET S
    PROVE  /\ s = {} => g[s] = 0
           /\ s # {} => g[s] = f[Pick(s)] + g[s \ {Pick(s)}]
BY Zenon DEF IsTally

(* Two tallies of the same numbers are equal.                              *)
LEMMA TallyUnique ==
    ASSUME NEW f, NEW S, IsFiniteSet(S), NEW g, IsTally(g, f, S), NEW h, IsTally(h, f, S)
    PROVE  g = h
<1> DEFINE B == {s \in SUBSET S : g[s] # h[s]}
<1>1. B = {}
  <2>1. SUFFICES ASSUME B # {} PROVE FALSE
    BY Zenon
  <2>2. PICK s \in B : \A U \in B : ~(U \subseteq s /\ U # s)
    <3>1. B \subseteq SUBSET S
      BY Zenon
    <3> HIDE DEF B
    <3>2. QED BY <2>1, <3>1, MinimalSubset
  <2>3. s # {}
    BY <2>2, TallyAt
  <2>4. /\ s \ {Pick(s)} \in SUBSET S
        /\ s \ {Pick(s)} \subseteq s /\ s \ {Pick(s)} # s
    BY <2>2, <2>3, PickIsMember, Zenon
  <2>5. g[s \ {Pick(s)}] = h[s \ {Pick(s)}]
    BY <2>2, <2>4, Zenon
  <2>6. g[s] = h[s]
    BY <2>2, <2>3, <2>5, TallyAt
  <2>7. QED BY <2>2, <2>6, Zenon
<1>2. g = [s \in SUBSET S |-> g[s]] /\ h = [s \in SUBSET S |-> h[s]]
  BY Zenon DEF IsTally
<1>3. \A s \in SUBSET S : g[s] = h[s]
  BY <1>1, Zenon
<1>4. QED BY <1>2, <1>3, Zenon

(* A tally of a set contains the tallies of its subsets.                   *)
LEMMA TallyRestricts ==
    ASSUME NEW f, NEW S, NEW g, IsTally(g, f, S), NEW U \in SUBSET S
    PROVE  IsTally([s \in SUBSET U |-> g[s]], f, U)
<1> DEFINE r == [s \in SUBSET U |-> g[s]]
<1>1. \A s \in SUBSET U :
        r[s] = IF s = {} THEN 0 ELSE f[Pick(s)] + r[s \ {Pick(s)}]
  <2>1. TAKE s \in SUBSET U
  <2>2. s \in SUBSET S /\ s \ {Pick(s)} \in SUBSET U
    BY Zenon
  <2>3. r[s] = g[s] /\ r[s \ {Pick(s)}] = g[s \ {Pick(s)}]
    BY <2>2, Zenon
  <2>4. QED BY <2>2, <2>3, TallyAt
<1>2. r = [s \in SUBSET U |-> r[s]]
  BY Zenon
<1> HIDE DEF r
<1>3. IsTally(r, f, U)
  BY <1>1, <1>2, Zenon DEF IsTally
<1>4. QED BY <1>3, Zenon DEF r

(* A tally holds the sums over all the subsets.                            *)
LEMMA SumOfTally ==
    ASSUME NEW f, NEW S, IsFiniteSet(S), NEW g, IsTally(g, f, S)
    PROVE  \A U \in SUBSET S : SumFunctionOnSet(f, U) = g[U]
<1>1. TAKE U \in SUBSET S
<1>2. IsFiniteSet(U)
  BY FS_Subset, Zenon
<1> DEFINE r == [s \in SUBSET U |-> g[s]]
<1>3. IsTally(r, f, U)
  BY TallyRestricts, Zenon
<1>4. IsTally((CHOOSE h : IsTally(h, f, U)), f, U)
  BY <1>3, Zenon
<1>5. (CHOOSE h : IsTally(h, f, U)) = r
  BY <1>2, <1>3, <1>4, TallyUnique, Zenon
<1>6. QED BY <1>5, SumIsTally, Zenon

(* Every finite set has a tally: the recursion is well defined.            *)
LEMMA TallyExists ==
    ASSUME NEW f, NEW S, IsFiniteSet(S)
    PROVE  \E g : IsTally(g, f, S)
<1> DEFINE B == {T \in SUBSET S : ~ \E g : IsTally(g, f, T)}
<1>1. SUFFICES ASSUME B # {} PROVE FALSE
  BY Zenon
<1>2. PICK T \in B : \A U \in B : ~(U \subseteq T /\ U # T)
  <2>1. B \subseteq SUBSET S
    BY Zenon
  <2> HIDE DEF B
  <2>2. QED BY <1>1, <2>1, MinimalSubset
<1> DEFINE h == [s \in SUBSET T |-> IF s = {} THEN 0
                    ELSE f[Pick(s)] + SumFunctionOnSet(f, s \ {Pick(s)})]
<1>3. \A s \in SUBSET T :
        h[s] = IF s = {} THEN 0 ELSE f[Pick(s)] + h[s \ {Pick(s)}]
  <2>1. TAKE s \in SUBSET T
  <2>2. ASSUME s # {}
        PROVE  h[s \ {Pick(s)}] = SumFunctionOnSet(f, s \ {Pick(s)})
    <3> DEFINE u == s \ {Pick(s)}
    <3>1. u \in SUBSET T /\ u # T /\ u \in SUBSET S
      BY <2>2, <1>2, PickIsMember, Zenon
    <3>2. PICK g : IsTally(g, f, u)
      BY <1>2, <3>1, Zenon
    <3>3. IsFiniteSet(u)
      BY <3>1, FS_Subset, Zenon
    <3>4. u # {} => Pick(u) \in u
      BY PickIsMember, Zenon
    <3> HIDE DEF u
    <3>5. SumFunctionOnSet(f, u) = g[u]
      BY <3>2, <3>3, SumOfTally
    <3>6. SumFunctionOnSet(f, u \ {Pick(u)}) = g[u \ {Pick(u)}]
      BY <3>2, <3>3, SumOfTally
    <3>7. h[u] = SumFunctionOnSet(f, u)
      BY <3>1, <3>2, <3>5, <3>6, TallyAt
    <3>8. QED BY <3>7, Zenon DEF u
  <2>3. QED BY <2>2, Zenon
<1>4. h = [s \in SUBSET T |-> h[s]]
  BY Zenon
<1> HIDE DEF h
<1>5. IsTally(h, f, T)
  BY <1>3, <1>4, Zenon DEF IsTally
<1>6. QED BY <1>2, <1>5, Zenon

(* The empty sum.                                                          *)
LEMMA SumEmpty ==
    ASSUME NEW f
    PROVE  SumFunctionOnSet(f, {}) = 0
<1>1. IsFiniteSet({})
  BY FS_EmptySet, Zenon
<1>2. PICK g : IsTally(g, f, {})
  BY <1>1, TallyExists, Zenon
<1>3. SumFunctionOnSet(f, {}) = g[{}]
  BY <1>1, <1>2, SumOfTally, Zenon
<1>4. QED BY <1>2, <1>3, TallyAt, Zenon

(* The recursion equation of a sum.                                        *)
LEMMA SumPick ==
    ASSUME NEW f, NEW S, IsFiniteSet(S), S # {}
    PROVE  SumFunctionOnSet(f, S) = f[Pick(S)] + SumFunctionOnSet(f, S \ {Pick(S)})
<1>1. PICK g : IsTally(g, f, S)
  BY TallyExists, Zenon
<1>2. /\ SumFunctionOnSet(f, S) = g[S]
      /\ SumFunctionOnSet(f, S \ {Pick(S)}) = g[S \ {Pick(S)}]
  BY <1>1, SumOfTally
<1>3. S \in SUBSET S
  BY Zenon
<1>4. g[S] = f[Pick(S)] + g[S \ {Pick(S)}]
  BY <1>1, <1>3, Zenon DEF IsTally
<1>5. QED BY <1>2, <1>4, Zenon

(* A sum of members of a set that is closed under addition is a member.    *)
LEMMA SumStaysIn ==
    ASSUME NEW D, 0 \in D, \A a, b \in D : a + b \in D,
           NEW f, NEW S, IsFiniteSet(S), \A x \in S : f[x] \in D
    PROVE  SumFunctionOnSet(f, S) \in D
<1> DEFINE B == {T \in SUBSET S : SumFunctionOnSet(f, T) \notin D}
<1>1. SUFFICES ASSUME B # {} PROVE FALSE
  BY Zenon
<1>2. PICK T \in B : \A U \in B : ~(U \subseteq T /\ U # T)
  <2>1. B \subseteq SUBSET S
    BY Zenon
  <2> HIDE DEF B
  <2>2. QED BY <1>1, <2>1, MinimalSubset
<1>3. T # {} /\ IsFiniteSet(T)
  BY <1>2, SumEmpty, FS_Subset, Zenon
<1>4. Pick(T) \in T
  BY <1>3, PickIsMember, Zenon
<1>5. SumFunctionOnSet(f, T \ {Pick(T)}) \in D
  BY <1>2, <1>4
<1>6. SumFunctionOnSet(f, T) = f[Pick(T)] + SumFunctionOnSet(f, T \ {Pick(T)})
  BY <1>3, SumPick, Zenon
<1>7. f[Pick(T)] \in D
  BY <1>2, <1>4, Zenon
<1>8. SumFunctionOnSet(f, T) \in D
  BY <1>5, <1>6, <1>7, Zenon
<1>9. QED BY <1>2, <1>8, Zenon

(* A sum of naturals is a natural.                                         *)
LEMMA SumIsNatural ==
    ASSUME NEW f, NEW S, IsFiniteSet(S), \A x \in S : f[x] \in Nat
    PROVE  SumFunctionOnSet(f, S) \in Nat
<1>1. 0 \in Nat /\ \A a, b \in Nat : a + b \in Nat
  OBVIOUS
<1>2. QED BY <1>1, SumStaysIn, Zenon

(* A sum of integers is an integer.                                        *)
LEMMA SumIsInteger ==
    ASSUME NEW f, NEW S, IsFiniteSet(S), \A x \in S : f[x] \in Int
    PROVE  SumFunctionOnSet(f, S) \in Int
<1>1. 0 \in Int /\ \A a, b \in Int : a + b \in Int
  OBVIOUS
<1>2. QED BY <1>1, SumStaysIn, Zenon

(* A sum of zeros is zero.                                                 *)
LEMMA SumOfZeros ==
    ASSUME NEW f, NEW S, IsFiniteSet(S), \A x \in S : f[x] = 0
    PROVE  SumFunctionOnSet(f, S) = 0
<1> DEFINE D == {0}
<1>1. 0 \in D /\ (\A a, b \in D : a + b \in D) /\ (\A x \in S : f[x] \in D)
  OBVIOUS
<1>2. \A y \in D : y = 0
  BY Zenon
<1> HIDE DEF D
<1>3. SumFunctionOnSet(f, S) \in D
  BY <1>1, SumStaysIn, Zenon
<1> QED
  BY <1>2, <1>3, Zenon

(* Any element can be taken out of a sum, not only the chosen one.         *)
LEMMA SumWithout ==
    ASSUME NEW f, NEW S, IsFiniteSet(S), \A x \in S : f[x] \in Int, NEW x \in S
    PROVE  SumFunctionOnSet(f, S) = f[x] + SumFunctionOnSet(f, S \ {x})
<1> DEFINE B == {T \in SUBSET S : \E y \in T :
                    SumFunctionOnSet(f, T) # f[y] + SumFunctionOnSet(f, T \ {y})}
<1>1. SUFFICES ASSUME B # {} PROVE FALSE
  BY Zenon
<1>2. PICK T \in B : \A U \in B : ~(U \subseteq T /\ U # T)
  <2>1. B \subseteq SUBSET S
    BY Zenon
  <2> HIDE DEF B
  <2>2. QED BY <1>1, <2>1, MinimalSubset
<1>3. PICK y \in T : SumFunctionOnSet(f, T) # f[y] + SumFunctionOnSet(f, T \ {y})
  BY <1>2, Zenon
<1> DEFINE p == Pick(T)
           rest == T \ {p, y}
<1>4. IsFiniteSet(T) /\ IsFiniteSet(rest)
  BY <1>2, FS_Subset, Zenon
<1>5. p \in T
  BY <1>3, PickIsMember, Zenon
<1>6. SumFunctionOnSet(f, T) = f[p] + SumFunctionOnSet(f, T \ {p})
  BY <1>3, <1>4, SumPick, Zenon
<1>7. p # y
  BY <1>3, <1>6, Zenon
<1>8. /\ T \ {p} \notin B /\ T \ {y} \notin B
      /\ T \ {p} \in SUBSET S /\ T \ {y} \in SUBSET S
  <2> HIDE DEF B, p
  <2>1. /\ T \ {p} \subseteq T /\ T \ {p} # T
        /\ T \ {y} \subseteq T /\ T \ {y} # T
    BY <1>5, Zenon
  <2>2. T \in SUBSET S
    BY Zenon DEF B
  <2>3. QED BY <1>2, <2>1, <2>2, Zenon
<1>9. (T \ {p}) \ {y} = rest /\ (T \ {y}) \ {p} = rest
  BY Zenon
<1>10. y \in T \ {p} /\ p \in T \ {y}
  BY <1>5, <1>7, Zenon
<1>11. SumFunctionOnSet(f, T \ {p}) = f[y] + SumFunctionOnSet(f, rest)
  BY <1>8, <1>9, <1>10, Zenon
<1>12. SumFunctionOnSet(f, T \ {y}) = f[p] + SumFunctionOnSet(f, rest)
  BY <1>8, <1>9, <1>10, Zenon
<1>13. f[p] \in Int /\ f[y] \in Int /\ SumFunctionOnSet(f, rest) \in Int
  BY <1>2, <1>3, <1>4, <1>5, SumIsInteger, Zenon
<1> HIDE DEF p, rest
<1>14. QED BY <1>3, <1>6, <1>11, <1>12, <1>13

(* A sum of natural numbers is at least each of them.                      *)
LEMMA SumAtLeast ==
    ASSUME NEW f, NEW S, IsFiniteSet(S), \A x \in S : f[x] \in Nat, NEW x \in S
    PROVE  SumFunctionOnSet(f, S) >= f[x]
<1>1. IsFiniteSet(S \ {x}) /\ (\A y \in S : f[y] \in Int) /\ (\A y \in S \ {x} : f[y] \in Nat)
  BY FS_RemoveElement
<1>2. SumFunctionOnSet(f, S) = f[x] + SumFunctionOnSet(f, S \ {x})
  BY <1>1, SumWithout
<1>3. SumFunctionOnSet(f, S \ {x}) \in Nat
  BY <1>1, SumIsNatural, Zenon
<1> QED
  BY <1>2, <1>3

(* A sum depends only on the values at the elements.                       *)
LEMMA SumAgrees ==
    ASSUME NEW f, NEW g, NEW S, IsFiniteSet(S), \A x \in S : f[x] = g[x]
    PROVE  SumFunctionOnSet(f, S) = SumFunctionOnSet(g, S)
<1> DEFINE B == {T \in SUBSET S : SumFunctionOnSet(f, T) # SumFunctionOnSet(g, T)}
<1>1. SUFFICES ASSUME B # {} PROVE FALSE
  BY Zenon
<1>2. PICK T \in B : \A U \in B : ~(U \subseteq T /\ U # T)
  <2>1. B \subseteq SUBSET S
    BY Zenon
  <2> HIDE DEF B
  <2>2. QED BY <1>1, <2>1, MinimalSubset
<1>3. T # {} /\ IsFiniteSet(T)
  BY <1>2, SumEmpty, FS_Subset, Zenon
<1>4. Pick(T) \in T
  BY <1>3, PickIsMember, Zenon
<1>5. SumFunctionOnSet(f, T \ {Pick(T)}) = SumFunctionOnSet(g, T \ {Pick(T)})
  BY <1>2, <1>4
<1>6. SumFunctionOnSet(f, T) = f[Pick(T)] + SumFunctionOnSet(f, T \ {Pick(T)})
  BY <1>3, SumPick, Zenon
<1>7. SumFunctionOnSet(g, T) = g[Pick(T)] + SumFunctionOnSet(g, T \ {Pick(T)})
  BY <1>3, SumPick, Zenon
<1>8. f[Pick(T)] = g[Pick(T)]
  BY <1>2, <1>4, Zenon
<1>9. QED BY <1>2, <1>5, <1>6, <1>7, <1>8, Zenon

(* An element that is put in adds its value.                               *)
LEMMA SumInserted ==
    ASSUME NEW f, NEW S, IsFiniteSet(S), NEW x, x \notin S,
           \A y \in S \cup {x} : f[y] \in Int
    PROVE  SumFunctionOnSet(f, S \cup {x}) = SumFunctionOnSet(f, S) + f[x]
<1>1. IsFiniteSet(S \cup {x}) /\ (S \cup {x}) \ {x} = S
  BY FS_AddElement, Zenon
<1>2. SumFunctionOnSet(f, S \cup {x}) = f[x] + SumFunctionOnSet(f, S)
  BY <1>1, SumWithout
<1>3. SumFunctionOnSet(f, S) \in Int /\ f[x] \in Int
  BY SumIsInteger, Zenon
<1>4. QED BY <1>2, <1>3

(* Changing the value at one element changes the sum by the difference.    *)
LEMMA SumAtPoint ==
    ASSUME NEW f, NEW g, NEW S, IsFiniteSet(S), NEW x \in S,
           \A y \in S : f[y] \in Int /\ g[y] \in Int,
           \A y \in S \ {x} : f[y] = g[y]
    PROVE  SumFunctionOnSet(g, S) = SumFunctionOnSet(f, S) - f[x] + g[x]
<1>1. IsFiniteSet(S \ {x})
  BY FS_RemoveElement, Zenon
<1>2. SumFunctionOnSet(f, S \ {x}) = SumFunctionOnSet(g, S \ {x})
  BY <1>1, SumAgrees, Zenon
<1>3. SumFunctionOnSet(f, S) = f[x] + SumFunctionOnSet(f, S \ {x})
  BY SumWithout
<1>4. SumFunctionOnSet(g, S) = g[x] + SumFunctionOnSet(g, S \ {x})
  BY SumWithout
<1>5. SumFunctionOnSet(f, S \ {x}) \in Int /\ f[x] \in Int /\ g[x] \in Int
  BY <1>1, SumIsInteger, Zenon
<1>6. QED BY <1>2, <1>3, <1>4, <1>5

(* The sum of sums.                                                        *)
LEMMA SumPlus ==
    ASSUME NEW f, NEW g, NEW h, NEW S, IsFiniteSet(S),
           \A x \in S : f[x] \in Int /\ g[x] \in Int /\ h[x] = f[x] + g[x]
    PROVE  SumFunctionOnSet(h, S) = SumFunctionOnSet(f, S) + SumFunctionOnSet(g, S)
<1> DEFINE B == {T \in SUBSET S :
                    SumFunctionOnSet(h, T) # SumFunctionOnSet(f, T) + SumFunctionOnSet(g, T)}
<1>1. SUFFICES ASSUME B # {} PROVE FALSE
  BY Zenon
<1>2. PICK T \in B : \A U \in B : ~(U \subseteq T /\ U # T)
  <2>1. B \subseteq SUBSET S
    BY Zenon
  <2> HIDE DEF B
  <2>2. QED BY <1>1, <2>1, MinimalSubset
<1>3. T # {} /\ IsFiniteSet(T)
  <2>1. T \in SUBSET S
        /\ SumFunctionOnSet(h, T) # SumFunctionOnSet(f, T) + SumFunctionOnSet(g, T)
    BY <1>2, Zenon
  <2>2. IsFiniteSet(T)
    BY <2>1, FS_Subset, Zenon
  <2>3. /\ SumFunctionOnSet(h, {}) = 0 /\ SumFunctionOnSet(f, {}) = 0
        /\ SumFunctionOnSet(g, {}) = 0
    BY SumEmpty, Zenon
  <2>4. ASSUME T = {} PROVE FALSE
    <3>1. SumFunctionOnSet(h, {}) # SumFunctionOnSet(f, {}) + SumFunctionOnSet(g, {})
      BY <2>1, <2>4, Zenon
    <3>2. 0 # 0 + 0
      BY <2>3, <3>1, Zenon
    <3>3. QED BY <3>2
  <2>5. QED BY <2>2, <2>4, Zenon
<1> DEFINE p == Pick(T)
           R == T \ {p}
<1>4. p \in T /\ p \in S
  BY <1>2, <1>3, PickIsMember, Zenon
<1>5. SumFunctionOnSet(h, R) = SumFunctionOnSet(f, R) + SumFunctionOnSet(g, R)
  BY <1>2, <1>4
<1>6. /\ SumFunctionOnSet(h, T) = h[p] + SumFunctionOnSet(h, R)
      /\ SumFunctionOnSet(f, T) = f[p] + SumFunctionOnSet(f, R)
      /\ SumFunctionOnSet(g, T) = g[p] + SumFunctionOnSet(g, R)
  BY <1>3, SumPick, Zenon
<1>7. IsFiniteSet(R) /\ \A x \in R : f[x] \in Int /\ g[x] \in Int
  BY <1>2, <1>3, FS_Subset, Zenon
<1>8. SumFunctionOnSet(h, T) # SumFunctionOnSet(f, T) + SumFunctionOnSet(g, T)
  BY <1>2, Zenon
<1>9. f[p] \in Int /\ g[p] \in Int /\ h[p] = f[p] + g[p]
  BY <1>4, Zenon
<1> HIDE DEF p, R
<1>10. SumFunctionOnSet(f, R) \in Int /\ SumFunctionOnSet(g, R) \in Int
  BY <1>7, SumIsInteger, Zenon
<1>11. QED BY <1>5, <1>6, <1>8, <1>9, <1>10

(* The sum over a disjoint union.                                          *)
LEMMA SumUnion ==
    ASSUME NEW f, NEW S, NEW R, IsFiniteSet(S), IsFiniteSet(R), S \cap R = {},
           \A x \in S \cup R : f[x] \in Int
    PROVE  SumFunctionOnSet(f, S \cup R) = SumFunctionOnSet(f, S) + SumFunctionOnSet(f, R)
<1> DEFINE B == {T \in SUBSET S :
                    SumFunctionOnSet(f, T \cup R) # SumFunctionOnSet(f, T) + SumFunctionOnSet(f, R)}
<1>1. SUFFICES ASSUME B # {} PROVE FALSE
  BY Zenon
<1>2. PICK T \in B : \A U \in B : ~(U \subseteq T /\ U # T)
  <2>1. B \subseteq SUBSET S
    BY Zenon
  <2> HIDE DEF B
  <2>2. QED BY <1>1, <2>1, MinimalSubset
<1>3. IsFiniteSet(T) /\ IsFiniteSet(T \cup R)
  BY <1>2, FS_Subset, FS_Union, Zenon
<1>4. SumFunctionOnSet(f, R) \in Int
  BY SumIsInteger, Zenon
<1>5. T # {}
  <2>1. {} \cup R = R
    BY Zenon
  <2>2. SumFunctionOnSet(f, {} \cup R) = SumFunctionOnSet(f, {}) + SumFunctionOnSet(f, R)
    BY <1>4, <2>1, SumEmpty
  <2>3. QED BY <1>2, <2>2, Zenon
<1>6. PICK p \in T : TRUE
  BY <1>5, Zenon
<1> DEFINE rest == T \ {p}
<1>7. /\ IsFiniteSet(rest) /\ IsFiniteSet(rest \cup R)
      /\ p \in T \cup R /\ (T \cup R) \ {p} = rest \cup R
  <2>1. rest \in SUBSET T
    BY Zenon
  <2>2. p \notin R
    BY <1>2, Zenon
  <2>3. QED BY <1>3, <2>1, <2>2, FS_Subset, FS_Union, Zenon
<1>8. SumFunctionOnSet(f, rest \cup R) = SumFunctionOnSet(f, rest) + SumFunctionOnSet(f, R)
  <2>1. rest \in SUBSET S /\ rest \subseteq T /\ rest # T
    BY <1>2, Zenon
  <2>2. QED BY <1>2, <2>1, Zenon
<1>9. SumFunctionOnSet(f, T) = f[p] + SumFunctionOnSet(f, rest)
  BY <1>2, <1>3, SumWithout
<1>10. SumFunctionOnSet(f, T \cup R) = f[p] + SumFunctionOnSet(f, rest \cup R)
  BY <1>2, <1>3, <1>7, SumWithout
<1>11. f[p] \in Int /\ SumFunctionOnSet(f, rest) \in Int
  BY <1>2, <1>7, SumIsInteger, Zenon
<1>12. SumFunctionOnSet(f, T \cup R) # SumFunctionOnSet(f, T) + SumFunctionOnSet(f, R)
  BY <1>2, Zenon
<1> HIDE DEF rest
<1>13. QED BY <1>4, <1>8, <1>9, <1>10, <1>11, <1>12

(* Renaming the elements one to one does not change a sum.                 *)
LEMMA SumReindexed ==
    ASSUME NEW f, NEW g, NEW S, IsFiniteSet(S), NEW R, NEW b,
           \A x, y \in S : b[x] = b[y] => x = y,
           R = {b[x] : x \in S},
           \A x \in S : f[b[x]] \in Int /\ g[x] = f[b[x]]
    PROVE  SumFunctionOnSet(g, S) = SumFunctionOnSet(f, R)
<1> DEFINE Im(T) == {b[x] : x \in T}
           B == {T \in SUBSET S : SumFunctionOnSet(g, T) # SumFunctionOnSet(f, Im(T))}
<1>1. SUFFICES ASSUME B # {} PROVE FALSE
  BY Zenon
<1>2. PICK T \in B : \A U \in B : ~(U \subseteq T /\ U # T)
  <2>1. B \subseteq SUBSET S
    BY Zenon
  <2> HIDE DEF B
  <2>2. QED BY <1>1, <2>1, MinimalSubset
<1>3. IsFiniteSet(T)
  BY <1>2, FS_Subset, Zenon
<1>4. T # {}
  <2>1. Im({}) = {}
    BY Zenon
  <2>2. SumFunctionOnSet(g, {}) = SumFunctionOnSet(f, Im({}))
    BY <2>1, SumEmpty, Zenon
  <2>3. QED BY <1>2, <2>2, Zenon
<1>5. PICK p \in T : TRUE
  BY <1>4, Zenon
<1> DEFINE rest == T \ {p}
<1>6. IsFiniteSet(rest) /\ IsFiniteSet(Im(rest))
  <2>1. IsFiniteSet(rest)
    BY <1>3, FS_RemoveElement, Zenon
  <2> DEFINE h == [x \in rest |-> b[x]]
  <2>2. h \in Surjection(rest, Im(rest))
    BY Zenon DEF Surjection
  <2>3. QED BY <2>1, <2>2, FS_Surjection, Zenon
<1>7. SumFunctionOnSet(g, rest) = SumFunctionOnSet(f, Im(rest))
  <2>1. rest \in SUBSET S /\ rest \subseteq T /\ rest # T
    BY <1>2, Zenon
  <2>2. QED BY <1>2, <2>1, Zenon
<1>8. Im(T) = Im(rest) \cup {b[p]} /\ b[p] \notin Im(rest)
  BY <1>2
<1>9. \A y \in Im(rest) \cup {b[p]} : f[y] \in Int
  BY <1>2
<1>10. SumFunctionOnSet(f, Im(T)) = SumFunctionOnSet(f, Im(rest)) + f[b[p]]
  <2> DEFINE J == Im(rest)
             q == b[p]
  <2>1. /\ IsFiniteSet(J) /\ q \notin J /\ Im(T) = J \cup {q}
        /\ \A y \in J \cup {q} : f[y] \in Int
    BY <1>6, <1>8, <1>9, Zenon
  <2> HIDE DEF J, q
  <2>2. SumFunctionOnSet(f, J \cup {q}) = SumFunctionOnSet(f, J) + f[q]
    BY <2>1, SumInserted
  <2>3. QED BY <2>1, <2>2, Zenon DEF J, q
<1>11. SumFunctionOnSet(g, T) = g[p] + SumFunctionOnSet(g, rest)
  BY <1>2, <1>3, SumWithout
<1>12. SumFunctionOnSet(g, rest) \in Int
  BY <1>2, <1>6, SumIsInteger, Zenon
<1>13. g[p] = f[b[p]] /\ f[b[p]] \in Int
  BY <1>2, Zenon
<1>14. SumFunctionOnSet(g, T) # SumFunctionOnSet(f, Im(T))
  BY <1>2, Zenon
<1> HIDE DEF rest, Im
<1>15. QED BY <1>7, <1>10, <1>11, <1>12, <1>13, <1>14

-----------------------------------------------------------------------------

(* What stands where in a concatenation of two sequences.                  *)
LEMMA JoinedSeq ==
    ASSUME NEW T, NEW s \in Seq(T), NEW t \in Seq(T)
    PROVE  /\ Len(s \o t) = Len(s) + Len(t) /\ s \o t \in Seq(T)
           /\ \A i \in 1..(Len(s) + Len(t)) :
                (s \o t)[i] = IF i <= Len(s) THEN s[i] ELSE t[i - Len(s)]
OBVIOUS

(* What stands where in a sequence with one more element.                  *)
LEMMA ExtendedSeq ==
    ASSUME NEW T, NEW s \in Seq(T), NEW x \in T
    PROVE  /\ Len(Append(s, x)) = Len(s) + 1 /\ Append(s, x) \in Seq(T)
           /\ Append(s, x)[Len(s) + 1] = x /\ \A i \in 1..Len(s) : Append(s, x)[i] = s[i]
OBVIOUS

(* What stands where in a sequence with one element replaced.              *)
LEMMA UpdatedSeq ==
    ASSUME NEW T, NEW s \in Seq(T), NEW k \in 1..Len(s), NEW x \in T
    PROVE  LET t == [s EXCEPT ![k] = x]
           IN  /\ Len(t) = Len(s) /\ t \in Seq(T)
               /\ \A i \in 1..Len(s) : t[i] = IF i = k THEN x ELSE s[i]
OBVIOUS

(* A sequence that is cut in two is the concatenation of its parts.        *)
LEMMA SplitAndJoined ==
    ASSUME NEW T, NEW s \in Seq(T), NEW n \in 0..Len(s)
    PROVE  s = SubSeq(s, 1, n) \o SubSeq(s, n + 1, Len(s))
<1> DEFINE a == SubSeq(s, 1, n)
           b == SubSeq(s, n + 1, Len(s))
           c == a \o b
<1>1. /\ a \in Seq(T) /\ Len(a) = n /\ \A i \in 1..n : a[i] = s[i]
      /\ b \in Seq(T) /\ Len(b) = Len(s) - n
      /\ \A i \in 1..(Len(s) - n) : b[i] = s[i + n]
      /\ Len(s) \in Nat /\ n \in Nat
  OBVIOUS
<1> HIDE DEF a, b
<1>2. c \in Seq(T) /\ Len(c) = Len(s) /\ \A i \in 1..Len(s) : c[i] = s[i]
  <2>1. /\ c \in Seq(T) /\ Len(c) = Len(a) + Len(b)
        /\ \A i \in 1..(Len(a) + Len(b)) : c[i] = IF i <= Len(a) THEN a[i] ELSE b[i - Len(a)]
    BY <1>1, JoinedSeq
  <2>2. Len(a) + Len(b) = Len(s)
    BY <1>1
  <2>3. ASSUME NEW i \in 1..Len(s) PROVE c[i] = s[i]
    <3> HIDE DEF c
    <3>1. CASE i <= n
      BY <1>1, <2>1, <2>2, <3>1
    <3>2. CASE ~(i <= n)
      <4>1. i - n \in 1..(Len(s) - n) /\ (i - n) + n = i
        BY <1>1, <3>2
      <4> QED BY <1>1, <2>1, <2>2, <3>2, <4>1
    <3> QED BY <3>1, <3>2, Zenon
  <2> QED BY <2>1, <2>2, <2>3, Zenon
<1> HIDE DEF c
<1>3. s = c
  BY <1>2
<1> QED BY <1>3, Zenon DEF a, b, c

(* The total of a concatenation of sequences.                              *)
LEMMA TotalOfConcatenation ==
    ASSUME NEW s \in Seq(Int), NEW t \in Seq(Int)
    PROVE  SumFunction(s \o t) = SumFunction(s) + SumFunction(t)
<1> DEFINE n == Len(s)
           m == Len(t)
           b == [i \in 1..m |-> i + n]
           c == s \o t
<1>1. /\ n \in Nat /\ m \in Nat
      /\ DOMAIN s = 1..n /\ DOMAIN t = 1..m /\ DOMAIN c = 1..(n + m)
  OBVIOUS
<1>2. \A i \in 1..n : c[i] = s[i] /\ s[i] \in Int
  OBVIOUS
<1>3. \A i \in 1..m : c[i + n] = t[i] /\ t[i] \in Int
  OBVIOUS
<1>4. /\ IsFiniteSet(1..n) /\ IsFiniteSet(1..m) /\ IsFiniteSet((n+1)..(n+m))
  BY <1>1, FS_Interval
<1>5. {b[i] : i \in 1..m} = (n+1)..(n+m)
  <2>1. ASSUME NEW k \in (n+1)..(n+m) PROVE k - n \in 1..m /\ k = b[k - n]
    BY <1>1
  <2>2. ASSUME NEW i \in 1..m PROVE b[i] \in (n+1)..(n+m)
    BY <1>1
  <2> HIDE DEF b
  <2>3. QED BY <2>1, <2>2, Zenon
<1> HIDE DEF n, m, c
<1>6. SumFunctionOnSet(c, 1..n) = SumFunctionOnSet(s, 1..n)
  BY <1>2, <1>4, SumAgrees, Zenon
<1>7. SumFunctionOnSet(t, 1..m) = SumFunctionOnSet(c, (n+1)..(n+m))
  <2>1. \A x, y \in 1..m : b[x] = b[y] => x = y
    BY <1>1
  <2>2. \A x \in 1..m : c[b[x]] \in Int /\ t[x] = c[b[x]]
    BY <1>3, Zenon
  <2> DEFINE I == 1..m
             J == (n+1)..(n+m)
  <2>3. /\ IsFiniteSet(I) /\ J = {b[i] : i \in I}
        /\ \A x, y \in I : b[x] = b[y] => x = y
        /\ \A x \in I : c[b[x]] \in Int /\ t[x] = c[b[x]]
    BY <1>4, <1>5, <2>1, <2>2, Zenon
  <2> HIDE DEF b, I, J
  <2>4. SumFunctionOnSet(t, I) = SumFunctionOnSet(c, J)
    BY <2>3, SumReindexed
  <2>5. QED BY <2>4, Zenon DEF I, J
<1>8. /\ 1..(n + m) = (1..n) \cup ((n+1)..(n+m))
      /\ (1..n) \cap ((n+1)..(n+m)) = {}
  BY <1>1
<1>9. \A i \in (1..n) \cup ((n+1)..(n+m)) : c[i] \in Int
  <2>1. ASSUME NEW i \in (n+1)..(n+m) PROVE c[i] \in Int
    <3>1. i - n \in 1..m /\ (i - n) + n = i
      BY <1>1
    <3>2. QED BY <1>3, <3>1, Zenon
  <2>2. QED BY <1>2, <2>1, Zenon
<1>10. SumFunctionOnSet(c, 1..(n + m)) =
         SumFunctionOnSet(c, 1..n) + SumFunctionOnSet(c, (n+1)..(n+m))
  <2> DEFINE I == 1..n
             J == (n+1)..(n+m)
  <2>1. /\ IsFiniteSet(I) /\ IsFiniteSet(J) /\ I \cap J = {}
        /\ \A i \in I \cup J : c[i] \in Int
    BY <1>4, <1>8, <1>9, Zenon
  <2>2. 1..(n + m) = I \cup J
    BY <1>8, Zenon
  <2> HIDE DEF I, J
  <2>3. SumFunctionOnSet(c, I \cup J) = SumFunctionOnSet(c, I) + SumFunctionOnSet(c, J)
    BY <2>1, SumUnion, Zenon
  <2>4. QED BY <2>2, <2>3, Zenon DEF I, J
<1>11. QED BY <1>1, <1>6, <1>7, <1>10, Zenon DEF SumFunction, c

(* The total of a sequence that is cut in two.                             *)
LEMMA TotalOfSplit ==
    ASSUME NEW s \in Seq(Int), NEW n \in 0..Len(s)
    PROVE  SumFunction(s) = SumFunction(SubSeq(s, 1, n)) + SumFunction(SubSeq(s, n + 1, Len(s)))
<1>1. /\ SubSeq(s, 1, n) \in Seq(Int) /\ SubSeq(s, n + 1, Len(s)) \in Seq(Int)
      /\ Len(SubSeq(s, 1, n)) = n /\ Len(SubSeq(s, n + 1, Len(s))) = Len(s) - n
  OBVIOUS
<1>2. s = SubSeq(s, 1, n) \o SubSeq(s, n + 1, Len(s))
  BY SplitAndJoined, Zenon
<1>3. QED BY <1>1, <1>2, TotalOfConcatenation, Zenon

(* The total of a sequence of naturals is a natural.                       *)
LEMMA TotalIsNatural ==
    ASSUME NEW s \in Seq(Nat)
    PROVE  SumFunction(s) \in Nat
<1>1. DOMAIN s = 1..Len(s) /\ Len(s) \in Nat /\ \A i \in 1..Len(s) : s[i] \in Nat
  OBVIOUS
<1>2. IsFiniteSet(DOMAIN s)
  BY <1>1, FS_Interval
<1>3. QED BY <1>1, <1>2, SumIsNatural, Zenon DEF SumFunction
=============================================================================
