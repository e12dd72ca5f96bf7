---------------------------- MODULE Sums_proofs ----------------------------
(***************************************************************************)
(* Sums over finite sets, SumFunctionOnSet and SumFunction of the module   *)
(* Functions, for every finite set and all values: what the totals of the  *)
(* ledger and of the vault are made of.                                    *)
(*                                                                         *)
(* A fold is the value of a table of partial folds, a recursive function   *)
(* on the subsets of its set. The induction that shows that the table      *)
(* exists, and every induction after it, is over the subsets of a finite   *)
(* set with the property given as a set of subsets, so that it follows     *)
(* from the existence of minimal elements (WFMin) by first-order logic.    *)
(* The last section does the same for folds and recursions of any kind,    *)
(* with their steps given as functions.                                    *)
(***************************************************************************)
EXTENDS Integers, FiniteSets, Functions, FiniteSetTheorems, WellFoundedInduction, TLAPS

\* The element of s that a fold takes off first.
Pick(s) == CHOOSE x \in s : TRUE

\* The element that a fold takes off first is one of the set.
LEMMA PickIn ==
    ASSUME NEW s, s # {}
    PROVE  Pick(s) \in s
  BY DEF Pick

\* Induction over the subsets of a finite set, smaller ones first. The property
\* is given as a set.
LEMMA StrongInduction ==
    ASSUME NEW S, IsFiniteSet(S), NEW P,
           \A s \in SUBSET S : (\A t \in SUBSET s : t # s => t \in P) => s \in P
    PROVE  \A s \in SUBSET S : s \in P
  <1> SUFFICES ASSUME \E s \in SUBSET S : s \notin P PROVE FALSE
    OBVIOUS
  <1> DEFINE R == StrictSubsetOrdering(S)
             T == {s \in SUBSET S : s \notin P}
  <1>1. IsWellFoundedOn(R, SUBSET S)
    <2>1. IsWellFoundedOn(StrictSubsetOrdering(S), FiniteSubsetsOf(S))
      BY FS_StrictSubsetOrderingWellFounded
    <2>2. FiniteSubsetsOf(S) = SUBSET S
      BY FS_FiniteSubsetsOfFinite
    <2> QED
      BY <2>1, <2>2
  <1>2. T \subseteq SUBSET S /\ T # {}
    OBVIOUS
  <1> HIDE DEF T, R
  <1>3. PICK s \in T : \A t \in T : ~(<<t, s>> \in R)
    BY <1>1, <1>2, WFMin
  <1>4. s \in SUBSET S /\ s \notin P
    BY <1>3 DEF T
  <1>5. PICK t \in SUBSET s : t # s /\ t \notin P
    BY <1>4
  <1>6. t \in T /\ <<t, s>> \in R
    BY <1>4, <1>5 DEF T, R, StrictSubsetOrdering
  <1> QED
    BY <1>3, <1>6

\* Induction over the subsets of a finite set, one element at a time.
LEMMA FiniteInduction ==
    ASSUME NEW S, IsFiniteSet(S), NEW P,
           {} \in P,
           \A s \in SUBSET S : s # {} /\ s \ {Pick(s)} \in P => s \in P
    PROVE  \A s \in SUBSET S : s \in P
  <1>1. ASSUME NEW s \in SUBSET S, \A t \in SUBSET s : t # s => t \in P
        PROVE  s \in P
    <2>1. CASE s = {}
      BY <2>1
    <2>2. CASE s # {}
      <3>1. s \ {Pick(s)} \in SUBSET s /\ s \ {Pick(s)} # s
        BY <2>2, PickIn
      <3> QED
        BY <1>1, <2>2, <3>1
    <2> QED
      BY <2>1, <2>2
  <1> QED
    BY <1>1, StrongInduction

\* g holds the sum of f over every subset of S.
SumTable(f, S, g) ==
    g = [s \in SUBSET S |-> IF s = {} THEN 0 ELSE f[Pick(s)] + g[s \ {Pick(s)}]]

\* Tables of a set and of a part of it agree.
LEMMA TableUnique ==
    ASSUME NEW f, NEW S, NEW g, SumTable(f, S, g),
           NEW U \in SUBSET S, NEW h, SumTable(f, U, h), IsFiniteSet(S)
    PROVE  \A s \in SUBSET U : g[s] = h[s]
  <1> DEFINE P == {s \in SUBSET U : g[s] = h[s]}
  <1>1. {} \in P
    <2>1. g[{}] = 0 
      BY DEF SumTable
    <2>2. h[{}] = 0 
      BY DEF SumTable
    <2> QED
      BY <2>1, <2>2
  <1>2. ASSUME NEW s \in SUBSET U, s # {}, s \ {Pick(s)} \in P
        PROVE  s \in P
    <2>1. g[s] = f[Pick(s)] + g[s \ {Pick(s)}]
      BY <1>2 DEF SumTable
    <2>2. h[s] = f[Pick(s)] + h[s \ {Pick(s)}]
      BY <1>2 DEF SumTable
    <2> QED
      BY <1>2, <2>1, <2>2
  <1>3. IsFiniteSet(U)
    BY FS_Subset
  <1> HIDE DEF P
  <1>4. \A s \in SUBSET U : s \in P
    BY <1>1, <1>2, <1>3, FiniteInduction
  <1> QED
    BY <1>4 DEF P

\* A sum is an entry of a table.
LEMMA SumDef ==
    ASSUME NEW f, NEW S
    PROVE  SumFunctionOnSet(f, S) = (CHOOSE g : SumTable(f, S, g))[S]
  BY DEF SumFunctionOnSet, FoldFunctionOnSet, MapThenFoldSet, SumTable, Pick

\* Every finite set has a table of sums.
LEMMA TableExists ==
    ASSUME NEW f, NEW S, IsFiniteSet(S)
    PROVE  \E g : SumTable(f, S, g)
  <1> DEFINE P == {s \in SUBSET S : \E g : SumTable(f, s, g)}
             T(t) == CHOOSE g : SumTable(f, t, g)
             G(t) == T(t)[t]
  <1>1. ASSUME NEW s \in SUBSET S, \A t \in SUBSET s : t # s => t \in P
        PROVE  s \in P
    <2> DEFINE h == [t \in SUBSET s |->
                       IF t = {} THEN 0 ELSE f[Pick(t)] + G(t \ {Pick(t)})]
    <2>1. ASSUME NEW t \in SUBSET s, t # s
          PROVE  SumTable(f, t, T(t))
      BY <1>1, <2>1
    <2>2. ASSUME NEW t \in SUBSET s, t # s
          PROVE  h[t] = G(t)
      <3>1. SumTable(f, t, T(t)) /\ IsFiniteSet(t)
        BY <2>1, <2>2, FS_Subset
      <3>2. CASE t = {}
        <4>1. T(t)[t] = 0
          BY <3>1, <3>2 DEF SumTable
        <4> QED
          BY <3>2, <4>1
      <3>3. CASE t # {}
        <4> DEFINE u == t \ {Pick(t)}
        <4>1. u \in SUBSET t /\ u # s
          BY <2>2, <3>3, PickIn
        <4>2. SumTable(f, u, T(u))
          BY <2>1, <4>1
        <4>3. T(t)[u] = T(u)[u]
          BY <3>1, <4>1, <4>2, TableUnique
        <4>4. T(t)[t] = f[Pick(t)] + T(t)[u]
          BY <3>1, <3>3 DEF SumTable
        <4> QED
          BY <3>3, <4>3, <4>4
      <3> QED
        BY <3>2, <3>3
    <2>3. ASSUME NEW t \in SUBSET s, t # {}
          PROVE  t \ {Pick(t)} \in SUBSET s /\ t \ {Pick(t)} # s
      BY <2>3, PickIn
    <2>4. SumTable(f, s, h)
      <3> HIDE DEF G, T
      <3>1. h = [t \in SUBSET s |->
                   IF t = {} THEN 0 ELSE f[Pick(t)] + h[t \ {Pick(t)}]]
        BY <2>2, <2>3
      <3> HIDE DEF h
      <3> QED
        BY <3>1 DEF SumTable
    <2> QED
      BY <2>4
  <1> HIDE DEF P
  <1>2. \A s \in SUBSET S : s \in P
    BY <1>1, StrongInduction
  <1> QED
    BY <1>2 DEF P

\* The sum over no element.
LEMMA SumEmpty ==
    ASSUME NEW f
    PROVE  SumFunctionOnSet(f, {}) = 0
  <1>1. \E g : SumTable(f, {}, g)
    BY TableExists, FS_EmptySet
  <1>2. SumTable(f, {}, CHOOSE g : SumTable(f, {}, g))
    BY <1>1
  <1>3. (CHOOSE g : SumTable(f, {}, g))[{}] = 0
    BY <1>2 DEF SumTable
  <1> QED
    BY <1>3, SumDef

\* The sum over a set, by the element that the fold takes off first.
LEMMA SumPick ==
    ASSUME NEW f, NEW S, IsFiniteSet(S), S # {}
    PROVE  SumFunctionOnSet(f, S)
             = f[Pick(S)] + SumFunctionOnSet(f, S \ {Pick(S)})
  <1> DEFINE T(t) == CHOOSE g : SumTable(f, t, g)
             U == S \ {Pick(S)}
  <1>1. IsFiniteSet(U) /\ U \in SUBSET S
    BY FS_Subset
  <1>2. SumTable(f, S, T(S)) /\ SumTable(f, U, T(U))
    BY <1>1, TableExists
  <1>3. T(S)[U] = T(U)[U]
    BY <1>1, <1>2, TableUnique
  <1>4. T(S)[S] = f[Pick(S)] + T(S)[U]
    BY <1>2 DEF SumTable
  <1> QED
    BY <1>3, <1>4, SumDef

IntOn(f, S) == \A x \in S : f[x] \in Int
NatOn(f, S) == \A x \in S : f[x] \in Nat

\* A sum of integers is an integer.
LEMMA SumInt ==
    ASSUME NEW f, NEW S, IsFiniteSet(S), IntOn(f, S)
    PROVE  \A s \in SUBSET S : SumFunctionOnSet(f, s) \in Int
  <1> DEFINE P == {s \in SUBSET S : SumFunctionOnSet(f, s) \in Int}
  <1>1. {} \in P
    BY SumEmpty
  <1>2. ASSUME NEW s \in SUBSET S, s # {}, s \ {Pick(s)} \in P
        PROVE  s \in P
    <2>1. IsFiniteSet(s) /\ f[Pick(s)] \in Int
      BY <1>2, PickIn, FS_Subset DEF IntOn
    <2>2. SumFunctionOnSet(f, s) = f[Pick(s)] + SumFunctionOnSet(f, s \ {Pick(s)})
      BY <1>2, <2>1, SumPick
    <2> QED
      BY <1>2, <2>1, <2>2
  <1> HIDE DEF P
  <1>3. \A s \in SUBSET S : s \in P
    BY <1>1, <1>2, FiniteInduction
  <1> QED
    BY <1>3 DEF P

\* Any element of the set can be added first.
LEMMA SumRemove ==
    ASSUME NEW f, NEW S, IsFiniteSet(S), IntOn(f, S), NEW x \in S
    PROVE  /\ SumFunctionOnSet(f, S) = f[x] + SumFunctionOnSet(f, S \ {x})
           /\ SumFunctionOnSet(f, S \ {x}) \in Int
  <1> DEFINE P == {s \in SUBSET S : \A y \in s :
                     SumFunctionOnSet(f, s) = f[y] + SumFunctionOnSet(f, s \ {y})}
  <1>1. ASSUME NEW s \in SUBSET S, \A t \in SUBSET s : t # s => t \in P, NEW y \in s
        PROVE  SumFunctionOnSet(f, s) = f[y] + SumFunctionOnSet(f, s \ {y})
    <2> DEFINE p == Pick(s)
    <2>1. IsFiniteSet(s) /\ p \in s
      BY PickIn, FS_Subset
    <2>2. SumFunctionOnSet(f, s) = f[p] + SumFunctionOnSet(f, s \ {p})
      BY <2>1, SumPick
    <2> HIDE DEF p
    <2>3. CASE y = p
      BY <2>2, <2>3
    <2>4. CASE y # p
      <3> DEFINE r == SumFunctionOnSet(f, (s \ {p}) \ {y})
      <3>1. SumFunctionOnSet(f, s \ {p}) = f[y] + r
        BY <1>1, <2>1, <2>4
      <3>2. (s \ {p}) \ {y} = (s \ {y}) \ {p}
        OBVIOUS
      <3>3. SumFunctionOnSet(f, s \ {y}) = f[p] + r
        <4>1. s \ {y} \in P /\ p \in s \ {y}
          BY <1>1, <2>1, <2>4
        <4> QED
          BY <3>2, <4>1
      <3>4. f[p] \in Int /\ f[y] \in Int
        BY <2>1 DEF IntOn
      <3>5. r \in Int
        <4>1. (s \ {p}) \ {y} \in SUBSET S
          OBVIOUS
        <4> QED
          BY <4>1, SumInt
      <3> HIDE DEF r
      <3> QED
        BY <2>2, <3>1, <3>3, <3>4, <3>5
    <2> QED
      BY <2>3, <2>4
  <1>2. \A s \in SUBSET S : (\A t \in SUBSET s : t # s => t \in P) => s \in P
    BY <1>1
  <1> HIDE DEF P
  <1>3. \A s \in SUBSET S : s \in P
    BY <1>2, StrongInduction
  <1> QED
    BY <1>3, SumInt DEF P

\* A sum depends on the values on its set only.
LEMMA SumSame ==
    ASSUME NEW f, NEW g, NEW S, IsFiniteSet(S), \A x \in S : f[x] = g[x]
    PROVE  SumFunctionOnSet(f, S) = SumFunctionOnSet(g, S)
  <1> DEFINE P == {s \in SUBSET S : SumFunctionOnSet(f, s) = SumFunctionOnSet(g, s)}
  <1>1. {} \in P
    BY SumEmpty
  <1>2. ASSUME NEW s \in SUBSET S, s # {}, s \ {Pick(s)} \in P
        PROVE  s \in P
    <2>1. IsFiniteSet(s) /\ f[Pick(s)] = g[Pick(s)]
      BY <1>2, PickIn, FS_Subset
    <2>2. /\ SumFunctionOnSet(f, s) = f[Pick(s)] + SumFunctionOnSet(f, s \ {Pick(s)})
          /\ SumFunctionOnSet(g, s) = g[Pick(s)] + SumFunctionOnSet(g, s \ {Pick(s)})
      BY <1>2, <2>1, SumPick
    <2> QED
      BY <1>2, <2>1, <2>2
  <1> HIDE DEF P
  <1>3. \A s \in SUBSET S : s \in P
    BY <1>1, <1>2, FiniteInduction
  <1> QED
    BY <1>3 DEF P

\* A change of one value changes the sum by the difference.
LEMMA SumChange ==
    ASSUME NEW f, NEW g, NEW S, IsFiniteSet(S), IntOn(f, S), IntOn(g, S),
           NEW x \in S, \A y \in S : y # x => f[y] = g[y]
    PROVE  SumFunctionOnSet(g, S) = SumFunctionOnSet(f, S) - f[x] + g[x]
  <1>1. IsFiniteSet(S \ {x})
    BY FS_Subset
  <1>2. SumFunctionOnSet(f, S \ {x}) = SumFunctionOnSet(g, S \ {x})
    BY <1>1, SumSame
  <1>3. /\ SumFunctionOnSet(f, S) = f[x] + SumFunctionOnSet(f, S \ {x})
        /\ SumFunctionOnSet(f, S \ {x}) \in Int
    BY SumRemove
  <1>4. SumFunctionOnSet(g, S) = g[x] + SumFunctionOnSet(g, S \ {x})
    BY SumRemove
  <1>5. f[x] \in Int /\ g[x] \in Int
    BY DEF IntOn
  <1> QED
    BY <1>2, <1>3, <1>4, <1>5

\* Larger values have a larger sum.
LEMMA SumMonotone ==
    ASSUME NEW f, NEW g, NEW S, IsFiniteSet(S), IntOn(f, S), IntOn(g, S),
           \A x \in S : f[x] <= g[x]
    PROVE  SumFunctionOnSet(f, S) <= SumFunctionOnSet(g, S)
  <1> DEFINE P == {s \in SUBSET S : SumFunctionOnSet(f, s) <= SumFunctionOnSet(g, s)}
  <1>1. {} \in P
    BY SumEmpty
  <1>2. ASSUME NEW s \in SUBSET S, s # {}, s \ {Pick(s)} \in P
        PROVE  s \in P
    <2>1. /\ IsFiniteSet(s) /\ f[Pick(s)] <= g[Pick(s)]
          /\ f[Pick(s)] \in Int /\ g[Pick(s)] \in Int
      BY <1>2, PickIn, FS_Subset DEF IntOn
    <2>2. /\ SumFunctionOnSet(f, s) = f[Pick(s)] + SumFunctionOnSet(f, s \ {Pick(s)})
          /\ SumFunctionOnSet(g, s) = g[Pick(s)] + SumFunctionOnSet(g, s \ {Pick(s)})
      BY <1>2, <2>1, SumPick
    <2>3. /\ SumFunctionOnSet(f, s \ {Pick(s)}) \in Int
          /\ SumFunctionOnSet(g, s \ {Pick(s)}) \in Int
      BY SumInt
    <2> QED
      BY <1>2, <2>1, <2>2, <2>3
  <1> HIDE DEF P
  <1>3. \A s \in SUBSET S : s \in P
    BY <1>1, <1>2, FiniteInduction
  <1> QED
    BY <1>3 DEF P

\* Equal values add up to their number times the value.
LEMMA SumConstant ==
    ASSUME NEW c \in Int, NEW f, NEW S, IsFiniteSet(S), \A x \in S : f[x] = c
    PROVE  SumFunctionOnSet(f, S) = Cardinality(S) * c
  <1> DEFINE P == {s \in SUBSET S : SumFunctionOnSet(f, s) = Cardinality(s) * c}
  <1>1. {} \in P
    BY SumEmpty, FS_EmptySet
  <1>2. ASSUME NEW s \in SUBSET S, s # {}, s \ {Pick(s)} \in P
        PROVE  s \in P
    <2> DEFINE t == s \ {Pick(s)}
    <2>1. IsFiniteSet(s) /\ f[Pick(s)] = c /\ Pick(s) \in s
      BY <1>2, PickIn, FS_Subset
    <2>2. SumFunctionOnSet(f, s) = f[Pick(s)] + SumFunctionOnSet(f, t)
      BY <1>2, <2>1, SumPick
    <2>3. Cardinality(t) = Cardinality(s) - 1 /\ Cardinality(s) \in Nat
      BY <2>1, FS_RemoveElement, FS_CardinalityType
    <2>4. SumFunctionOnSet(f, t) = Cardinality(t) * c
      BY <1>2
    <2> HIDE DEF t
    <2>5. SumFunctionOnSet(f, s) = c + (Cardinality(s) - 1) * c
      BY <2>1, <2>2, <2>3, <2>4
    <2> QED
      BY <2>3, <2>5
  <1> HIDE DEF P
  <1>3. \A s \in SUBSET S : s \in P
    BY <1>1, <1>2, FiniteInduction
  <1> QED
    BY <1>3 DEF P

\* The part of a set on which the values are zero can be left out.
LEMMA SumSupport ==
    ASSUME NEW f, NEW S, IsFiniteSet(S), IntOn(f, S),
           NEW U \in SUBSET S, \A x \in S \ U : f[x] = 0
    PROVE  SumFunctionOnSet(f, S) = SumFunctionOnSet(f, U)
  <1> DEFINE P == {s \in SUBSET S :
                     SumFunctionOnSet(f, s) = SumFunctionOnSet(f, s \cap U)}
  <1>1. {} \in P
    <2>1. {} \cap U = {}
      OBVIOUS
    <2> QED
      BY <2>1
  <1>2. ASSUME NEW s \in SUBSET S, s # {}, s \ {Pick(s)} \in P
        PROVE  s \in P
    <2> DEFINE p == Pick(s)
               t == s \ {p}
    <2>1. IsFiniteSet(s) /\ IsFiniteSet(s \cap U) /\ p \in s
      BY <1>2, PickIn, FS_Subset
    <2>2. SumFunctionOnSet(f, s) = f[p] + SumFunctionOnSet(f, t)
      BY <1>2, <2>1, SumPick
    <2>3. /\ SumFunctionOnSet(f, t) = SumFunctionOnSet(f, t \cap U)
          /\ SumFunctionOnSet(f, t) \in Int
      BY <1>2, SumInt
    <2> HIDE DEF p
    <2>4. CASE p \in U
      <3>1. p \in s \cap U /\ (s \cap U) \ {p} = t \cap U
        BY <2>1, <2>4
      <3>2. IntOn(f, s \cap U)
        BY DEF IntOn
      <3>3. SumFunctionOnSet(f, s \cap U) = f[p] + SumFunctionOnSet(f, (s \cap U) \ {p})
        BY <2>1, <3>1, <3>2, SumRemove
      <3> QED
        BY <2>2, <2>3, <3>1, <3>3
    <2>5. CASE p \notin U
      <3>1. f[p] = 0 /\ s \cap U = t \cap U
        BY <2>1, <2>5
      <3>2. SumFunctionOnSet(f, s) = SumFunctionOnSet(f, t)
        BY <2>2, <2>3, <3>1
      <3> QED
        BY <2>3, <3>1, <3>2
    <2> QED
      BY <2>4, <2>5
  <1> HIDE DEF P
  <1>3. S \in P
    BY <1>1, <1>2, FiniteInduction
  <1>4. S \cap U = U
    OBVIOUS
  <1> QED
    BY <1>3, <1>4 DEF P

\* A sum of naturals is a natural and at least each of them.
LEMMA SumNat ==
    ASSUME NEW f, NEW S, IsFiniteSet(S), NatOn(f, S)
    PROVE  /\ SumFunctionOnSet(f, S) \in Nat
           /\ \A x \in S : f[x] <= SumFunctionOnSet(f, S)
  <1> DEFINE z == [x \in S |-> 0]
  <1>0. IntOn(f, S) /\ IntOn(z, S) /\ \A x \in S : f[x] >= 0 /\ z[x] = 0
    BY DEF IntOn, NatOn
  <1>1. SumFunctionOnSet(z, S) = 0
    <2>1. SumFunctionOnSet(z, S) = Cardinality(S) * 0
      BY <1>0, SumConstant
    <2> QED
      BY <2>1, FS_CardinalityType
  <1> HIDE DEF z
  <1>2. SumFunctionOnSet(f, S) \in Int
    BY <1>0, SumInt
  <1>3. SumFunctionOnSet(f, S) >= 0
    BY <1>0, <1>1, <1>2, SumMonotone
  <1>4. ASSUME NEW x \in S
        PROVE  f[x] <= SumFunctionOnSet(f, S)
    <2> DEFINE g == [y \in S |-> IF y = x THEN f[x] ELSE 0]
    <2>1. IntOn(g, S) /\ \A y \in S : g[y] <= f[y]
      BY <1>0 DEF IntOn
    <2>2. SumFunctionOnSet(g, S) = SumFunctionOnSet(z, S) - z[x] + g[x]
      <3>1. \A y \in S : y # x => z[y] = g[y]
        BY <1>0
      <3> HIDE DEF g
      <3> QED
        BY <1>0, <2>1, <3>1, SumChange
    <2>3. g[x] = f[x] /\ f[x] \in Int
      BY <1>0 DEF IntOn
    <2> HIDE DEF g
    <2>4. SumFunctionOnSet(g, S) = f[x]
      BY <1>0, <1>1, <2>2, <2>3
    <2>5. SumFunctionOnSet(g, S) <= SumFunctionOnSet(f, S)
      BY <1>0, <2>1, SumMonotone
    <2> QED
      BY <2>4, <2>5
  <1> QED
    BY <1>2, <1>3, <1>4

-----------------------------------------------------------------------------
(* The same for functions with domain S.                                   *)

\* The sum of a function into the integers or the naturals.
LEMMA SumTyped ==
    ASSUME NEW S, IsFiniteSet(S), NEW f \in [S -> Int]
    PROVE  /\ SumFunction(f) \in Int
           /\ f \in [S -> Nat] =>
                SumFunction(f) \in Nat /\ \A x \in S : f[x] <= SumFunction(f)
  <1>1. IntOn(f, S) /\ SumFunction(f) = SumFunctionOnSet(f, S)
    BY DEF IntOn, SumFunction
  <1>2. f \in [S -> Nat] => NatOn(f, S)
    BY DEF NatOn
  <1> QED
    BY <1>1, <1>2, SumInt, SumNat

\* Functions that differ at one argument.
LEMMA SumUpdate ==
    ASSUME NEW S, IsFiniteSet(S), NEW f \in [S -> Int], NEW g \in [S -> Int],
           NEW x \in S, \A y \in S : y # x => f[y] = g[y]
    PROVE  SumFunction(g) = SumFunction(f) - f[x] + g[x]
  <1>1. /\ IntOn(f, S) /\ SumFunction(f) = SumFunctionOnSet(f, S)
        /\ IntOn(g, S) /\ SumFunction(g) = SumFunctionOnSet(g, S)
    BY DEF IntOn, SumFunction
  <1> QED
    BY <1>1, SumChange

\* A constant function.
LEMMA SumOfConstant ==
    ASSUME NEW S, IsFiniteSet(S), NEW c \in Int, NEW f, f = [x \in S |-> c]
    PROVE  SumFunction(f) = Cardinality(S) * c
  <1>1. SumFunction(f) = SumFunctionOnSet(f, S)
    BY DEF SumFunction
  <1> QED
    BY <1>1, SumConstant

\* Nobody loses, so the sum does not fall.
LEMMA SumOrdered ==
    ASSUME NEW S, IsFiniteSet(S), NEW f \in [S -> Int], NEW g \in [S -> Int],
           \A x \in S : f[x] <= g[x]
    PROVE  SumFunction(f) <= SumFunction(g)
  <1>1. /\ IntOn(f, S) /\ SumFunction(f) = SumFunctionOnSet(f, S)
        /\ IntOn(g, S) /\ SumFunction(g) = SumFunctionOnSet(g, S)
    BY DEF IntOn, SumFunction
  <1> QED
    BY <1>1, SumMonotone

\* A multiplier distributes over a sum of two.
LEMMA TimesSum ==
    ASSUME NEW c \in Int, NEW x \in Int, NEW y \in Int
    PROVE  c * (x + y) = c * x + c * y /\ c * x \in Int /\ c * y \in Int
  OBVIOUS

\* Adding a multiple of g to every value of f adds that multiple of g's sum.
LEMMA SumLinear ==
    ASSUME NEW S, IsFiniteSet(S), NEW f \in [S -> Int], NEW g \in [S -> Int],
           NEW c \in Int, NEW h \in [S -> Int], \A x \in S : h[x] = f[x] + c * g[x]
    PROVE  SumFunction(h) = SumFunction(f) + c * SumFunction(g)
  <1> DEFINE F(s) == SumFunctionOnSet(f, s)
             G(s) == SumFunctionOnSet(g, s)
             H(s) == SumFunctionOnSet(h, s)
             P == {s \in SUBSET S : H(s) = F(s) + c * G(s)}
  <1>0. /\ IntOn(f, S) /\ IntOn(g, S) /\ IntOn(h, S) /\ h \in [S -> Int]
        /\ SumFunction(f) = F(S) /\ SumFunction(g) = G(S) /\ SumFunction(h) = H(S)
    <2>1. h \in [S -> Int]
      OBVIOUS
    <2>2. DOMAIN f = S /\ DOMAIN g = S /\ DOMAIN h = S
      OBVIOUS
    <2>3. SumFunction(f) = F(S) /\ SumFunction(g) = G(S) /\ SumFunction(h) = H(S)
      BY <2>2 DEF SumFunction
    <2> QED
      BY <2>1, <2>3 DEF IntOn
  <1>1. {} \in P
    <2>1. F({}) = 0 /\ G({}) = 0 /\ H({}) = 0
      BY SumEmpty
    <2>2. 0 = 0 + c * 0
      OBVIOUS
    <2> QED
      BY <2>1, <2>2
  <1>2. ASSUME NEW s \in SUBSET S, s # {}, s \ {Pick(s)} \in P
        PROVE  s \in P
    <2> DEFINE p == Pick(s)
               t == s \ {Pick(s)}
    <2>1. /\ IsFiniteSet(s) /\ p \in S /\ f[p] \in Int /\ g[p] \in Int
      BY <1>2, PickIn, FS_Subset DEF IntOn
    <2>2. F(s) = f[p] + F(t) /\ G(s) = g[p] + G(t) /\ H(s) = h[p] + H(t)
      BY <1>2, <2>1, SumPick
    <2>3. F(t) \in Int /\ G(t) \in Int /\ H(t) \in Int
      BY <1>0, SumInt
    <2>4. H(t) = F(t) + c * G(t)
      BY <1>2
    <2>5. h[p] = f[p] + c * g[p]
      BY <2>1
    <2> HIDE DEF F, G, H, p, t
    <2>6. c * (g[p] + G(t)) = c * g[p] + c * G(t) /\ c * g[p] \in Int /\ c * G(t) \in Int
      BY <2>1, <2>3, TimesSum
    <2>7. H(s) = F(s) + c * G(s)
      BY <2>1, <2>2, <2>3, <2>4, <2>5, <2>6
    <2> QED
      BY <2>7
  <1> HIDE DEF P, F, G, H
  <1>3. \A s \in SUBSET S : s \in P
    BY <1>1, <1>2, FiniteInduction
  <1>4. H(S) = F(S) + c * G(S)
    BY <1>3 DEF P
  <1> QED
    BY <1>0, <1>4

-----------------------------------------------------------------------------
(* Other recursions over the subsets of a finite set                       *)

\* g is the function on the subsets of S whose value at s is what F makes of s
\* and of the values at the proper subsets of s.
Recursive(F, S, g) ==
    g = [s \in SUBSET S |-> F[<<s, [t \in (SUBSET s) \ {s} |-> g[t]]>>]]

\* Such functions on a set and on a part of it agree.
LEMMA RecursionUnique ==
    ASSUME NEW F, NEW S, IsFiniteSet(S), NEW g, Recursive(F, S, g),
           NEW U \in SUBSET S, NEW h, Recursive(F, U, h)
    PROVE  \A s \in SUBSET U : g[s] = h[s]
  <1> DEFINE P == {s \in SUBSET U : g[s] = h[s]}
  <1>1. ASSUME NEW s \in SUBSET U, \A t \in SUBSET s : t # s => t \in P
        PROVE  s \in P
    <2>1. \A t \in (SUBSET s) \ {s} : g[t] = h[t]
      BY <1>1
    <2>2. [t \in (SUBSET s) \ {s} |-> g[t]] = [t \in (SUBSET s) \ {s} |-> h[t]]
      BY <2>1
    <2>3. g[s] = F[<<s, [t \in (SUBSET s) \ {s} |-> g[t]]>>]
      BY DEF Recursive
    <2>4. h[s] = F[<<s, [t \in (SUBSET s) \ {s} |-> h[t]]>>]
      BY DEF Recursive
    <2> QED
      BY <2>2, <2>3, <2>4
  <1>2. IsFiniteSet(U)
    BY FS_Subset
  <1> HIDE DEF P
  <1>3. \A s \in SUBSET U : s \in P
    BY <1>1, <1>2, StrongInduction
  <1> QED
    BY <1>3 DEF P

\* Recursion over the subsets of a finite set is well defined. What a step
\* makes of the smaller sets is given as a function.
LEMMA RecursionExists ==
    ASSUME NEW F, NEW S, IsFiniteSet(S)
    PROVE  \E g : Recursive(F, S, g)
  <1> DEFINE P == {s \in SUBSET S : \E g : Recursive(F, s, g)}
             T(t) == CHOOSE g : Recursive(F, t, g)
             G(t) == T(t)[t]
  <1>1. ASSUME NEW s \in SUBSET S, \A t \in SUBSET s : t # s => t \in P
        PROVE  s \in P
    <2> DEFINE h == [t \in SUBSET s |-> F[<<t, [u \in (SUBSET t) \ {t} |-> G(u)]>>]]
    <2>1. ASSUME NEW t \in SUBSET s, t # s
          PROVE  Recursive(F, t, T(t))
      BY <1>1, <2>1
    <2>2. ASSUME NEW t \in SUBSET s, t # s
          PROVE  h[t] = G(t)
      <3>1. Recursive(F, t, T(t)) /\ IsFiniteSet(t)
        BY <2>1, <2>2, FS_Subset
      <3>2. ASSUME NEW u \in (SUBSET t) \ {t}
            PROVE  T(t)[u] = T(u)[u]
        <4>1. u \in SUBSET s /\ u # s
          BY <2>2
        <4>2. Recursive(F, u, T(u))
          BY <2>1, <4>1
        <4> QED
          BY <3>1, <4>2, RecursionUnique
      <3>3. T(t)[t] = F[<<t, [u \in (SUBSET t) \ {t} |-> T(t)[u]]>>]
        BY <3>1 DEF Recursive
      <3> HIDE DEF T
      <3>4. [u \in (SUBSET t) \ {t} |-> T(t)[u]] = [u \in (SUBSET t) \ {t} |-> T(u)[u]]
        BY <3>2
      <3> QED
        BY <3>3, <3>4
    <2>3. Recursive(F, s, h)
      <3> HIDE DEF G, T
      <3>1. ASSUME NEW t \in SUBSET s
            PROVE  [u \in (SUBSET t) \ {t} |-> h[u]] = [u \in (SUBSET t) \ {t} |-> G(u)]
        <4>1. \A u \in (SUBSET t) \ {t} : u \in SUBSET s /\ u # s
          OBVIOUS
        <4> HIDE DEF h
        <4> QED
          BY <2>2, <4>1
      <3>2. h = [t \in SUBSET s |-> F[<<t, [u \in (SUBSET t) \ {t} |-> h[u]]>>]]
        BY <3>1
      <3> HIDE DEF h
      <3> QED
        BY <3>2 DEF Recursive
    <2> QED
      BY <2>3
  <1> HIDE DEF P
  <1>2. \A s \in SUBSET S : s \in P
    BY <1>1, StrongInduction
  <1> QED
    BY <1>2 DEF P

\* The arguments of a step of a recursion over the subsets of S with values in T.
Below(s) == (SUBSET s) \ {s}
StepsOf(S, T) == UNION {{s} \X [Below(s) -> T] : s \in SUBSET S}

\* g is made by the steps F, each of which is given values in T.
StepByStep(F, S, T, g) ==
    \A s \in SUBSET S : LET h == [t \in Below(s) |-> g[t]]
                       IN  h \in [Below(s) -> T] /\ g[s] = F[<<s, h>>]

\* A recursion whose steps stay in T has its values in T.
LEMMA RecursionTyped ==
    ASSUME NEW S, IsFiniteSet(S), NEW T, NEW F \in [StepsOf(S, T) -> T]
    PROVE  \E g \in [SUBSET S -> T] : StepByStep(F, S, T, g)
  <1>1. PICK g : Recursive(F, S, g)
    BY RecursionExists
  <1> DEFINE P == {s \in SUBSET S : g[s] \in T}
  <1>2. ASSUME NEW s \in SUBSET S
        PROVE  g[s] = F[<<s, [t \in Below(s) |-> g[t]]>>]
    BY <1>1 DEF Recursive, Below
  <1>3. ASSUME NEW s \in SUBSET S, \A t \in SUBSET s : t # s => t \in P
        PROVE  s \in P
    <2> DEFINE h == [t \in Below(s) |-> g[t]]
    <2>1. h \in [Below(s) -> T]
      BY <1>3 DEF Below
    <2> HIDE DEF h
    <2>2. <<s, h>> \in {s} \X [Below(s) -> T]
      BY <2>1
    <2>3. <<s, h>> \in StepsOf(S, T)
      BY <2>2 DEF StepsOf
    <2>4. F[<<s, h>>] \in T
      BY <2>3
    <2> QED
      BY <1>2, <2>4 DEF h
  <1> HIDE DEF P
  <1>4. \A s \in SUBSET S : s \in P
    BY <1>3, StrongInduction
  <1>5. \A s \in SUBSET S : g[s] \in T
    BY <1>4 DEF P
  <1>6. g \in [SUBSET S -> T]
    <2>1. g = [s \in SUBSET S |-> g[s]]
      BY <1>1 DEF Recursive
    <2> QED
      BY <1>5, <2>1
  <1>7. ASSUME NEW s \in SUBSET S
        PROVE  [t \in Below(s) |-> g[t]] \in [Below(s) -> T]
    BY <1>5 DEF Below
  <1>8. StepByStep(F, S, T, g)
    BY <1>2, <1>7 DEF StepByStep
  <1> QED
    BY <1>6, <1>8

\* g holds what folding every subset of S into base makes.
Folded(op, base, S, g) ==
    \A s \in SUBSET S :
        g[s] = IF s = {} THEN base ELSE op[<<Pick(s), g[s \ {Pick(s)}]>>]

\* Folding a finite set is well defined. What folding in an element does is
\* given as a function.
LEMMA FoldExists ==
    ASSUME NEW S, IsFiniteSet(S), NEW T, NEW base \in T, NEW op \in [S \X T -> T]
    PROVE  \E g \in [SUBSET S -> T] : Folded(op, base, S, g)
  <1> DEFINE F == [p \in StepsOf(S, T) |->
                     IF p[1] = {} THEN base
                     ELSE op[<<Pick(p[1]), p[2][p[1] \ {Pick(p[1])}]>>]]
  <1>1. ASSUME NEW s \in SUBSET S, NEW h \in [Below(s) -> T]
        PROVE  /\ <<s, h>> \in StepsOf(S, T)
               /\ F[<<s, h>>] = IF s = {} THEN base ELSE op[<<Pick(s), h[s \ {Pick(s)}]>>]
               /\ F[<<s, h>>] \in T
    <2>1. <<s, h>> \in {s} \X [Below(s) -> T]
      OBVIOUS
    <2>2. <<s, h>> \in StepsOf(S, T)
      BY <2>1 DEF StepsOf
    <2>3. F[<<s, h>>] = IF s = {} THEN base ELSE op[<<Pick(s), h[s \ {Pick(s)}]>>]
      BY <2>2
    <2>4. s # {} => Pick(s) \in S /\ s \ {Pick(s)} \in Below(s)
      BY PickIn DEF Below
    <2>5. s # {} => op[<<Pick(s), h[s \ {Pick(s)}]>>] \in T
      BY <2>4
    <2> HIDE DEF F
    <2> QED
      BY <2>2, <2>3, <2>5
  <1>2. F \in [StepsOf(S, T) -> T]
    <2>1. ASSUME NEW p \in StepsOf(S, T) PROVE F[p] \in T
      <3>1. PICK s \in SUBSET S : p \in {s} \X [Below(s) -> T]
        BY DEF StepsOf
      <3> DEFINE B == [Below(s) -> T]
      <3>2. p \in {s} \X B
        BY <3>1
      <3> HIDE DEF B
      <3>3. p = <<s, p[2]>> /\ p[2] \in B
        BY <3>2
      <3> HIDE DEF F
      <3> QED
        BY <1>1, <3>3 DEF B
    <2> QED
      BY <2>1
  <1> HIDE DEF F
  <1>3. PICK g \in [SUBSET S -> T] : StepByStep(F, S, T, g)
    BY <1>2, RecursionTyped
  <1>4. ASSUME NEW s \in SUBSET S
        PROVE  g[s] = IF s = {} THEN base ELSE op[<<Pick(s), g[s \ {Pick(s)}]>>]
    <2> DEFINE h == [t \in Below(s) |-> g[t]]
    <2>1. h \in [Below(s) -> T] /\ g[s] = F[<<s, h>>]
      BY <1>3 DEF StepByStep
    <2>2. s # {} => h[s \ {Pick(s)}] = g[s \ {Pick(s)}]
      BY PickIn DEF Below
    <2> HIDE DEF h
    <2> QED
      BY <1>1, <2>1, <2>2
  <1>5. Folded(op, base, S, g)
    BY <1>4 DEF Folded
  <1> QED
    BY <1>5

=============================================================================
