----------------------------- MODULE FoldFacts -----------------------------
(***************************************************************************)
(* What the folds of the community modules compute over a finite set, as   *)
(* far as the proofs about sums need it.  Their definition is a recursive  *)
(* function over the subsets of a set; the facts about it are proved by    *)
(* induction, in the form of a set that holds every subset.                *)
(***************************************************************************)
EXTENDS Integers, FiniteSetsExt, FiniteSetTheorems, WellFoundedInduction, TLAPS

\* Induction over the subsets of a finite set: a set holds all of them if it holds a
\* subset whenever it holds what is left of it without any one element.
LEMMA SubsetsAre ==
    ASSUME NEW D, IsFiniteSet(D), NEW Good,
           \A s \in SUBSET D : (\A x \in s : s \ {x} \in Good) => s \in Good
    PROVE  SUBSET D \subseteq Good
<1>. DEFINE Bad == (SUBSET D) \ Good
<1>. SUFFICES ASSUME Bad # {} PROVE FALSE
  OBVIOUS
<1>1. IsWellFoundedOn(StrictSubsetOrdering(D), SUBSET D)
  <2>1. FiniteSubsetsOf(D) = SUBSET D
    BY FS_FiniteSubsetsOfFinite
  <2>2. IsWellFoundedOn(StrictSubsetOrdering(D), FiniteSubsetsOf(D))
    BY FS_StrictSubsetOrderingWellFounded
  <2>. QED  BY <2>1, <2>2, Zenon
<1>2. Bad \subseteq SUBSET D
  OBVIOUS
<1>. HIDE DEF Bad
<1>3. PICK s \in Bad : \A t \in Bad : <<t, s>> \notin StrictSubsetOrdering(D)
  BY <1>1, <1>2, WFMin
<1>4. ASSUME NEW x \in s PROVE s \ {x} \in Good
  <2>1. s \in SUBSET D /\ s \ {x} \in SUBSET D /\ s \ {x} # s
    BY <1>2
  <2>2. <<s \ {x}, s>> \in StrictSubsetOrdering(D)
    BY <2>1 DEF StrictSubsetOrdering
  <2>. QED  BY <1>3, <2>1, <2>2 DEF Bad
<1>. QED  BY <1>2, <1>4 DEF Bad

\* Induction over the naturals.
LEMMA NaturalsAre ==
    ASSUME NEW Good, 0 \in Good, \A n \in Nat : n \in Good => n + 1 \in Good
    PROVE  Nat \subseteq Good
<1>. DEFINE Bad == Nat \ Good
<1>. SUFFICES ASSUME Bad # {} PROVE FALSE
  OBVIOUS
<1>. DEFINE Less == {ss \in Nat \X Nat : ss[1] < ss[2]}
<1>1. IsWellFoundedOn(Less, Nat)
  BY NatLessThanWellFounded DEF OpToRel
<1>2. Bad \subseteq Nat
  OBVIOUS
<1>. HIDE DEF Bad, Less
<1>3. PICK n \in Bad : \A m \in Bad : <<m, n>> \notin Less
  BY <1>1, <1>2, WFMin
<1>4. n \in Nat /\ n # 0 /\ n - 1 \in Nat /\ n - 1 + 1 = n
  BY <1>2 DEF Bad
<1>5. <<n - 1, n>> \in Less
  BY <1>4 DEF Less
<1>6. n - 1 \in Good
  BY <1>3, <1>4, <1>5 DEF Bad
<1>. QED  BY <1>4, <1>6 DEF Bad

\* The element a fold takes first.
First(s) == CHOOSE x \in s : TRUE

LEMMA FirstFacts ==
    ASSUME NEW s, s # {}
    PROVE  First(s) \in s
BY DEF First

\* pick takes an element of each subset of D.
Picks(pick, D) == \A t \in SUBSET D : t # {} => pick[t] \in t

\* g folds the subsets of D in the order of pick, with values in S.
FoldsAll(g, D, S, base, step, pick) ==
    /\ g \in [SUBSET D -> S]
    /\ \A t \in SUBSET D :
          g[t] = IF t = {} THEN base ELSE step[<<pick[t], g[t \ {pick[t]}]>>]

\* g folds the subsets of D of no more than n elements.
FoldsUpTo(g, D, n, S, base, step, pick) ==
    /\ g \in [{t \in SUBSET D : Cardinality(t) <= n} -> S]
    /\ \A t \in SUBSET D :
          Cardinality(t) <= n =>
              g[t] = IF t = {} THEN base ELSE step[<<pick[t], g[t \ {pick[t]}]>>]

\* What a fold over a finite set is meant to be exists.
LEMMA FoldExists ==
    ASSUME NEW D, IsFiniteSet(D), NEW S, NEW base \in S, NEW step \in [D \X S -> S],
           NEW pick, Picks(pick, D)
    PROVE  \E g : FoldsAll(g, D, S, base, step, pick)
<1>. DEFINE Good == {n \in Nat : \E g : FoldsUpTo(g, D, n, S, base, step, pick)}
<1>0. \A t \in SUBSET D : IsFiniteSet(t) /\ Cardinality(t) \in Nat
  BY FS_Subset, FS_CardinalityType
<1>1. 0 \in Good
  <2>. DEFINE g == [t \in {t \in SUBSET D : Cardinality(t) <= 0} |-> base]
  <2>1. \A t \in SUBSET D : Cardinality(t) <= 0 => t = {}
    BY <1>0, FS_EmptySet
  <2>2. FoldsUpTo(g, D, 0, S, base, step, pick)
    BY <2>1 DEF FoldsUpTo
  <2>. QED  BY <2>2
<1>2. ASSUME NEW n \in Nat, n \in Good
      PROVE  n + 1 \in Good
  <2>1. PICK g : FoldsUpTo(g, D, n, S, base, step, pick)
    BY <1>2
  <2>. DEFINE h == [t \in {t \in SUBSET D : Cardinality(t) <= n + 1} |->
                      IF t = {} THEN base
                      ELSE IF Cardinality(t) <= n THEN g[t]
                      ELSE step[<<pick[t], g[t \ {pick[t]}]>>]]
  <2>2. ASSUME NEW t \in SUBSET D, Cardinality(t) <= n + 1, t # {}
        PROVE  /\ pick[t] \in D /\ t \ {pick[t]} \in SUBSET D
               /\ Cardinality(t \ {pick[t]}) <= n
               /\ g[t \ {pick[t]}] \in S
    <3>1. pick[t] \in t
      BY <2>2 DEF Picks
    <3>2. Cardinality(t \ {pick[t]}) = Cardinality(t) - 1
      BY <1>0, <3>1, FS_RemoveElement
    <3>3. Cardinality(t \ {pick[t]}) <= n
      BY <1>0, <2>2, <3>2
    <3>. QED  BY <2>1, <3>1, <3>3 DEF FoldsUpTo
  <2>3. h \in [{t \in SUBSET D : Cardinality(t) <= n + 1} -> S]
    <3>1. ASSUME NEW t \in SUBSET D, Cardinality(t) <= n + 1
          PROVE  h[t] \in S
      <4>1. CASE t = {}
        BY <3>1, <4>1
      <4>2. CASE t # {} /\ Cardinality(t) <= n
        BY <2>1, <3>1, <4>2 DEF FoldsUpTo
      <4>3. CASE t # {} /\ ~(Cardinality(t) <= n)
        <5>1. h[t] = step[<<pick[t], g[t \ {pick[t]}]>>]
          BY <3>1, <4>3
        <5>2. <<pick[t], g[t \ {pick[t]}]>> \in D \X S
          BY <2>2, <3>1, <4>3
        <5>. QED  BY <5>1, <5>2
      <4>. QED  BY <4>1, <4>2, <4>3
    <3>. QED  BY <3>1
  <2>4. \A t \in SUBSET D : Cardinality(t) <= n => h[t] = g[t]
    <3>1. \A t \in SUBSET D : Cardinality(t) <= n => Cardinality(t) <= n + 1
      BY <1>0
    <3>2. {} \in SUBSET D /\ Cardinality({}) <= n => g[{}] = base
      BY <2>1 DEF FoldsUpTo
    <3>. QED  BY <3>1, <3>2
  <2>5. ASSUME NEW t \in SUBSET D, Cardinality(t) <= n + 1
        PROVE  h[t] = IF t = {} THEN base ELSE step[<<pick[t], h[t \ {pick[t]}]>>]
    <3>1. CASE t = {}
      BY <2>5, <3>1
    <3>2. CASE t # {}
      <4>1. h[t \ {pick[t]}] = g[t \ {pick[t]}]
        BY <2>2, <2>4, <2>5, <3>2
      <4>2. CASE Cardinality(t) <= n
        <5>1. h[t] = g[t]
          BY <2>4, <4>2
        <5>2. g[t] = step[<<pick[t], g[t \ {pick[t]}]>>]
          BY <2>1, <3>2, <4>2 DEF FoldsUpTo
        <5>. HIDE DEF h
        <5>. QED  BY <3>2, <4>1, <5>1, <5>2
      <4>3. CASE ~(Cardinality(t) <= n)
        <5>1. h[t] = step[<<pick[t], g[t \ {pick[t]}]>>]
          BY <2>5, <3>2, <4>3
        <5>. HIDE DEF h
        <5>. QED  BY <3>2, <4>1, <5>1
      <4>. QED  BY <4>2, <4>3
    <3>. QED  BY <3>1, <3>2
  <2>. HIDE DEF h
  <2>6. FoldsUpTo(h, D, n + 1, S, base, step, pick)
    BY <2>3, <2>5 DEF FoldsUpTo
  <2>. QED  BY <2>6
<1>. HIDE DEF Good
<1>3. Cardinality(D) \in Good
  BY <1>0, <1>1, <1>2, NaturalsAre
<1>4. PICK g : FoldsUpTo(g, D, Cardinality(D), S, base, step, pick)
  BY <1>3 DEF Good
<1>5. {t \in SUBSET D : Cardinality(t) <= Cardinality(D)} = SUBSET D
  BY FS_Subset
<1>6. FoldsAll(g, D, S, base, step, pick)
  BY <1>4, <1>5, <1>0, FS_Subset DEF FoldsUpTo, FoldsAll
<1>. QED  BY <1>6

-----------------------------------------------------------------------------
(* Sums of natural numbers.                                                *)

\* g gives the sum of the weights w over each subset of D.
IsSum(g, w, D) ==
    /\ g \in [SUBSET D -> Nat]
    /\ \A t \in SUBSET D :
          g[t] = IF t = {} THEN 0 ELSE w[First(t)] + g[t \ {First(t)}]

LEMMA SumExists ==
    ASSUME NEW D, IsFiniteSet(D), NEW w \in [D -> Nat]
    PROVE  \E g : IsSum(g, w, D)
<1>. DEFINE step == [p \in D \X Nat |-> w[p[1]] + p[2]]
<1>1. step \in [D \X Nat -> Nat]
  OBVIOUS
<1>2. \A x \in D, n \in Nat : step[<<x, n>>] = w[x] + n
  OBVIOUS
<1>. HIDE DEF step
<1>. DEFINE pick == [t \in SUBSET D |-> First(t)]
<1>3. /\ Picks(pick, D)
      /\ \A t \in SUBSET D : t # {} => First(t) \in D /\ t \ {First(t)} \in SUBSET D /\ pick[t] = First(t)
  BY FirstFacts DEF Picks
<1>. HIDE DEF pick
<1>4. PICK f : FoldsAll(f, D, Nat, 0, step, pick)
  BY <1>1, <1>3, FoldExists
<1>5. IsSum(f, w, D)
  BY <1>2, <1>3, <1>4 DEF FoldsAll, IsSum
<1>. QED  BY <1>5

\* A function on the subsets that satisfies the recursion is the sum.
LEMMA SumIsUnique ==
    ASSUME NEW D, IsFiniteSet(D), NEW w \in [D -> Nat], NEW g,
           g = [t \in SUBSET D |-> IF t = {} THEN 0 ELSE w[First(t)] + g[t \ {First(t)}]]
    PROVE  IsSum(g, w, D)
<1>1. \A t \in SUBSET D :
          g[t] = IF t = {} THEN 0 ELSE w[First(t)] + g[t \ {First(t)}]
  OBVIOUS
<1>2. \A t \in SUBSET D : g[t] \in Nat
  <2>. DEFINE Good == {t \in SUBSET D : g[t] \in Nat}
  <2>1. ASSUME NEW t \in SUBSET D, \A x \in t : t \ {x} \in Good
        PROVE  t \in Good
    <3>1. CASE t = {}
      <4>1. g[t] = 0
        BY <1>1, <2>1, <3>1
      <4>. QED  BY <2>1, <4>1
    <3>2. CASE t # {}
      <4>1. First(t) \in t /\ First(t) \in D
        BY <3>2, FirstFacts
      <4>2. g[t \ {First(t)}] \in Nat
        BY <2>1, <4>1
      <4>3. g[t] = w[First(t)] + g[t \ {First(t)}]
        BY <1>1, <2>1, <3>2
      <4>4. w[First(t)] \in Nat
        BY <4>1
      <4>5. g[t] \in Nat
        BY <4>2, <4>3, <4>4
      <4>. QED  BY <2>1, <4>5
    <3>. QED  BY <3>1, <3>2
  <2>. HIDE DEF Good
  <2>2. SUBSET D \subseteq Good
    BY <2>1, SubsetsAre
  <2>. QED  BY <2>2 DEF Good
<1>3. g \in [SUBSET D -> Nat]
  BY <1>2
<1>. QED  BY <1>1, <1>3 DEF IsSum

\* The sum does not depend on the element that is taken first.
LEMMA SumInAnyOrder ==
    ASSUME NEW D, IsFiniteSet(D), NEW w \in [D -> Nat], NEW g, IsSum(g, w, D)
    PROVE  \A t \in SUBSET D : \A x \in t : g[t] = w[x] + g[t \ {x}]
<1>. DEFINE Good == {t \in SUBSET D : \A x \in t : g[t] = w[x] + g[t \ {x}]}
<1>0. /\ \A t \in SUBSET D : g[t] \in Nat
      /\ \A t \in SUBSET D : t # {} => g[t] = w[First(t)] + g[t \ {First(t)}]
  BY DEF IsSum
<1>1. ASSUME NEW t \in SUBSET D, \A x \in t : t \ {x} \in Good
      PROVE  t \in Good
  <2>1. ASSUME NEW x \in t, x # First(t)
        PROVE  g[t] = w[x] + g[t \ {x}]
    <3>. DEFINE y == First(t)
                both == (t \ {x}) \ {y}
    <3>1. y \in t
      BY FirstFacts
    <3>2. g[t] = w[y] + g[t \ {y}]
      BY <1>0
    <3>3. both = (t \ {y}) \ {x} /\ x \in t \ {y} /\ y \in t \ {x}
      BY <2>1, <3>1
    <3>. HIDE DEF y, both
    <3>4. g[t \ {y}] = w[x] + g[both]
      BY <1>1, <3>1, <3>3
    <3>5. g[t \ {x}] = w[y] + g[both]
      BY <1>1, <3>3 DEF both
    <3>6. both \in SUBSET D /\ w[x] \in Nat /\ w[y] \in Nat
      BY <3>1 DEF both
    <3>. QED  BY <1>0, <3>2, <3>4, <3>5, <3>6
  <2>2. ASSUME NEW x \in t, x = First(t)
        PROVE  g[t] = w[x] + g[t \ {x}]
    BY <1>0, <2>2
  <2>. QED  BY <2>1, <2>2
<1>. HIDE DEF Good
<1>2. SUBSET D \subseteq Good
  BY <1>1, SubsetsAre
<1>. QED  BY <1>2 DEF Good

\* Two sums of the same weights agree, wherever else the weights are defined.
LEMMA SumsAgree ==
    ASSUME NEW D, IsFiniteSet(D), NEW w \in [D -> Nat], NEW g, IsSum(g, w, D),
           NEW E, NEW v \in [E -> Nat], NEW h, IsSum(h, v, E), IsFiniteSet(E),
           NEW S \in SUBSET D, S \subseteq E, \A x \in S : w[x] = v[x]
    PROVE  g[S] = h[S]
<1>. DEFINE Good == {t \in SUBSET S : g[t] = h[t]}
<1>1. IsFiniteSet(S)
  BY FS_Subset
<1>2. /\ \A t \in SUBSET D : g[t] = IF t = {} THEN 0 ELSE w[First(t)] + g[t \ {First(t)}]
      /\ \A t \in SUBSET E : h[t] = IF t = {} THEN 0 ELSE v[First(t)] + h[t \ {First(t)}]
  BY DEF IsSum
<1>3. ASSUME NEW t \in SUBSET S, \A x \in t : t \ {x} \in Good
      PROVE  t \in Good
  <2>1. t \in SUBSET D /\ t \in SUBSET E
    OBVIOUS
  <2>2. CASE t = {}
    <3>1. g[t] = 0 /\ h[t] = 0
      BY <1>2, <2>1, <2>2
    <3>. QED  BY <3>1
  <2>3. CASE t # {}
    <3>1. First(t) \in t
      BY <2>3, FirstFacts
    <3>2. g[t \ {First(t)}] = h[t \ {First(t)}] /\ w[First(t)] = v[First(t)]
      BY <1>3, <3>1
    <3>3. g[t] = w[First(t)] + g[t \ {First(t)}] /\ h[t] = v[First(t)] + h[t \ {First(t)}]
      BY <1>2, <2>1, <2>3
    <3>. QED  BY <3>2, <3>3
  <2>. QED  BY <2>2, <2>3
<1>. HIDE DEF Good
<1>4. SUBSET S \subseteq Good
  BY <1>1, <1>3, SubsetsAre
<1>. QED  BY <1>4 DEF Good

\* One more weight adds to the sum.
LEMMA SumGrows ==
    ASSUME NEW S, IsFiniteSet(S), NEW w \in [S -> Nat], NEW g, IsSum(g, w, S),
           NEW n, n \notin S, NEW U, U = S \union {n},
           NEW v \in [U -> Nat], NEW h, IsSum(h, v, U),
           \A k \in S : v[k] = w[k]
    PROVE  h[U] = g[S] + v[n]
<1>1. IsFiniteSet(U)
  BY FS_AddElement
<1>2. h[U] = v[n] + h[U \ {n}]
  BY <1>1, SumInAnyOrder
<1>3. S \subseteq U /\ S \subseteq S /\ U \ {n} = S
  OBVIOUS
<1>4. h[S] = g[S]
  BY <1>1, <1>3, SumsAgree
<1>5. g[S] \in Nat /\ v[n] \in Nat
  BY DEF IsSum
<1>6. h[U \ {n}] = g[S]
  BY <1>3, <1>4
<1>7. h[U] = v[n] + g[S]
  BY <1>2, <1>6, Zenon
<1>. QED  BY <1>5, <1>7

\* SumFunction gives the sum.
LEMMA SumFunctionIsSum ==
    ASSUME NEW D, IsFiniteSet(D), NEW w \in [D -> Nat]
    PROVE  \E g : IsSum(g, w, D) /\ SumFunction(w) = g[D]
<1>. DEFINE sum == CHOOSE g : g = [t \in SUBSET D |->
                                      IF t = {} THEN 0 ELSE w[First(t)] + g[t \ {First(t)}]]
<1>1. PICK f : IsSum(f, w, D)
  BY SumExists
<1>2. f = [t \in SUBSET D |-> IF t = {} THEN 0 ELSE w[First(t)] + f[t \ {First(t)}]]
  BY <1>1 DEF IsSum
<1>3. sum = [t \in SUBSET D |-> IF t = {} THEN 0 ELSE w[First(t)] + sum[t \ {First(t)}]]
  BY <1>2
<1>4. SumFunction(w) = sum[D]
  BY DEF SumFunction, SumFunctionOnSet, FoldFunctionOnSet, MapThenFoldSet, First
<1>. HIDE DEF sum
<1>5. IsSum(sum, w, D)
  BY <1>3, SumIsUnique
<1>. QED  BY <1>4, <1>5

-----------------------------------------------------------------------------
(* Finite sets of integers.                                                *)

\* The values of a function on a finite set are finitely many.
LEMMA ImageIsFinite ==
    ASSUME NEW S, IsFiniteSet(S), NEW f, DOMAIN f = S, f = [x \in S |-> f[x]]
    PROVE  IsFiniteSet({f[x] : x \in S})
<1>. DEFINE T == {f[x] : x \in S}
<1>1. f \in [S -> T] /\ \A t \in T : \E x \in S : f[x] = t
  <2>1. \A x \in S : f[x] \in T
    OBVIOUS
  <2>2. \A t \in T : \E x \in S : f[x] = t
    OBVIOUS
  <2>. HIDE DEF T
  <2>. QED  BY <2>1, <2>2
<1>. HIDE DEF T
<1>2. f \in Surjection(S, T)
  BY <1>1 DEF Surjection
<1>3. IsFiniteSet(T)
  BY <1>2, FS_Surjection
<1>. QED  BY <1>3 DEF T

\* A finite set of integers that is not empty has a largest member.
LEMMA MaxIsMember ==
    ASSUME NEW S, IsFiniteSet(S), S \subseteq Int, S # {}
    PROVE  Max(S) \in S /\ \A y \in S : Max(S) >= y
<1>. DEFINE Good == {t \in SUBSET S : t # {} => \E x \in t : \A y \in t : x >= y}
<1>1. ASSUME NEW t \in SUBSET S, \A x \in t : t \ {x} \in Good
      PROVE  t \in Good
  <2>. SUFFICES ASSUME t # {} PROVE \E x \in t : \A y \in t : x >= y
    OBVIOUS
  <2>1. PICK a \in t : TRUE
    OBVIOUS
  <2>2. CASE t \ {a} = {}
    BY <2>2
  <2>3. CASE t \ {a} # {}
    <3>1. PICK b \in t \ {a} : \A y \in t \ {a} : b >= y
      BY <1>1, <2>3
    <3>2. a \in Int /\ b \in Int
      BY <3>1
    <3>3. CASE a >= b
      <4>1. \A y \in t : a >= y
        BY <3>1, <3>2, <3>3
      <4>. QED  BY <4>1
    <3>4. CASE b >= a
      <4>1. \A y \in t : b >= y
        BY <3>1, <3>4
      <4>. QED  BY <3>1, <4>1
    <3>. QED  BY <3>2, <3>3, <3>4
  <2>. QED  BY <2>2, <2>3
<1>. HIDE DEF Good
<1>2. SUBSET S \subseteq Good
  BY <1>1, SubsetsAre
<1>3. \E x \in S : \A y \in S : x >= y
  BY <1>2 DEF Good
<1>. QED  BY <1>3 DEF Max

\* s lists S in ascending order.
Ascends(s, S) == \A i, j \in DOMAIN s : i < j => s[i] < s[j]

\* A finite set of integers can be listed in ascending order.
LEMMA AscendingExists ==
    ASSUME NEW S, IsFiniteSet(S), S \subseteq Int
    PROVE  \E s \in [1 .. Cardinality(S) -> S] : Ascends(s, S)
<1>. DEFINE Good == {t \in SUBSET S : \E s \in [1 .. Cardinality(t) -> t] : Ascends(s, t)}
<1>0. \A t \in SUBSET S : IsFiniteSet(t) /\ Cardinality(t) \in Nat
  BY FS_Subset, FS_CardinalityType
<1>1. ASSUME NEW t \in SUBSET S, \A x \in t : t \ {x} \in Good
      PROVE  t \in Good
  <2>1. CASE t = {}
    <3>1. Cardinality(t) = 0
      BY <2>1, FS_EmptySet
    <3>2. << >> \in [1 .. Cardinality(t) -> t] /\ Ascends(<< >>, t)
      BY <3>1 DEF Ascends
    <3>. QED  BY <3>2
  <2>2. CASE t # {}
    <3>. DEFINE x == Max(t)
                n == Cardinality(t)
    <3>1. x \in t /\ \A y \in t : x >= y
      BY <1>0, <2>2, MaxIsMember
    <3>. HIDE DEF x
    <3>2. Cardinality(t \ {x}) = n - 1 /\ n \in Nat
      BY <1>0, <3>1, FS_RemoveElement
    <3>. HIDE DEF n
    <3>3. PICK s \in [1 .. n - 1 -> t \ {x}] : Ascends(s, t \ {x})
      BY <1>1, <3>1, <3>2
    <3>. DEFINE u == [i \in 1 .. n |-> IF i = n THEN x ELSE s[i]]
    <3>4. \A i \in 1 .. n - 1 : u[i] = s[i] /\ s[i] \in t /\ s[i] < x /\ i \in 1 .. n
      <4>1. \A i \in 1 .. n - 1 : s[i] \in t /\ s[i] # x /\ x >= s[i]
        BY <3>1, <3>3
      <4>2. t \subseteq Int
        OBVIOUS
      <4>3. ASSUME NEW i \in 1 .. n - 1 PROVE s[i] < x
        <5>1. s[i] \in Int /\ x \in Int /\ s[i] # x /\ x >= s[i]
          BY <3>1, <4>1, <4>2
        <5>. QED  BY <5>1
      <4>4. \A i \in 1 .. n - 1 : i \in 1 .. n
        BY <3>2
      <4>. QED  BY <4>1, <4>3, <4>4
    <3>5. u \in [1 .. n -> t]
      BY <3>1, <3>2, <3>4
    <3>6. \A i \in 1 .. n : i # n => i \in 1 .. n - 1
      BY <3>2
    <3>7. u[n] = x \/ n = 0
      BY <3>2
    <3>8. DOMAIN u = 1 .. n /\ DOMAIN s = 1 .. n - 1
      OBVIOUS
    <3>. HIDE DEF u
    <3>9. ASSUME NEW i \in 1 .. n, NEW j \in 1 .. n, i < j
          PROVE  u[i] < u[j]
      <4>1. i \in 1 .. n - 1
        BY <3>2, <3>9
      <4>2. CASE j = n
        <5>1. n # 0
          BY <3>9, <4>2
        <5>. QED  BY <3>4, <3>7, <4>1, <4>2, <5>1
      <4>3. CASE j # n
        <5>1. j \in 1 .. n - 1
          BY <3>6, <4>3
        <5>2. s[i] < s[j]
          BY <3>3, <3>8, <3>9, <4>1, <5>1 DEF Ascends
        <5>. QED  BY <3>4, <4>1, <5>1, <5>2
      <4>. QED  BY <4>2, <4>3
    <3>10. Ascends(u, t)
      BY <3>8, <3>9 DEF Ascends
    <3>. QED  BY <3>5, <3>10 DEF n
  <2>. QED  BY <2>1, <2>2
<1>. HIDE DEF Good
<1>2. SUBSET S \subseteq Good
  BY <1>1, SubsetsAre
<1>. QED  BY <1>2 DEF Good

\* The member of S that has k members of S up to it: the k-th in ascending order.
UpTo(S, i) == {j \in S : j <= i}
Nth(S, k) == CHOOSE i \in S : Cardinality(UpTo(S, i)) = k

\* Every member is counted off by how many there are up to it, and no number is left out.
LEMMA NthCountsOff ==
    ASSUME NEW S, IsFiniteSet(S), S \subseteq Int
    PROVE  /\ Cardinality(S) \in Nat
           /\ \A k \in 1 .. Cardinality(S) : Nth(S, k) \in S /\ Cardinality(UpTo(S, Nth(S, k))) = k
           /\ \A i \in S : /\ Cardinality(UpTo(S, i)) \in 1 .. Cardinality(S)
                          /\ Nth(S, Cardinality(UpTo(S, i))) = i
           /\ \A k, l \in 1 .. Cardinality(S) : k < l => Nth(S, k) < Nth(S, l)
<1>. DEFINE n == Cardinality(S)
            rank == [i \in S |-> Cardinality(UpTo(S, i))]
<1>1. n \in Nat
  BY FS_CardinalityType
<1>2. ASSUME NEW i \in S
      PROVE  IsFiniteSet(UpTo(S, i)) /\ Cardinality(UpTo(S, i)) \in 1 .. n
  <2>1. UpTo(S, i) \in SUBSET S
    BY DEF UpTo
  <2>2. IsFiniteSet(UpTo(S, i)) /\ Cardinality(UpTo(S, i)) <= n
    BY <2>1, FS_Subset
  <2>3. i \in UpTo(S, i)
    BY DEF UpTo
  <2>4. Cardinality(UpTo(S, i)) # 0 /\ Cardinality(UpTo(S, i)) \in Nat
    BY <2>2, <2>3, FS_EmptySet, FS_CardinalityType
  <2>. QED  BY <1>1, <2>2, <2>4
<1>3. ASSUME NEW i \in S, NEW j \in S, i < j
      PROVE  Cardinality(UpTo(S, i)) < Cardinality(UpTo(S, j))
  <2>0. i \in Int /\ j \in Int /\ \A z \in S : z \in Int
    OBVIOUS
  <2>1. UpTo(S, i) \in SUBSET UpTo(S, j)
    <3>1. ASSUME NEW z \in S, z <= i PROVE z <= j
      BY <1>3, <2>0, <3>1
    <3>. QED  BY <3>1 DEF UpTo
  <2>2. j \in UpTo(S, j) /\ j \notin UpTo(S, i)
    BY <1>3 DEF UpTo
  <2>3. /\ Cardinality(UpTo(S, i)) <= Cardinality(UpTo(S, j))
        /\ Cardinality(UpTo(S, i)) # Cardinality(UpTo(S, j))
    BY <1>2, <2>1, <2>2, FS_Subset
  <2>. QED  BY <1>2, <2>3
<1>4. rank \in Injection(S, 1 .. n)
  <2>1. rank \in [S -> 1 .. n]
    BY <1>2
  <2>2. ASSUME NEW i \in S, NEW j \in S, rank[i] = rank[j] PROVE i = j
    <3>1. Cardinality(UpTo(S, i)) = Cardinality(UpTo(S, j)) /\ Cardinality(UpTo(S, i)) \in Int
      BY <1>2, <2>2
    <3>2. ~(i < j) /\ ~(j < i) /\ i \in Int /\ j \in Int
      BY <1>2, <1>3, <3>1
    <3>. QED  BY <3>2
  <2>. QED  BY <2>1, <2>2 DEF Injection, IsInjective
<1>5. IsFiniteSet(1 .. n) /\ Cardinality(1 .. n) = n
  BY <1>1, FS_Interval
<1>6. rank \in Surjection(S, 1 .. n)
  BY <1>4, <1>5, FS_Injection
<1>7. \A k \in 1 .. n : \E i \in S : Cardinality(UpTo(S, i)) = k
  BY <1>6 DEF Surjection
<1>8. \A k \in 1 .. n : Nth(S, k) \in S /\ Cardinality(UpTo(S, Nth(S, k))) = k
  BY <1>7 DEF Nth
<1>9. ASSUME NEW i \in S, NEW j \in S, Cardinality(UpTo(S, i)) = Cardinality(UpTo(S, j)) PROVE i = j
  BY <1>4, <1>9 DEF Injection, IsInjective
<1>10. \A i \in S : Nth(S, Cardinality(UpTo(S, i))) = i
  BY <1>2, <1>8, <1>9
<1>11. ASSUME NEW k \in 1 .. n, NEW l \in 1 .. n, k < l PROVE Nth(S, k) < Nth(S, l)
  <2>1. Nth(S, k) \in S /\ Nth(S, l) \in S /\ Nth(S, k) \in Int /\ Nth(S, l) \in Int
    BY <1>8
  <2>2. Cardinality(UpTo(S, Nth(S, k))) = k /\ Cardinality(UpTo(S, Nth(S, l))) = l
    BY <1>8
  <2>3. ~(Nth(S, l) < Nth(S, k)) /\ Nth(S, k) # Nth(S, l)
    BY <1>3, <1>11, <2>1, <2>2
  <2>. QED  BY <2>1, <2>3
<1>. QED  BY <1>1, <1>2, <1>8, <1>10, <1>11

\* As many integers are left when each is moved by m.
LEMMA MovedAsMany ==
    ASSUME NEW X, IsFiniteSet(X), X \subseteq Int, NEW m \in Int
    PROVE  /\ IsFiniteSet({x + m : x \in X})
           /\ Cardinality({x + m : x \in X}) = Cardinality(X)
<1>. DEFINE Y == {x + m : x \in X}
            move == [x \in X |-> x + m]
<1>1. move \in [X -> Y] /\ \A y \in Y : \E x \in X : move[x] = y
  OBVIOUS
<1>2. \A x, z \in X : move[x] = move[z] => x = z
  OBVIOUS
<1>. HIDE DEF Y, move
<1>3. move \in Bijection(X, Y)
  BY <1>1, <1>2 DEF Bijection, Injection, Surjection, IsInjective
<1>4. ExistsBijection(X, Y)
  BY <1>3 DEF ExistsBijection
<1>5. IsFiniteSet(Y) /\ Cardinality(Y) = Cardinality(X)
  BY <1>4, FS_Bijection
<1>. QED  BY <1>5 DEF Y

\* Of some positions among 1 .. n, those behind m are counted off after those up to it.
LEMMA NthBehind ==
    ASSUME NEW n \in Nat, NEW m \in 0 .. n, NEW S \in SUBSET (1 .. n),
           NEW T, T = {i \in 1 .. (n - m) : i + m \in S},
           NEW q, q = Cardinality(UpTo(S, m)), NEW t, t = Cardinality(T)
    PROVE  /\ q \in Nat /\ t \in Nat
           /\ Cardinality(S) = q + t
           /\ \A k \in 1 .. t : Nth(S, q + k) = Nth(T, k) + m
<1>. DEFINE L == UpTo(S, m)
<1>1. IsFiniteSet(S) /\ S \subseteq Int
  <2>1. IsFiniteSet(1 .. n)
    BY FS_Interval
  <2>2. IsFiniteSet(S)
    BY <2>1, FS_Subset
  <2>. QED  BY <2>2
<1>2. IsFiniteSet(T) /\ T \subseteq Int
  <2>1. n - m \in Int /\ T \in SUBSET (1 .. (n - m))
    OBVIOUS
  <2>2. IsFiniteSet(1 .. (n - m))
    BY <2>1, FS_Interval
  <2>3. IsFiniteSet(T)
    BY <2>1, <2>2, FS_Subset
  <2>. QED  BY <2>1, <2>3
<1>3. IsFiniteSet(L) /\ L \subseteq S /\ q \in Nat
  <2>1. L \in SUBSET S
    BY DEF UpTo
  <2>. QED  BY <1>1, <2>1, FS_Subset, FS_CardinalityType
<1>4. ASSUME NEW X \in SUBSET T
      PROVE  Cardinality(L \union {x + m : x \in X}) = q + Cardinality(X)
  <2>. DEFINE Y == {x + m : x \in X}
  <2>1. IsFiniteSet(X) /\ X \subseteq Int
    BY <1>2, FS_Subset
  <2>0. m \in Int
    OBVIOUS
  <2>2. IsFiniteSet(Y) /\ Cardinality(Y) = Cardinality(X)
    BY <2>0, <2>1, MovedAsMany
  <2>3. L \intersect Y = {}
    BY DEF UpTo
  <2>. HIDE DEF Y
  <2>4. Cardinality(L \union Y) = q + Cardinality(X) - 0
    BY <1>3, <2>2, <2>3, FS_Union, FS_EmptySet
  <2>5. Cardinality(X) \in Nat
    BY <2>1, FS_CardinalityType
  <2>6. Cardinality(L \union Y) = q + Cardinality(X)
    BY <1>3, <2>4, <2>5
  <2>. QED  BY <2>6 DEF Y
<1>5. S = L \union {x + m : x \in T}
  <2>1. ASSUME NEW i \in S, ~(i <= m) PROVE i \in {x + m : x \in T}
    <3>1. i - m \in T /\ (i - m) + m = i
      BY <2>1
    <3>. QED  BY <3>1
  <2>2. \A x \in T : x + m \in S
    OBVIOUS
  <2>. QED  BY <2>1, <2>2 DEF UpTo
<1>6. Cardinality(S) = q + t /\ t \in Nat
  BY <1>2, <1>4, <1>5, FS_CardinalityType
<1>7. ASSUME NEW k \in 1 .. t PROVE Nth(S, q + k) = Nth(T, k) + m
  <2>. DEFINE i == Nth(T, k)
              X == UpTo(T, i)
  <2>1. i \in T /\ Cardinality(X) = k
    BY <1>2, NthCountsOff
  <2>2. X \in SUBSET T
    BY DEF UpTo
  <2>3. UpTo(S, i + m) = L \union {x + m : x \in X}
    <3>1. \A j \in S : j <= i + m <=> j <= m \/ \E x \in X : j = x + m
      <4>1. ASSUME NEW j \in S, j <= i + m, ~(j <= m) PROVE j - m \in X /\ j = (j - m) + m
        <5>1. j - m \in T /\ j - m <= i
          BY <2>1, <4>1
        <5>. QED  BY <5>1 DEF UpTo
      <4>2. ASSUME NEW j \in S, j <= m PROVE j <= i + m
        BY <2>1, <4>2
      <4>3. ASSUME NEW x \in X PROVE x + m <= i + m
        BY <2>1, <4>3 DEF UpTo
      <4>. HIDE DEF X, i
      <4>. QED  BY <4>1, <4>2, <4>3
    <3>2. \A x \in X : x + m \in S
      BY <2>2
    <3>. HIDE DEF X, i
    <3>. QED  BY <3>1, <3>2 DEF UpTo
  <2>4. Cardinality(UpTo(S, i + m)) = q + k
    BY <1>4, <2>1, <2>2, <2>3
  <2>5. i + m \in S
    BY <2>1
  <2>. HIDE DEF i
  <2>6. Nth(S, Cardinality(UpTo(S, i + m))) = i + m
    BY <1>1, <2>5, NthCountsOff
  <2>7. Nth(S, q + k) = i + m
    BY <2>4, <2>6, Zenon
  <2>. QED  BY <2>7 DEF i
<1>. QED  BY <1>3, <1>6, <1>7

=============================================================================
