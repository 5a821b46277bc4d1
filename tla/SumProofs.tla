------------------------------ MODULE SumProofs -----------------------------
(***************************************************************************)
(* Sums over finite sets.  The library's SumFunction takes its terms in an *)
(* arbitrary order; that the order does not matter is what these lemmas    *)
(* are about.  They go by smallest counterexample: a non-empty set of      *)
(* subsets of a finite set has a minimal member.                           *)
(***************************************************************************)
EXTENDS Integers, Functions, FiniteSetsExt, FiniteSetTheorems, TLAPS

LEMMA SmallestSubset ==
  ASSUME NEW D, IsFiniteSet(D), NEW Bad \in SUBSET SUBSET D, Bad # {}
  PROVE  \E s \in Bad : \A t \in SUBSET s : t # s => t \notin Bad
<1>1. IsWellFoundedOn(StrictSubsetOrdering(D), SUBSET D)
  BY FS_StrictSubsetOrderingWellFounded, FS_FiniteSubsetsOfFinite
<1>2. PICK s \in Bad : \A t \in Bad : ~(<<t, s>> \in StrictSubsetOrdering(D))
  BY <1>1, WFMin
<1>3. ASSUME NEW t \in SUBSET s, t # s, t \in Bad PROVE FALSE
  <2>1. <<t, s>> \in StrictSubsetOrdering(D)
    BY <1>3 DEF StrictSubsetOrdering
  <2> QED BY <1>2, <1>3, <2>1
<1> QED BY <1>3

one_of(s) == CHOOSE x \in s : TRUE

\* A non-empty set of naturals has a least member.
LEMMA LeastNumber ==
  ASSUME NEW Bad \in SUBSET Nat, Bad # {}
  PROVE  \E n \in Bad : \A m \in Bad : n <= m
<1>1. PICK n \in Bad : TRUE
  OBVIOUS
<1> DEFINE below == {0 .. k : k \in {j \in Bad : j <= n}}
<1>2. below \in SUBSET SUBSET (0 .. n) /\ 0 .. n \in below
  BY <1>1
<1> DEFINE D == 0 .. n
<1>3. PICK s \in below : \A t \in SUBSET s : t # s => t \notin below
  <2>1. IsFiniteSet(D)
    BY <1>1, FS_Interval
  <2>2. below \in SUBSET SUBSET D /\ below # {}
    BY <1>2
  <2> HIDE DEF below, D
  <2> QED BY <2>1, <2>2, SmallestSubset
<1>4. PICK k \in Bad : s = 0 .. k /\ k <= n
  BY <1>3
<1>5. ASSUME NEW m \in Bad, m < k PROVE FALSE
  <2>1. 0 .. m \in below /\ 0 .. m \in SUBSET s /\ k \in s /\ k \notin 0 .. m
    BY <1>4, <1>5
  <2> QED BY <1>3, <2>1
<1> QED BY <1>4, <1>5

\* What the library's sum of f over the subsets of D satisfies.
IsSums(it, f, D) ==
    it = [s \in SUBSET D |-> IF s = {} THEN 0 ELSE f[one_of(s)] + it[s \ {one_of(s)}]]

LEMMA SumIsSums ==
  ASSUME NEW f, NEW D
  PROVE  SumFunctionOnSet(f, D) = (CHOOSE it : IsSums(it, f, D))[D]
  BY DEF SumFunctionOnSet, FoldFunctionOnSet, MapThenFoldSet, IsSums, one_of

LEMMA SumsUnfold ==
  ASSUME NEW it, NEW f, NEW D, IsSums(it, f, D), NEW s \in SUBSET D
  PROVE  /\ s = {} => it[s] = 0
         /\ s # {} => /\ one_of(s) \in s
                      /\ s \ {one_of(s)} \in SUBSET D
                      /\ it[s] = f[one_of(s)] + it[s \ {one_of(s)}]
<1>1. it[s] = IF s = {} THEN 0 ELSE f[one_of(s)] + it[s \ {one_of(s)}]
  BY DEF IsSums
<1>2. s # {} => one_of(s) \in s
  BY DEF one_of
<1> QED BY <1>1, <1>2

LEMMA SumsTop ==
  ASSUME NEW it, NEW f, NEW s, IsSums(it, f, s), s # {}
  PROVE  /\ one_of(s) \in s /\ s \ {one_of(s)} \in SUBSET s
         /\ it[s] = f[one_of(s)] + it[s \ {one_of(s)}]
<1>1. s \in SUBSET s
  OBVIOUS
<1> QED BY <1>1, SumsUnfold

\* Two such functions agree where their terms do.
LEMMA SumsAgree ==
  ASSUME NEW D, IsFiniteSet(D), NEW it, NEW f, IsSums(it, f, D),
         NEW E, NEW other, NEW g, IsSums(other, g, E),
         NEW u \in SUBSET D, u \subseteq E, \A x \in u : f[x] = g[x]
  PROVE  it[u] = other[u]
<1> DEFINE Bad == {s \in SUBSET u : it[s] # other[s]}
<1>1. SUFFICES ASSUME Bad # {} PROVE FALSE
  OBVIOUS
<1>2. IsFiniteSet(u)
  BY FS_Subset
<1>3. PICK s \in Bad : \A t \in SUBSET s : t # s => t \notin Bad
  <2>1. Bad \in SUBSET SUBSET u
    OBVIOUS
  <2> HIDE DEF Bad
  <2> QED BY <1>1, <1>2, <2>1, SmallestSubset
<1>4. s \in SUBSET D /\ s \in SUBSET E
  OBVIOUS
<1>5. s # {}
  BY <1>4, SumsUnfold
<1> DEFINE x == one_of(s)
<1>6. x \in s /\ it[s] = f[x] + it[s \ {x}] /\ other[s] = g[x] + other[s \ {x}]
  BY <1>4, <1>5, SumsUnfold
<1> HIDE DEF x
<1>7. it[s \ {x}] = other[s \ {x}]
  BY <1>3, <1>6
<1> QED BY <1>6, <1>7

LEMMA SumsExist ==
  ASSUME NEW D, IsFiniteSet(D), NEW f \in [D -> Int]
  PROVE  \E it \in [SUBSET D -> Int] : IsSums(it, f, D)
<1> DEFINE Has(T) == \E it \in [SUBSET T -> Int] : IsSums(it, f, T)
           Bad == {T \in SUBSET D : ~Has(T)}
<1>1. SUFFICES ASSUME Bad # {} PROVE FALSE
  OBVIOUS
<1>2. PICK T \in Bad : \A t \in SUBSET T : t # T => t \notin Bad
  <2>1. Bad \in SUBSET SUBSET D
    OBVIOUS
  <2> HIDE DEF Bad
  <2> QED BY <1>1, <2>1, SmallestSubset
<1> DEFINE at(s) == CHOOSE it : it \in [SUBSET s -> Int] /\ IsSums(it, f, s)
           g == [s \in SUBSET T |-> IF s = {} THEN 0
                                    ELSE f[one_of(s)] + at(s \ {one_of(s)})[s \ {one_of(s)}]]
<1>3. ASSUME NEW s \in SUBSET T, s # T
      PROVE  at(s) \in [SUBSET s -> Int] /\ IsSums(at(s), f, s)
  <2>1. Has(s)
    BY <1>2, <1>3
  <2> QED BY <2>1
<1> HIDE DEF at
<1>4. ASSUME NEW s \in SUBSET T, s # T PROVE g[s] = at(s)[s]
  <2>1. IsSums(at(s), f, s) /\ at(s) \in [SUBSET s -> Int]
    BY <1>3, <1>4
  <2>2. CASE s = {}
    BY <2>1, <2>2, SumsUnfold
  <2>3. CASE s # {}
    <3> DEFINE x == one_of(s)
               r == s \ {x}
    <3>1. x \in s /\ r \in SUBSET s /\ at(s)[s] = f[x] + at(s)[r]
      BY <2>1, <2>3, SumsTop
    <3>2. g[s] = f[x] + at(r)[r]
      BY <2>3
    <3>3. IsSums(at(r), f, r)
      BY <1>3, <3>1
    <3>4. IsFiniteSet(s)
      BY FS_Subset
    <3> HIDE DEF x, r
    <3>5. at(s)[r] = at(r)[r]
      BY <2>1, <3>1, <3>3, <3>4, SumsAgree
    <3> QED BY <3>1, <3>2, <3>5
  <2> QED BY <2>2, <2>3
<1>5. ASSUME NEW s \in SUBSET T, s # {}
      PROVE  /\ one_of(s) \in s /\ s \ {one_of(s)} \in SUBSET T
             /\ at(s \ {one_of(s)})[s \ {one_of(s)}] = g[s \ {one_of(s)}]
             /\ g[s \ {one_of(s)}] \in Int
  <2> DEFINE r == s \ {one_of(s)}
  <2>1. one_of(s) \in s
    BY <1>5 DEF one_of
  <2>2. r \in SUBSET T /\ r # T
    BY <2>1
  <2>3. at(r)[r] \in Int
    <3> HIDE DEF r
    <3>1. at(r) \in [SUBSET r -> Int] /\ r \in SUBSET r
      BY <1>3, <2>2
    <3> QED BY <3>1
  <2> HIDE DEF r, g
  <2>4. g[r] = at(r)[r]
    BY <1>4, <2>2
  <2> QED BY <2>1, <2>2, <2>3, <2>4 DEF r
<1>6. g = [s \in SUBSET T |-> IF s = {} THEN 0 ELSE f[one_of(s)] + g[s \ {one_of(s)}]]
  <2>1. ASSUME NEW s \in SUBSET T
        PROVE  g[s] = IF s = {} THEN 0 ELSE f[one_of(s)] + g[s \ {one_of(s)}]
    <3>1. g[s] = IF s = {} THEN 0 ELSE f[one_of(s)] + at(s \ {one_of(s)})[s \ {one_of(s)}]
      OBVIOUS
    <3> HIDE DEF g
    <3> QED BY <1>5, <3>1
  <2>2. g = [s \in SUBSET T |-> g[s]]
    OBVIOUS
  <2> HIDE DEF g
  <2> QED BY <2>1, <2>2
<1>7. g \in [SUBSET T -> Int]
  <2>1. ASSUME NEW s \in SUBSET T PROVE g[s] \in Int
    <3>1. CASE s = {}
      <4>1. g[s] = 0
        BY <3>1
      <4> HIDE DEF g
      <4> QED BY <4>1
    <3>2. CASE s # {}
      <4>1. f[one_of(s)] \in Int
        BY <1>5, <3>2
      <4>2. g[s] = f[one_of(s)] + g[s \ {one_of(s)}]
        BY <1>5, <3>2
      <4> HIDE DEF g
      <4>3. g[s \ {one_of(s)}] \in Int
        BY <1>5, <3>2
      <4> QED BY <4>1, <4>2, <4>3
    <3> QED BY <3>1, <3>2
  <2>2. g = [s \in SUBSET T |-> g[s]]
    OBVIOUS
  <2> HIDE DEF g
  <2> QED BY <2>1, <2>2
<1> HIDE DEF g
<1>8. IsSums(g, f, T)
  BY <1>6 DEF IsSums
<1>9. Has(T)
  BY <1>7, <1>8
<1> QED BY <1>9

TermsAdd(it, f, D) ==
    \A s \in SUBSET D : \A x \in D \ s : it[s \union {x}] = f[x] + it[s]

\* The order in which the terms are taken does not matter: any one can be the last.
LEMMA SumsAnyOrder ==
  ASSUME NEW D, IsFiniteSet(D), NEW f \in [D -> Int], NEW it \in [SUBSET D -> Int],
         IsSums(it, f, D)
  PROVE  TermsAdd(it, f, D)
<1> USE DEF TermsAdd
<1> DEFINE Bad == {s \in SUBSET D : \E x \in D \ s : it[s \union {x}] # f[x] + it[s]}
<1>1. SUFFICES ASSUME Bad # {} PROVE FALSE
  OBVIOUS
<1>2. PICK s \in Bad : \A t \in SUBSET s : t # s => t \notin Bad
  <2>1. Bad \in SUBSET SUBSET D
    OBVIOUS
  <2> HIDE DEF Bad
  <2> QED BY <1>1, <2>1, SmallestSubset
<1>3. PICK x \in D \ s : it[s \union {x}] # f[x] + it[s]
  BY <1>2
<1>4. ASSUME NEW t \in SUBSET s, t # s, NEW y \in D \ t
      PROVE  it[t \union {y}] = f[y] + it[t]
  BY <1>2, <1>4
<1>5. s \in SUBSET D
  OBVIOUS
<1> HIDE DEF Bad
<1>6. PICK u \in SUBSET D : u = s \union {x}
  BY <1>5
<1>7. PICK c \in u : it[u] = f[c] + it[u \ {c}]
  <2>1. u # {}
    BY <1>6
  <2>2. one_of(u) \in u /\ it[u] = f[one_of(u)] + it[u \ {one_of(u)}]
    BY <2>1, SumsUnfold
  <2> QED BY <2>2
<1>8. CASE c = x
  <2>1. u \ {c} = s
    BY <1>6, <1>8
  <2> QED BY <1>3, <1>6, <1>7, <1>8, <2>1
<1>9. CASE c # x
  <2>1. c \in s
    BY <1>6, <1>7, <1>9
  <2>2. PICK t \in SUBSET s : t = s \ {c}
    OBVIOUS
  <2>3. t # s /\ x \in D \ t /\ c \in D \ t
    BY <1>5, <2>1, <2>2
  <2>4. u \ {c} = t \union {x} /\ s = t \union {c}
    BY <1>6, <1>9, <2>1, <2>2
  <2>5. it[t \union {x}] = f[x] + it[t] /\ it[t \union {c}] = f[c] + it[t]
    BY <1>4, <2>3
  <2>6. f[c] \in Int /\ f[x] \in Int /\ it[t] \in Int
    BY <1>5, <2>3
  <2>7. it[u] = f[c] + (f[x] + it[t]) /\ it[s] = f[c] + it[t]
    BY <1>7, <2>4, <2>5
  <2>8. it[u] # f[x] + it[s]
    BY <1>3, <1>6
  <2> QED BY <2>6, <2>7, <2>8
<1> QED BY <1>8, <1>9

\* The sum of the terms of f over a subset of its finite domain.
LEMMA SumsOfSubsets ==
  ASSUME NEW D, IsFiniteSet(D), NEW f \in [D -> Int]
  PROVE  \E it \in [SUBSET D -> Int] :
           /\ \A s \in SUBSET D : it[s] = SumFunction([d \in s |-> f[d]])
           /\ it[{}] = 0
           /\ TermsAdd(it, f, D)
<1>1. PICK it \in [SUBSET D -> Int] : IsSums(it, f, D)
  BY SumsExist
<1>2. ASSUME NEW s \in SUBSET D PROVE it[s] = SumFunction([d \in s |-> f[d]])
  <2> DEFINE g == [d \in s |-> f[d]]
             other == CHOOSE o : IsSums(o, g, s)
  <2>1. IsFiniteSet(s) /\ g \in [s -> Int]
    BY FS_Subset
  <2>2. \A x \in s : f[x] = g[x]
    OBVIOUS
  <2>3. DOMAIN g = s
    OBVIOUS
  <2> HIDE DEF g
  <2>4. \E o : IsSums(o, g, s)
    BY <2>1, SumsExist
  <2>5. IsSums(other, g, s)
    BY <2>4
  <2>6. SumFunction(g) = other[s]
    BY <2>3, SumIsSums DEF SumFunction
  <2> HIDE DEF other
  <2>7. it[s] = other[s]
    BY <1>1, <2>2, <2>5, SumsAgree
  <2> QED BY <2>6, <2>7 DEF g
<1>3. it[{}] = 0
  BY <1>1, SumsUnfold
<1>4. TermsAdd(it, f, D)
  BY <1>1, SumsAnyOrder
<1> QED BY <1>2, <1>3, <1>4

\* An empty sum, and one term more.
LEMMA SumNothing == \A f : DOMAIN f = {} => SumFunction(f) = 0
<1> SUFFICES ASSUME NEW f, DOMAIN f = {} PROVE SumFunction(f) = 0
  OBVIOUS
<1> DEFINE D == {}
<1>1. IsFiniteSet(D) /\ [d \in D |-> 0] \in [D -> Int]
  BY FS_EmptySet
<1>2. SumFunction(f) = (CHOOSE it : IsSums(it, f, D))[D]
  BY SumIsSums DEF SumFunction
<1>3. IsSums([s \in SUBSET D |-> 0], f, D)
  BY DEF IsSums
<1>4. IsSums(CHOOSE it : IsSums(it, f, D), f, D)
  BY <1>3
<1> QED BY <1>2, <1>4, SumsUnfold

LEMMA SumOneMore ==
  ASSUME NEW D, IsFiniteSet(D), NEW x, x \notin D, NEW f \in [D \union {x} -> Int]
  PROVE  /\ SumFunction(f) = f[x] + SumFunction([d \in D |-> f[d]])
         /\ SumFunction([d \in D |-> f[d]]) \in Int
<1> DEFINE E == D \union {x}
<1>1. IsFiniteSet(E) /\ f \in [E -> Int] /\ D \in SUBSET E /\ E \in SUBSET E /\ x \in E \ D
  BY FS_AddElement
<1>2. f = [d \in E |-> f[d]]
  OBVIOUS
<1> HIDE DEF E
<1>3. PICK it \in [SUBSET E -> Int] :
        /\ \A s \in SUBSET E : it[s] = SumFunction([d \in s |-> f[d]])
        /\ it[{}] = 0
        /\ TermsAdd(it, f, E)
  BY <1>1, SumsOfSubsets
<1>4. it[D] = SumFunction([d \in D |-> f[d]]) /\ it[E] = SumFunction([d \in E |-> f[d]])
  BY <1>1, <1>3
<1>5. it[D \union {x}] = f[x] + it[D] /\ it[D] \in Int
  BY <1>1, <1>3 DEF TermsAdd
<1> QED BY <1>2, <1>4, <1>5 DEF E

\* f is g with the term at x added.
OneTermMore(f, g, x) ==
    \E D : /\ IsFiniteSet(D) /\ x \notin D
           /\ f \in [D \union {x} -> Int]
           /\ g = [d \in D |-> f[d]]

LEMMA SumStep ==
  ASSUME NEW f, NEW g, NEW x, OneTermMore(f, g, x)
  PROVE  SumFunction(f) = f[x] + SumFunction(g) /\ SumFunction(g) \in Int
<1>1. PICK D : /\ IsFiniteSet(D) /\ x \notin D
               /\ f \in [D \union {x} -> Int]
               /\ g = [d \in D |-> f[d]]
  BY DEF OneTermMore
<1> QED BY <1>1, SumOneMore

\* Leaving out terms that are not negative does not increase a sum.
LEMMA SumMonotone ==
  ASSUME NEW D, IsFiniteSet(D), NEW f \in [D -> Nat], NEW u \in SUBSET D
  PROVE  /\ SumFunction([d \in u |-> f[d]]) <= SumFunction(f)
         /\ SumFunction(f) \in Int /\ SumFunction([d \in u |-> f[d]]) \in Int
<1>1. f \in [D -> Int]
  OBVIOUS
<1>2. PICK it \in [SUBSET D -> Int] :
        /\ \A s \in SUBSET D : it[s] = SumFunction([d \in s |-> f[d]])
        /\ it[{}] = 0
        /\ TermsAdd(it, f, D)
  BY <1>1, SumsOfSubsets
<1> DEFINE Bad == {v \in SUBSET (D \ u) : ~(it[u] <= it[u \union v])}
<1>3. Bad = {}
  <2>1. SUFFICES ASSUME Bad # {} PROVE FALSE
    OBVIOUS
  <2>2. PICK v \in Bad : \A t \in SUBSET v : t # v => t \notin Bad
    <3>1. Bad \in SUBSET SUBSET D
      OBVIOUS
    <3> HIDE DEF Bad
    <3> QED BY <2>1, <3>1, SmallestSubset
  <2>3. v \in SUBSET (D \ u) /\ ~(it[u] <= it[u \union v])
    OBVIOUS
  <2>4. it[u] \in Int
    OBVIOUS
  <2>5. v # {}
    <3>1. SUFFICES ASSUME v = {} PROVE FALSE
      OBVIOUS
    <3>2. u \union v = u
      BY <3>1
    <3>3. ~(it[u] <= it[u])
      BY <2>3, <3>2
    <3> QED BY <2>4, <3>3
  <2>. PICK y \in v : TRUE
    BY <2>5
  <2> DEFINE t == v \ {y}
  <2>6. t \in SUBSET v /\ t # v /\ t \in SUBSET (D \ u)
    BY <2>3, <2>5
  <2>7. it[u] <= it[u \union t]
    BY <2>2, <2>6
  <2> HIDE DEF Bad
  <2>8. u \union v = (u \union t) \union {y} /\ u \union t \in SUBSET D /\ y \in D \ (u \union t)
    BY <2>3, <2>5
  <2> HIDE DEF t
  <2>9. it[u \union v] = f[y] + it[u \union t] /\ f[y] \in Nat /\ it[u \union t] \in Int
    BY <1>2, <2>8 DEF TermsAdd
  <2> QED BY <2>3, <2>4, <2>7, <2>9
<1>4. it[u] <= it[u \union (D \ u)]
  BY <1>3
<1>5. u \union (D \ u) = D /\ D \in SUBSET D
  OBVIOUS
<1>6. it[D] = SumFunction([d \in D |-> f[d]]) /\ it[u] = SumFunction([d \in u |-> f[d]])
  BY <1>2, <1>5
<1>7. f = [d \in D |-> f[d]]
  OBVIOUS
<1>8. it[D] \in Int /\ it[u] \in Int
  BY <1>5
<1> QED BY <1>4, <1>5, <1>6, <1>7, <1>8

\* A sum grows with its terms.
LEMMA SumBelow ==
  ASSUME NEW D, IsFiniteSet(D), NEW f \in [D -> Nat], NEW g \in [D -> Nat],
         \A d \in D : f[d] <= g[d]
  PROVE  SumFunction(f) <= SumFunction(g)
<1>1. f \in [D -> Int] /\ g \in [D -> Int]
  OBVIOUS
<1>2. PICK it \in [SUBSET D -> Int] :
        /\ \A s \in SUBSET D : it[s] = SumFunction([d \in s |-> f[d]])
        /\ it[{}] = 0
        /\ TermsAdd(it, f, D)
  BY <1>1, SumsOfSubsets
<1>3. PICK on \in [SUBSET D -> Int] :
        /\ \A s \in SUBSET D : on[s] = SumFunction([d \in s |-> g[d]])
        /\ on[{}] = 0
        /\ TermsAdd(on, g, D)
  BY <1>1, SumsOfSubsets
<1> DEFINE Bad == {v \in SUBSET D : ~(it[v] <= on[v])}
<1>4. Bad = {}
  <2>1. SUFFICES ASSUME Bad # {} PROVE FALSE
    OBVIOUS
  <2>2. PICK v \in Bad : \A t \in SUBSET v : t # v => t \notin Bad
    <3>1. Bad \in SUBSET SUBSET D
      OBVIOUS
    <3> HIDE DEF Bad
    <3> QED BY <2>1, <3>1, SmallestSubset
  <2>3. v \in SUBSET D /\ ~(it[v] <= on[v])
    OBVIOUS
  <2>4. v # {}
    <3>1. SUFFICES ASSUME v = {} PROVE FALSE
      OBVIOUS
    <3>2. it[v] = 0 /\ on[v] = 0
      BY <1>2, <1>3, <3>1
    <3> HIDE DEF Bad
    <3>3. ~(0 <= 0)
      BY <2>3, <3>2
    <3> QED BY <3>3
  <2>5. PICK y \in v : TRUE
    BY <2>4
  <2> DEFINE t == v \ {y}
  <2>6. t \in SUBSET v /\ t # v /\ t \in SUBSET D
    BY <2>3
  <2>7. it[t] <= on[t]
    BY <2>2, <2>6
  <2> HIDE DEF Bad
  <2>8. v = t \union {y} /\ y \in D \ t
    BY <2>3
  <2> HIDE DEF t
  <2>9. /\ it[v] = f[y] + it[t] /\ on[v] = g[y] + on[t]
        /\ f[y] \in Nat /\ g[y] \in Nat /\ it[t] \in Int /\ on[t] \in Int
    BY <1>2, <1>3, <2>6, <2>8 DEF TermsAdd
  <2> QED BY <2>3, <2>7, <2>8, <2>9
<1>5. D \in SUBSET D
  OBVIOUS
<1>6. it[D] <= on[D]
  BY <1>4, <1>5
<1>7. f = [d \in D |-> f[d]] /\ g = [d \in D |-> g[d]]
  OBVIOUS
<1> QED BY <1>2, <1>3, <1>5, <1>6, <1>7

\* A sum of natural numbers is one.
LEMMA SumNatural ==
  ASSUME NEW D, IsFiniteSet(D), NEW f \in [D -> Nat]
  PROVE  SumFunction(f) \in Nat
<1> DEFINE none == [d \in {} |-> f[d]]
<1>1. {} \in SUBSET D /\ DOMAIN none = {}
  OBVIOUS
<1>2. SumFunction(none) <= SumFunction(f) /\ SumFunction(f) \in Int
  BY <1>1, SumMonotone
<1> HIDE DEF none
<1>3. SumFunction(none) = 0
  BY <1>1, SumNothing
<1> QED BY <1>2, <1>3

\* One term changed.
LEMMA SumUpdate ==
  ASSUME NEW D, IsFiniteSet(D), NEW f \in [D -> Nat], NEW x \in D, NEW n \in Nat
  PROVE  SumFunction([f EXCEPT ![x] = @ + n]) = SumFunction(f) + n
<1> DEFINE E == D \ {x}
           g == [f EXCEPT ![x] = @ + n]
           rest == [d \in E |-> f[d]]
<1>1. IsFiniteSet(E) /\ x \notin E /\ E \union {x} = D
  BY FS_Subset
<1>2. f \in [E \union {x} -> Int] /\ g \in [E \union {x} -> Int]
  BY <1>1
<1>3. rest = [d \in E |-> g[d]] /\ g[x] = f[x] + n /\ f[x] \in Nat
  OBVIOUS
<1> HIDE DEF E, g
<1>4. OneTermMore(f, rest, x)
  BY <1>1, <1>2 DEF OneTermMore
<1> HIDE DEF rest
<1>5. OneTermMore(g, rest, x)
  <2>1. rest = [d \in E |-> g[d]]
    BY <1>3
  <2> QED BY <1>1, <1>2, <2>1 DEF OneTermMore
<1>6. /\ SumFunction(f) = f[x] + SumFunction(rest) /\ SumFunction(rest) \in Int
      /\ SumFunction(g) = g[x] + SumFunction(rest)
  BY <1>4, <1>5, SumStep
<1>7. SumFunction(g) = SumFunction(f) + n
  BY <1>3, <1>6
<1> QED BY <1>7 DEF g

\* A sum of zeros.
LEMMA ZeroSum == ASSUME NEW D, IsFiniteSet(D) PROVE SumFunction([d \in D |-> 0]) = 0
<1> DEFINE f == [d \in D |-> 0]
<1>0. f \in [D -> Int] /\ f = [d \in D |-> f[d]] /\ \A d \in D : f[d] = 0
  OBVIOUS
<1> HIDE DEF f
<1>1. PICK it \in [SUBSET D -> Int] :
        /\ \A s \in SUBSET D : it[s] = SumFunction([d \in s |-> f[d]])
        /\ it[{}] = 0
        /\ TermsAdd(it, f, D)
  BY <1>0, SumsOfSubsets
<1> DEFINE Bad == {v \in SUBSET D : it[v] # 0}
<1>2. Bad = {}
  <2>1. SUFFICES ASSUME Bad # {} PROVE FALSE
    OBVIOUS
  <2>2. PICK v \in Bad : \A t \in SUBSET v : t # v => t \notin Bad
    <3>1. Bad \in SUBSET SUBSET D
      OBVIOUS
    <3> HIDE DEF Bad
    <3> QED BY <2>1, <3>1, SmallestSubset
  <2>3. v \in SUBSET D /\ it[v] # 0
    OBVIOUS
  <2>4. PICK y \in v : TRUE
    BY <1>1, <2>3
  <2> DEFINE t == v \ {y}
  <2>5. t \in SUBSET v /\ t # v /\ t \in SUBSET D
    BY <2>3
  <2>6. it[t] = 0
    BY <2>2, <2>5
  <2> HIDE DEF Bad
  <2>7. v = t \union {y} /\ y \in D \ t
    BY <2>3
  <2> HIDE DEF t
  <2>8. it[v] = f[y] + it[t] /\ f[y] = 0
    BY <1>0, <1>1, <2>5, <2>7 DEF TermsAdd
  <2> QED BY <2>3, <2>6, <2>8
<1>3. D \in SUBSET D
  OBVIOUS
<1>4. it[D] = 0 /\ it[D] = SumFunction([d \in D |-> f[d]])
  BY <1>1, <1>2, <1>3
<1> QED BY <1>0, <1>4 DEF f

\* Terms that are zero can be left out.
LEMMA SumWithoutZeros ==
  ASSUME NEW D, IsFiniteSet(D), NEW f \in [D -> Nat], NEW u \in SUBSET D, \A d \in D \ u : f[d] = 0
  PROVE  SumFunction([d \in u |-> f[d]]) = SumFunction(f)
<1>1. f \in [D -> Int] /\ f = [d \in D |-> f[d]]
  OBVIOUS
<1>2. PICK it \in [SUBSET D -> Int] :
        /\ \A s \in SUBSET D : it[s] = SumFunction([d \in s |-> f[d]])
        /\ it[{}] = 0
        /\ TermsAdd(it, f, D)
  BY <1>1, SumsOfSubsets
<1> DEFINE Bad == {v \in SUBSET (D \ u) : it[u] # it[u \union v]}
<1>3. Bad = {}
  <2>1. SUFFICES ASSUME Bad # {} PROVE FALSE
    OBVIOUS
  <2>2. PICK v \in Bad : \A t \in SUBSET v : t # v => t \notin Bad
    <3>1. Bad \in SUBSET SUBSET D
      OBVIOUS
    <3> HIDE DEF Bad
    <3> QED BY <2>1, <3>1, SmallestSubset
  <2>3. v \in SUBSET (D \ u) /\ it[u] # it[u \union v]
    OBVIOUS
  <2>4. v # {}
    <3>1. SUFFICES ASSUME v = {} PROVE FALSE
      OBVIOUS
    <3>2. u \union v = u
      BY <3>1
    <3> QED BY <2>3, <3>2
  <2>5. PICK y \in v : TRUE
    BY <2>4
  <2> DEFINE t == v \ {y}
  <2>6. t \in SUBSET v /\ t # v /\ t \in SUBSET (D \ u)
    BY <2>3, <2>5
  <2>7. it[u] = it[u \union t]
    BY <2>2, <2>6
  <2> HIDE DEF Bad
  <2>8. u \union v = (u \union t) \union {y} /\ u \union t \in SUBSET D /\ y \in D \ (u \union t)
    BY <2>3, <2>5
  <2>9. f[y] = 0
    BY <2>3, <2>5
  <2> HIDE DEF t
  <2>10. it[u \union v] = f[y] + it[u \union t] /\ it[u \union t] \in Int
    BY <1>2, <2>8 DEF TermsAdd
  <2> QED BY <2>3, <2>7, <2>9, <2>10
<1>4. it[u] = it[u \union (D \ u)]
  BY <1>3
<1>5. u \union (D \ u) = D /\ D \in SUBSET D
  OBVIOUS
<1>6. it[D] = SumFunction([d \in D |-> f[d]]) /\ it[u] = SumFunction([d \in u |-> f[d]])
  BY <1>2, <1>5
<1> QED BY <1>1, <1>4, <1>5, <1>6

\* A sum of integers is an integer; sums that agree but for one term, and sums of sums.
LEMMA SumInteger ==
  ASSUME NEW D, IsFiniteSet(D), NEW f \in [D -> Int] PROVE SumFunction(f) \in Int
<1>1. PICK it \in [SUBSET D -> Int] :
        /\ \A s \in SUBSET D : it[s] = SumFunction([d \in s |-> f[d]])
        /\ it[{}] = 0
        /\ TermsAdd(it, f, D)
  BY SumsOfSubsets
<1>2. D \in SUBSET D /\ f = [d \in D |-> f[d]]
  OBVIOUS
<1> QED BY <1>1, <1>2

LEMMA SumChanged ==
  ASSUME NEW D, IsFiniteSet(D), NEW f \in [D -> Int], NEW g \in [D -> Int], NEW x \in D,
         \A d \in D \ {x} : f[d] = g[d]
  PROVE  SumFunction(g) = SumFunction(f) + (g[x] - f[x])
<1> DEFINE E == D \ {x}
           rest == [d \in E |-> f[d]]
<1>1. IsFiniteSet(E) /\ x \notin E /\ E \union {x} = D
  BY FS_Subset
<1>2. f \in [E \union {x} -> Int] /\ g \in [E \union {x} -> Int] /\ f[x] \in Int /\ g[x] \in Int
  BY <1>1
<1>3. rest = [d \in E |-> g[d]]
  OBVIOUS
<1> HIDE DEF E
<1>4. OneTermMore(f, rest, x)
  BY <1>1, <1>2 DEF OneTermMore
<1> HIDE DEF rest
<1>5. OneTermMore(g, rest, x)
  BY <1>1, <1>2, <1>3 DEF OneTermMore
<1>6. /\ SumFunction(f) = f[x] + SumFunction(rest) /\ SumFunction(rest) \in Int
      /\ SumFunction(g) = g[x] + SumFunction(rest)
  BY <1>4, <1>5, SumStep
<1> QED BY <1>2, <1>6

LEMMA SumOneTerm ==
  ASSUME NEW D, IsFiniteSet(D), NEW f \in [D -> Nat], NEW g \in [D -> Nat], NEW x \in D,
         \A d \in D \ {x} : f[d] = g[d]
  PROVE  SumFunction(g) = SumFunction(f) + (g[x] - f[x])
<1>1. f \in [D -> Int] /\ g \in [D -> Int]
  OBVIOUS
<1> QED BY <1>1, SumChanged

\* f is g and h, term by term.
AddsUp(D, f, g, h) ==
    /\ IsFiniteSet(D) /\ f \in [D -> Int] /\ g \in [D -> Int] /\ h \in [D -> Int]
    /\ \A d \in D : f[d] = g[d] + h[d]

LEMMA SumOfSums ==
  ASSUME NEW D, NEW f, NEW g, NEW h, AddsUp(D, f, g, h)
  PROVE  SumFunction(f) = SumFunction(g) + SumFunction(h)
<1>0. /\ IsFiniteSet(D) /\ f \in [D -> Int] /\ g \in [D -> Int] /\ h \in [D -> Int]
      /\ \A d \in D : f[d] = g[d] + h[d]
  BY DEF AddsUp
<1>1. PICK if \in [SUBSET D -> Int] :
        /\ \A s \in SUBSET D : if[s] = SumFunction([d \in s |-> f[d]])
        /\ if[{}] = 0
        /\ TermsAdd(if, f, D)
  BY <1>0, SumsOfSubsets
<1>2. PICK ig \in [SUBSET D -> Int] :
        /\ \A s \in SUBSET D : ig[s] = SumFunction([d \in s |-> g[d]])
        /\ ig[{}] = 0
        /\ TermsAdd(ig, g, D)
  BY <1>0, SumsOfSubsets
<1>3. PICK ih \in [SUBSET D -> Int] :
        /\ \A s \in SUBSET D : ih[s] = SumFunction([d \in s |-> h[d]])
        /\ ih[{}] = 0
        /\ TermsAdd(ih, h, D)
  BY <1>0, SumsOfSubsets
<1> DEFINE Bad == {v \in SUBSET D : if[v] # ig[v] + ih[v]}
<1>4. Bad = {}
  <2>1. SUFFICES ASSUME Bad # {} PROVE FALSE
    OBVIOUS
  <2>2. PICK v \in Bad : \A t \in SUBSET v : t # v => t \notin Bad
    <3>1. Bad \in SUBSET SUBSET D
      OBVIOUS
    <3> HIDE DEF Bad
    <3> QED BY <1>0, <2>1, <3>1, SmallestSubset
  <2>3. v \in SUBSET D /\ if[v] # ig[v] + ih[v]
    OBVIOUS
  <2>4. if[{}] = ig[{}] + ih[{}]
    BY <1>1, <1>2, <1>3
  <2>5. v # {}
    BY <2>3, <2>4
  <2>6. PICK y \in v : TRUE
    BY <2>5
  <2> DEFINE t == v \ {y}
  <2>7. t \in SUBSET v /\ t # v /\ t \in SUBSET D
    BY <2>3
  <2>8. if[t] = ig[t] + ih[t]
    BY <2>2, <2>7
  <2> HIDE DEF Bad
  <2>9. v = t \union {y} /\ y \in D \ t
    BY <2>3
  <2> HIDE DEF t
  <2>10. /\ if[v] = f[y] + if[t] /\ ig[v] = g[y] + ig[t] /\ ih[v] = h[y] + ih[t]
         /\ f[y] = g[y] + h[y]
    BY <1>0, <1>1, <1>2, <1>3, <2>7, <2>9 DEF TermsAdd
  <2>11. g[y] \in Int /\ h[y] \in Int /\ ig[t] \in Int /\ ih[t] \in Int
    BY <1>0, <2>7, <2>9
  <2> QED BY <2>3, <2>8, <2>10, <2>11
<1>5. D \in SUBSET D /\ f = [d \in D |-> f[d]] /\ g = [d \in D |-> g[d]] /\ h = [d \in D |-> h[d]]
  BY <1>0
<1>6. if[D] = ig[D] + ih[D]
  BY <1>4, <1>5
<1> QED BY <1>1, <1>2, <1>3, <1>5, <1>6

\* The sum of the first n terms.
Prefix(f, n) == SumFunction([d \in 1 .. n |-> f[d]])

LEMMA PrefixStep ==
  ASSUME NEW N \in Nat, NEW f \in [1 .. N -> Int], NEW n \in 1 .. N
  PROVE  Prefix(f, n) = f[n] + Prefix(f, n - 1) /\ Prefix(f, n - 1) \in Int
<1> DEFINE D == 1 .. (n - 1)
           g == [d \in 1 .. n |-> f[d]]
<1>1. n - 1 \in Nat /\ IsFiniteSet(D) /\ n \notin D
  BY FS_Interval
<1>2. 1 .. n = D \union {n} /\ n \in 1 .. n /\ D \subseteq 1 .. n /\ 1 .. n \subseteq 1 .. N
  OBVIOUS
<1>3. g \in [D \union {n} -> Int] /\ g[n] = f[n] /\ [d \in D |-> g[d]] = [d \in D |-> f[d]]
  BY <1>2
<1> DEFINE rest == [d \in D |-> f[d]]
<1> HIDE DEF D, g
<1>4. OneTermMore(g, rest, n)
  <2>1. rest = [d \in D |-> g[d]]
    BY <1>3
  <2> HIDE DEF rest
  <2> QED BY <1>1, <1>3, <2>1 DEF OneTermMore
<1> HIDE DEF rest
<1>5. SumFunction(g) = g[n] + SumFunction(rest) /\ SumFunction(rest) \in Int
  BY <1>4, SumStep
<1> QED BY <1>3, <1>5 DEF Prefix, D, g, rest

LEMMA PrefixNone == \A f : Prefix(f, 0) = 0
<1> SUFFICES ASSUME NEW f PROVE Prefix(f, 0) = 0
  OBVIOUS
<1> DEFINE g == [d \in 1 .. 0 |-> f[d]]
<1>1. DOMAIN g = {}
  OBVIOUS
<1> HIDE DEF g
<1>2. SumFunction(g) = 0
  BY <1>1, SumNothing
<1> QED BY <1>2 DEF Prefix, g

LEMMA PrefixAll ==
  ASSUME NEW N \in Nat, NEW f \in [1 .. N -> Int] PROVE Prefix(f, N) = SumFunction(f)
<1>1. f = [d \in 1 .. N |-> f[d]]
  OBVIOUS
<1> QED BY <1>1 DEF Prefix

\* A term is added at the end.
LEMMA SumExtended ==
  ASSUME NEW n \in Nat, NEW f \in [1 .. n -> Int], NEW g \in [1 .. n + 1 -> Int],
         \A k \in 1 .. n : g[k] = f[k]
  PROVE  SumFunction(g) = SumFunction(f) + g[n + 1]
<1>1. Prefix(g, n + 1) = g[n + 1] + Prefix(g, n) /\ Prefix(g, n) \in Int
  <2>1. n + 1 \in 1 .. n + 1 /\ (n + 1) - 1 = n /\ n + 1 \in Nat /\ g \in [1 .. n + 1 -> Int]
    OBVIOUS
  <2> HIDE DEF Prefix
  <2>2. Prefix(g, n + 1) = g[n + 1] + Prefix(g, (n + 1) - 1) /\ Prefix(g, (n + 1) - 1) \in Int
    BY <2>1, PrefixStep
  <2> QED BY <2>1, <2>2
<1>2. Prefix(g, n + 1) = SumFunction(g)
  <2>1. n + 1 \in Nat /\ g \in [1 .. n + 1 -> Int]
    OBVIOUS
  <2> QED BY <2>1, PrefixAll
<1>3. Prefix(g, n) = SumFunction(f)
  <2>1. [k \in 1 .. n |-> g[k]] = f
    OBVIOUS
  <2> QED BY <2>1 DEF Prefix
<1>4. g[n + 1] \in Int
  OBVIOUS
<1> QED BY <1>1, <1>2, <1>3, <1>4

LEMMA SumAppended ==
  ASSUME NEW n \in Nat, NEW f \in [1 .. n -> Nat], NEW g \in [1 .. n + 1 -> Nat],
         \A k \in 1 .. n : g[k] = f[k]
  PROVE  SumFunction(g) = SumFunction(f) + g[n + 1]
<1>1. f \in [1 .. n -> Int] /\ g \in [1 .. n + 1 -> Int]
  OBVIOUS
<1> QED BY <1>1, SumExtended

-----------------------------------------------------------------------------
(* The largest and the smallest of a set.                                  *)

LEMMA TwoMax == \A m, n \in Int : Max({m, n}) = (IF m >= n THEN m ELSE n)
  BY DEF Max

LEMMA TwoMin == \A m, n \in Int : Min({m, n}) = (IF m <= n THEN m ELSE n)
  BY DEF Min

\* A finite set of integers that is not empty has a largest member.
LEMMA MaxOf ==
  ASSUME NEW S, IsFiniteSet(S), S # {}, S \subseteq Int
  PROVE  Max(S) \in S /\ \A m \in S : m <= Max(S)
<1> DEFINE Bad == {t \in SUBSET S : t # {} /\ ~ \E x \in t : \A y \in t : x >= y}
<1>1. Bad = {}
  <2>1. SUFFICES ASSUME Bad # {} PROVE FALSE
    OBVIOUS
  <2>2. PICK v \in Bad : \A t \in SUBSET v : t # v => t \notin Bad
    <3>1. Bad \in SUBSET SUBSET S
      OBVIOUS
    <3> HIDE DEF Bad
    <3> QED BY <2>1, <3>1, SmallestSubset
  <2>3. v \in SUBSET S /\ v # {} /\ ~ \E x \in v : \A y \in v : x >= y
    OBVIOUS
  <2>4. PICK z \in v : TRUE
    BY <2>3
  <2> DEFINE t == v \ {z}
  <2>5. t \in SUBSET v /\ t # v /\ t \in SUBSET S
    BY <2>3, <2>4
  <2>6. t = {} \/ \E x \in t : \A y \in t : x >= y
    BY <2>2, <2>5
  <2> HIDE DEF Bad
  <2>7. z \in Int /\ \A y \in v : y \in Int
    BY <2>3, <2>4
  <2>8. CASE t = {}
    BY <2>3, <2>4, <2>7, <2>8
  <2>9. CASE \E x \in t : \A y \in t : x >= y
    <3>1. PICK x \in t : \A y \in t : x >= y
      BY <2>9
    <3>2. x \in v /\ x \in Int
      BY <2>5, <2>7, <3>1
    <3>3. CASE z >= x
      <4>1. \A y \in v : z >= y
        BY <2>7, <3>1, <3>2, <3>3
      <4> QED BY <2>3, <2>4, <4>1
    <3>4. CASE ~(z >= x)
      <4>1. \A y \in v : x >= y
        BY <2>7, <3>1, <3>2, <3>4
      <4> QED BY <2>3, <3>2, <4>1
    <3> QED BY <3>3, <3>4
  <2> QED BY <2>6, <2>8, <2>9
<1>2. S \in SUBSET S
  OBVIOUS
<1>3. \E x \in S : \A y \in S : x >= y
  BY <1>1, <1>2
<1> HIDE DEF Bad
<1>4. Max(S) \in S /\ \A y \in S : Max(S) >= y
  BY <1>3 DEF Max
<1>5. Max(S) \in Int /\ \A y \in S : y \in Int
  BY <1>4
<1> QED BY <1>4, <1>5
=============================================================================
