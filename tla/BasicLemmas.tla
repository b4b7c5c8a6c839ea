------------------------------ MODULE BasicLemmas ------------------------------
(***************************************************************************)
(* Facts that the proofs of several components need: least and greatest    *)
(* numbers, induction over the numbers and over the subsets of a finite    *)
(* set, and that the folds of the community modules are what their         *)
(* recursion says. The theorems of the library on induction take an        *)
(* operator, which the provers cannot instantiate; those here take a set   *)
(* instead, and follow from the well-foundedness of <.                     *)
(***************************************************************************)
EXTENDS Integers, Sequences, FiniteSetsExt, Functions, Folds,
        FiniteSetTheorems, SequenceTheorems, WellFoundedInduction, TLAPS

-------------------------------------------------------------------------------
(* Numbers *)

\* A set of naturals that is not empty has a least element, which Min returns.
LEMMA MinOf ==
    ASSUME NEW T, T \subseteq Nat, T # {}
    PROVE  Min(T) \in T /\ \A y \in T : Min(T) <= y
<1> PICK R : R = {ss \in Nat \X Nat : ss[1] < ss[2]}
  OBVIOUS
<1>1. IsWellFoundedOn(R, Nat)
  BY NatLessThanWellFounded, Zenon DEF OpToRel
<1>2. PICK x \in T : \A y \in T : ~ (<<y, x>> \in R)
  BY <1>1, WFMin
<1>3. \A y \in T : x <= y
  <2> TAKE y \in T
  <2>1. <<y, x>> \in R <=> y < x
    OBVIOUS
  <2> QED
    BY <1>2, <2>1
<1> QED
  BY <1>3 DEF Min

\* One that is bounded has a greatest, which Max returns.
LEMMA MaxOf ==
    ASSUME NEW T, NEW n \in Int, T \subseteq Int, T # {}, \A y \in T : y <= n
    PROVE  Max(T) \in T /\ \A y \in T : y <= Max(T)
<1> PICK D : D = {n - y : y \in T}
  OBVIOUS
<1>1. D \subseteq Nat /\ D # {}
  <2>1. \A y \in T : n - y \in Nat
    OBVIOUS
  <2>2. PICK y \in T : TRUE
    OBVIOUS
  <2>3. n - y \in D
    BY <2>2
  <2> QED
    BY <2>1, <2>3
<1>2. Min(D) \in D /\ \A d \in D : Min(D) <= d
  BY <1>1, MinOf
<1>3. PICK x \in T : Min(D) = n - x
  BY <1>2
<1>4. \A y \in T : y <= x
  <2> TAKE y \in T
  <2>1. n - x <= n - y
    BY <1>2, <1>3
  <2> QED
    BY <2>1
<1> QED
  BY <1>4 DEF Max

LEMMA MaxOfTwo ==
    ASSUME NEW a \in Int, NEW b \in Int
    PROVE  Max({a, b}) = IF a >= b THEN a ELSE b
BY DEF Max

LEMMA MinOfTwo ==
    ASSUME NEW a \in Int, NEW b \in Int
    PROVE  Min({a, b}) = IF a <= b THEN a ELSE b
BY DEF Min

\* Induction: a set that holds zero, and with a number its successor, holds them all.
LEMMA Induction ==
    ASSUME NEW T, 0 \in T, \A n \in Nat : n \in T => n + 1 \in T
    PROVE  Nat \subseteq T
<1> PICK D : D = {n \in Nat : n \notin T}
  OBVIOUS
<1> SUFFICES ASSUME D # {}
             PROVE  FALSE
  OBVIOUS
<1>1. Min(D) \in D /\ \A y \in D : Min(D) <= y
  BY MinOf
<1>2. Min(D) # 0 /\ Min(D) \in Nat
  BY <1>1
<1>3. Min(D) - 1 \in Nat /\ Min(D) - 1 \notin D
  BY <1>1, <1>2
<1>4. (Min(D) - 1) + 1 \in T
  BY <1>3
<1> QED
  BY <1>1, <1>2, <1>4

\* The remainder of a number not far outside 0..(m - 1).
LEMMA ModOf ==
    ASSUME NEW m \in Nat, m > 0, NEW x \in Int
    PROVE  /\ x \in 0..(m - 1) => x % m = x
           /\ x \in m..(2 * m - 1) => x % m = x - m
           /\ x \in (-m)..(-1) => x % m = x + m
OBVIOUS

-------------------------------------------------------------------------------
(* Subsets of a finite set *)

\* A function that takes an element out of every set of elements of S.
PicksFrom(pick, S) == \A s \in SUBSET S : s # {} => pick[s] \in s

\* A function on the subsets of S that is defined by taking out one element at a time.
Recursion(it, S, base, pick, step) ==
    \A s \in SUBSET S : it[s] = IF s = {} THEN base ELSE step[pick[s]][it[s \ {pick[s]}]]

\* Induction over the subsets of a finite set, one element at a time.
LEMMA SubsetInduction ==
    ASSUME NEW S, IsFiniteSet(S), NEW pick, PicksFrom(pick, S),
           NEW T, {} \in T, \A s \in SUBSET S : s # {} /\ s \ {pick[s]} \in T => s \in T
    PROVE  SUBSET S \subseteq T
<1> PICK N : N = {n \in Nat : \A s \in SUBSET S : Cardinality(s) = n => s \in T}
  OBVIOUS
<1>1. \A s \in SUBSET S : IsFiniteSet(s) /\ Cardinality(s) \in Nat /\ (Cardinality(s) = 0 <=> s = {})
  BY FS_Subset, FS_CardinalityType, FS_EmptySet
<1>2. 0 \in N
  BY <1>1
<1>3. ASSUME NEW n \in Nat, n \in N PROVE n + 1 \in N
  <2>1. ASSUME NEW s \in SUBSET S, Cardinality(s) = n + 1 PROVE s \in T
    <3>1. s # {}
      BY <1>1, <2>1
    <3>2. pick[s] \in s /\ IsFiniteSet(s) /\ s \ {pick[s]} \in SUBSET S
      BY <1>1, <3>1 DEF PicksFrom
    <3>3. Cardinality(s \ {pick[s]}) = IF pick[s] \in s THEN Cardinality(s) - 1 ELSE Cardinality(s)
      BY <3>2, FS_RemoveElement
    <3>4. Cardinality(s \ {pick[s]}) = n
      BY <2>1, <3>2, <3>3
    <3> QED
      BY <1>3, <3>1, <3>2, <3>4
  <2> QED
    BY <2>1
<1>4. Nat \subseteq N
  BY <1>2, <1>3, Induction
<1> QED
  BY <1>1, <1>4

\* A recursion over the subsets of a finite set, one element less at a time, defines a
\* function.
LEMMA RecursionOverSubsets ==
    ASSUME NEW S, IsFiniteSet(S), NEW X, NEW base \in X,
           NEW pick, PicksFrom(pick, S),
           NEW step, step \in [S -> [X -> X]]
    PROVE  \E it \in [SUBSET S -> X] : Recursion(it, S, base, pick, step)
<1> DEFINE Next(it, s) == IF s = {} THEN base ELSE step[pick[s]][it[s \ {pick[s]}]]
<1> DEFINE UpTo(n) == \E it \in [SUBSET S -> X] : \A s \in SUBSET S : Cardinality(s) <= n => it[s] = Next(it, s)
<1> PICK T : T = {n \in Nat : UpTo(n)}
  OBVIOUS
<1>1. \A s \in SUBSET S : IsFiniteSet(s) /\ Cardinality(s) \in Nat
  BY FS_Subset, FS_CardinalityType
<1>2. \A s \in SUBSET S : s # {} => Cardinality(s \ {pick[s]}) = Cardinality(s) - 1 /\ Cardinality(s) > 0
  <2> TAKE s \in SUBSET S
  <2> HAVE s # {}
  <2>1. IsFiniteSet(s) /\ pick[s] \in s /\ Cardinality(s) \in Nat
    BY <1>1 DEF PicksFrom
  <2>2. Cardinality(s \ {pick[s]}) = IF pick[s] \in s THEN Cardinality(s) - 1 ELSE Cardinality(s)
    BY <2>1, FS_RemoveElement
  <2>3. Cardinality(s) # 0
    BY <2>1, FS_EmptySet
  <2> QED
    BY <2>1, <2>2, <2>3
<1>3. \A it \in [SUBSET S -> X] : \A s \in SUBSET S : Next(it, s) \in X
  BY DEF PicksFrom
<1>4. UpTo(0)
  <2> PICK it : it = [s \in SUBSET S |-> base]
    OBVIOUS
  <2>1. it \in [SUBSET S -> X]
    OBVIOUS
  <2>2. ASSUME NEW s \in SUBSET S, Cardinality(s) <= 0 PROVE it[s] = Next(it, s)
    <3>1. s = {}
      <4> SUFFICES ASSUME s # {}
                   PROVE  FALSE
        OBVIOUS
      <4>1. Cardinality(s) \in Nat /\ Cardinality(s) > 0
        BY <1>1, <1>2
      <4> QED
        BY <2>2, <4>1
    <3> QED
      BY <3>1
  <2> QED
    BY <2>1, <2>2
<1>5. ASSUME NEW n \in Nat, UpTo(n) PROVE UpTo(n + 1)
  <2>1. PICK it \in [SUBSET S -> X] : \A s \in SUBSET S : Cardinality(s) <= n => it[s] = Next(it, s)
    BY <1>5
  <2> PICK nt : nt = [s \in SUBSET S |-> Next(it, s)]
    OBVIOUS
  <2>2. nt \in [SUBSET S -> X] /\ \A s \in SUBSET S : nt[s] = Next(it, s)
    BY <1>3, Zenon
  <2>3. ASSUME NEW s \in SUBSET S, Cardinality(s) <= n + 1 PROVE nt[s] = Next(nt, s)
    <3>1. CASE s = {}
      BY <2>2, <3>1, Zenon
    <3>2. CASE s # {}
      <4> PICK r : r = s \ {pick[s]}
        OBVIOUS
      <4>1. r \in SUBSET S /\ Cardinality(r) <= n
        BY <1>1, <1>2, <2>3, <3>2
      <4>2. nt[r] = it[r]
        BY <2>1, <2>2, <4>1
      <4> QED
        BY <2>2, <3>2, <4>2
    <3> QED
      BY <3>1, <3>2, Zenon
  <2> QED
    BY <2>2, <2>3
<1>6. Nat \subseteq T
  <2> HIDE DEF UpTo
  <2>1. 0 \in T
    BY <1>4
  <2>2. \A n \in Nat : n \in T => n + 1 \in T
    BY <1>5
  <2> QED
    BY <2>1, <2>2, Induction
<1>7. UpTo(Cardinality(S))
  <2> HIDE DEF UpTo
  <2>1. Cardinality(S) \in T
    BY <1>1, <1>6
  <2> QED
    BY <2>1
<1>8. \A s \in SUBSET S : Cardinality(s) <= Cardinality(S)
  BY FS_Subset
<1>9. PICK it \in [SUBSET S -> X] : \A s \in SUBSET S : it[s] = Next(it, s)
  BY <1>7, <1>8
<1>10. Recursion(it, S, base, pick, step)
  BY <1>9 DEF Recursion
<1> QED
  BY <1>10

AnElement(S) == [s \in SUBSET S |-> CHOOSE y \in s : TRUE]

LEMMA AnElementPicks == \A S : PicksFrom(AnElement(S), S)
BY DEF PicksFrom, AnElement

\* it is the sums of g over the subsets of S.
SumsUp(it, S, g) ==
    \A s \in SUBSET S :
        it[s] = IF s = {} THEN 0 ELSE g[AnElement(S)[s]] + it[s \ {AnElement(S)[s]}]

\* A sum over a finite set of indices, by the recursion that defines it.
LEMMA SumRecursion ==
    ASSUME NEW S, IsFiniteSet(S), NEW g, \A i \in S : g[i] \in Int
    PROVE  \E it \in [SUBSET S -> Int] : SumFunctionOnSet(g, S) = it[S] /\ SumsUp(it, S, g)
<1> DEFINE Eq(h) == h = [s \in SUBSET S |-> IF s = {} THEN 0 ELSE LET x == CHOOSE y \in s : TRUE IN g[x] + h[s \ {x}]]
<1> PICK it : it = CHOOSE h : Eq(h)
  OBVIOUS
<1>1. SumFunctionOnSet(g, S) = it[S]
  BY DEF SumFunctionOnSet, FoldFunctionOnSet, MapThenFoldSet
<1>2. PICK pick : pick = [s \in SUBSET S |-> CHOOSE y \in s : TRUE]
  OBVIOUS
<1>3. PICK step : step = [i \in S |-> [x \in Int |-> g[i] + x]]
  OBVIOUS
<1>4. PicksFrom(pick, S) /\ step \in [S -> [Int -> Int]]
  BY <1>2, <1>3 DEF PicksFrom
<1>5. PICK f \in [SUBSET S -> Int] : Recursion(f, S, 0, pick, step)
  <2>1. 0 \in Int
    OBVIOUS
  <2> QED
    BY <1>4, <2>1, RecursionOverSubsets
<1>6. \A s \in SUBSET S : f[s] = IF s = {} THEN 0 ELSE g[pick[s]] + f[s \ {pick[s]}]
  <2> TAKE s \in SUBSET S
  <2>1. CASE s = {}
    BY <1>5, <2>1 DEF Recursion
  <2>2. CASE s # {}
    <3>1. pick[s] \in S /\ f[s \ {pick[s]}] \in Int
      BY <1>4, <2>2 DEF PicksFrom
    <3>2. step[pick[s]][f[s \ {pick[s]}]] = g[pick[s]] + f[s \ {pick[s]}]
      BY <1>3, <3>1
    <3> QED
      BY <1>5, <2>2, <3>2 DEF Recursion
  <2> QED
    BY <2>1, <2>2
<1>7. Eq(f)
  <2>1. \A s \in SUBSET S : pick[s] = CHOOSE y \in s : TRUE
    BY <1>2
  <2>2. f = [s \in SUBSET S |-> f[s]]
    OBVIOUS
  <2>3. \A s \in SUBSET S : f[s] = IF s = {} THEN 0 ELSE LET x == CHOOSE y \in s : TRUE IN g[x] + f[s \ {x}]
    BY <1>6, <2>1
  <2> QED
    BY <2>2, <2>3, Zenon
<1>8. Eq(it)
  <2> HIDE DEF Eq
  <2> QED
    BY <1>7, Zenon
<1>9. \A s \in SUBSET S : it[s] = IF s = {} THEN 0 ELSE g[pick[s]] + it[s \ {pick[s]}]
  <2>1. \A s \in SUBSET S : pick[s] = CHOOSE y \in s : TRUE
    BY <1>2
  <2>2. \A s \in SUBSET S : it[s] = IF s = {} THEN 0 ELSE LET x == CHOOSE y \in s : TRUE IN g[x] + it[s \ {x}]
    BY <1>8, Zenon
  <2> TAKE s \in SUBSET S
  <2>3. it[s] = IF s = {} THEN 0 ELSE g[CHOOSE y \in s : TRUE] + it[s \ {CHOOSE y \in s : TRUE}]
    BY <2>2, Zenon
  <2> DEFINE c == CHOOSE y \in s : TRUE
  <2>4. it[s] = (IF s = {} THEN 0 ELSE g[c] + it[s \ {c}]) /\ pick[s] = c
    BY <2>1, <2>3, Zenon
  <2> HIDE DEF c
  <2> QED
    BY <2>4
<1>10. SUBSET S \subseteq {s \in SUBSET S : it[s] = f[s]}
  <2> PICK T : T = {s \in SUBSET S : it[s] = f[s]}
    OBVIOUS
  <2>1. {} \in T
    BY <1>6, <1>9
  <2>2. \A s \in SUBSET S : s # {} /\ s \ {pick[s]} \in T => s \in T
    BY <1>6, <1>9
  <2> HIDE DEF Eq
  <2> QED
    BY <1>4, <2>1, <2>2, SubsetInduction
<1>11. it = f
  <2>1. \A s \in SUBSET S : it[s] = f[s]
    BY <1>10
  <2>2. it = [s \in SUBSET S |-> it[s]]
    BY <1>8, Zenon
  <2>3. f = [s \in SUBSET S |-> f[s]]
    OBVIOUS
  <2> HIDE DEF Eq
  <2>4. [s \in SUBSET S |-> it[s]] = [s \in SUBSET S |-> f[s]]
    BY <2>1, Zenon
  <2> QED
    BY <2>2, <2>3, <2>4, Zenon
<1>12. pick = AnElement(S)
  BY <1>2 DEF AnElement
<1>13. SumsUp(f, S, g)
  BY <1>6, <1>12 DEF SumsUp
<1> QED
  BY <1>1, <1>11, <1>13

InAnyOrder(it, S, g) == \A s \in SUBSET S : \A y \in s : it[s] = g[y] + it[s \ {y}]

\* A sum over subsets takes its elements in any order.
LEMMA AnyOrder ==
    ASSUME NEW S, IsFiniteSet(S), NEW g, \A i \in S : g[i] \in Int,
           NEW p \in [SUBSET S -> Int], SumsUp(p, S, g)
    PROVE  InAnyOrder(p, S, g)
<1> PICK pick : pick = AnElement(S)
  OBVIOUS
<1>1. PicksFrom(pick, S)
  BY AnElementPicks
<1>2. \A s \in SUBSET S : s # {} => pick[s] \in s /\ p[s] = g[pick[s]] + p[s \ {pick[s]}]
  BY <1>1 DEF SumsUp, PicksFrom
<1> DEFINE Good(s) == \A y \in s : p[s] = g[y] + p[s \ {y}]
<1> PICK N : N = {n \in Nat : \A s \in SUBSET S : Cardinality(s) = n => Good(s)}
  OBVIOUS
<1>3. \A s \in SUBSET S : IsFiniteSet(s) /\ Cardinality(s) \in Nat /\ (Cardinality(s) = 0 <=> s = {})
  BY FS_Subset, FS_CardinalityType, FS_EmptySet
<1>4. 0 \in N
  BY <1>3
<1>5. ASSUME NEW n \in Nat, n \in N PROVE n + 1 \in N
  <2>1. ASSUME NEW s \in SUBSET S, Cardinality(s) = n + 1, NEW y \in s PROVE p[s] = g[y] + p[s \ {y}]
    <3> PICK c : c = pick[s]
      OBVIOUS
    <3>1. c \in s /\ p[s] = g[c] + p[s \ {c}]
      BY <1>2
    <3>2. CASE c = y
      BY <3>1, <3>2, Zenon
    <3>3. CASE c # y
      <4> PICK u : u = s \ {c}
        OBVIOUS
      <4> PICK v : v = s \ {y}
        OBVIOUS
      <4> PICK w : w = u \ {y}
        OBVIOUS
      <4>1. w = v \ {c} /\ y \in u /\ c \in v /\ u \in SUBSET S /\ v \in SUBSET S /\ w \in SUBSET S
        BY <3>1, <3>3
      <4>2. Cardinality(u) = n /\ Cardinality(v) = n
        <5>1. Cardinality(s \ {c}) = Cardinality(s) - 1 /\ Cardinality(s \ {y}) = Cardinality(s) - 1
          BY <1>3, <3>1, FS_RemoveElement
        <5> QED
          BY <2>1, <5>1
      <4>3. Good(u) /\ Good(v)
        <5> HIDE DEF Good
        <5> QED
          BY <1>5, <4>1, <4>2
      <4>4. p[u] = g[y] + p[w] /\ p[v] = g[c] + p[w]
        BY <4>1, <4>3, Zenon
      <4>5. p[u] \in Int /\ p[v] \in Int /\ p[w] \in Int /\ g[y] \in Int /\ g[c] \in Int
        BY <3>1, <4>1
      <4> QED
        BY <3>1, <4>4, <4>5
    <3> QED
      BY <3>2, <3>3
  <2> QED
    BY <2>1
<1>6. Nat \subseteq N
  <2> HIDE DEF Good
  <2> QED
    BY <1>4, <1>5, Induction
<1>7. \A s \in SUBSET S : Good(s)
  <2> HIDE DEF Good
  <2> QED
    BY <1>3, <1>6
<1> QED
  BY <1>7, Zenon DEF InAnyOrder

LEMMA SumOfEmpty ==
    ASSUME NEW g
    PROVE  SumFunctionOnSet(g, {}) = 0
<1>1. IsFiniteSet({}) /\ \A i \in {} : g[i] \in Int
  BY FS_EmptySet
<1>2. PICK p \in [SUBSET {} -> Int] : SumFunctionOnSet(g, {}) = p[{}] /\ SumsUp(p, {}, g)
  BY <1>1, SumRecursion
<1> QED
  BY <1>2 DEF SumsUp

\* A sum is an integer, which depends on what is summed and nothing else.
LEMMA SumAgrees ==
    ASSUME NEW S, IsFiniteSet(S), NEW g, NEW h, \A i \in S : g[i] \in Int /\ h[i] = g[i]
    PROVE  SumFunctionOnSet(g, S) \in Int /\ SumFunctionOnSet(h, S) = SumFunctionOnSet(g, S)
<1>0. (\A i \in S : g[i] \in Int) /\ (\A i \in S : h[i] \in Int)
  OBVIOUS
<1>1. PICK p \in [SUBSET S -> Int] : SumFunctionOnSet(g, S) = p[S] /\ SumsUp(p, S, g)
  BY <1>0, SumRecursion
<1>2. PICK q \in [SUBSET S -> Int] : SumFunctionOnSet(h, S) = q[S] /\ SumsUp(q, S, h)
  BY <1>0, SumRecursion
<1> PICK pick : pick = AnElement(S)
  OBVIOUS
<1>3. PicksFrom(pick, S)
  BY AnElementPicks
<1>4. \A s \in SUBSET S : /\ p[s] = IF s = {} THEN 0 ELSE g[pick[s]] + p[s \ {pick[s]}]
                          /\ q[s] = IF s = {} THEN 0 ELSE h[pick[s]] + q[s \ {pick[s]}]
  BY <1>1, <1>2 DEF SumsUp
<1> DEFINE T == {s \in SUBSET S : p[s] = q[s]}
<1>5. {} \in T
  BY <1>4
<1>6. \A s \in SUBSET S : s # {} /\ s \ {pick[s]} \in T => s \in T
  <2> SUFFICES ASSUME NEW s \in SUBSET S, s # {}, s \ {pick[s]} \in T PROVE p[s] = q[s]
    OBVIOUS
  <2>1. h[pick[s]] = g[pick[s]]
    BY <1>3 DEF PicksFrom
  <2>2. /\ p[s] = g[pick[s]] + p[s \ {pick[s]}]
        /\ q[s] = h[pick[s]] + q[s \ {pick[s]}]
    BY <1>4
  <2>3. p[s \ {pick[s]}] = q[s \ {pick[s]}]
    OBVIOUS
  <2> QED
    BY <2>1, <2>2, <2>3, Zenon
<1>7. S \in T
  <2> HIDE DEF T
  <2> QED
    BY <1>3, <1>5, <1>6, SubsetInduction
<1> QED
  BY <1>1, <1>2, <1>7

\* One element more adds its number.
LEMMA SumOneMore ==
    ASSUME NEW S, IsFiniteSet(S), NEW x, x \notin S, NEW g, \A i \in S \cup {x} : g[i] \in Int
    PROVE  SumFunctionOnSet(g, S \cup {x}) = SumFunctionOnSet(g, S) + g[x]
<1> PICK V : V = S \cup {x}
  OBVIOUS
<1>0. IsFiniteSet(V) /\ (\A i \in S : g[i] \in Int) /\ (\A i \in V : g[i] \in Int)
      /\ V \ {x} = S /\ x \in V /\ V \in SUBSET V /\ S \in SUBSET V
  BY FS_AddElement
<1>1. PICK p \in [SUBSET V -> Int] : SumFunctionOnSet(g, V) = p[V] /\ SumsUp(p, V, g)
  BY <1>0, SumRecursion
<1>2. PICK q \in [SUBSET S -> Int] : SumFunctionOnSet(g, S) = q[S] /\ SumsUp(q, S, g)
  BY <1>0, SumRecursion
<1>3. p[V] = g[x] + p[S]
  <2>1. InAnyOrder(p, V, g)
    BY <1>0, <1>1, AnyOrder
  <2>2. p[V] = g[x] + p[V \ {x}]
    BY <1>0, <2>1, Zenon DEF InAnyOrder
  <2> QED
    BY <1>0, <2>2, Zenon
<1> PICK pick : pick = AnElement(S)
  OBVIOUS
<1>4. PicksFrom(pick, S)
  BY AnElementPicks
<1>5. \A s \in SUBSET S : AnElement(V)[s] = pick[s]
  BY <1>0 DEF AnElement
<1>6. \A s \in SUBSET S : /\ p[s] = IF s = {} THEN 0 ELSE g[pick[s]] + p[s \ {pick[s]}]
                          /\ q[s] = IF s = {} THEN 0 ELSE g[pick[s]] + q[s \ {pick[s]}]
  BY <1>0, <1>1, <1>2, <1>5 DEF SumsUp
<1> DEFINE T == {s \in SUBSET S : p[s] = q[s]}
<1>7. {} \in T
  BY <1>6
<1>8. \A s \in SUBSET S : s # {} /\ s \ {pick[s]} \in T => s \in T
  BY <1>6
<1>9. S \in T
  <2> HIDE DEF T
  <2> QED
    BY <1>4, <1>7, <1>8, SubsetInduction
<1>10. p[S] = q[S] /\ p[S] \in Int /\ g[x] \in Int
  BY <1>0, <1>9
<1> QED
  BY <1>1, <1>2, <1>3, <1>10

\* h has one argument more than g.
Grows(g, h, x) ==
    /\ IsFiniteSet(DOMAIN g) /\ x \notin DOMAIN g /\ DOMAIN h = DOMAIN g \cup {x}
    /\ \A i \in DOMAIN g : g[i] \in Int /\ h[i] = g[i]
    /\ h[x] \in Int

LEMMA SumGrows ==
    ASSUME NEW g, NEW h, NEW x, Grows(g, h, x)
    PROVE  /\ SumFunction(g) \in Int /\ SumFunction(h) \in Int
           /\ SumFunction(h) = SumFunction(g) + h[x]
<1> PICK S : S = DOMAIN g
  OBVIOUS
<1>0. /\ IsFiniteSet(S) /\ x \notin S /\ DOMAIN h = S \cup {x} /\ h[x] \in Int
      /\ \A i \in S : g[i] \in Int /\ h[i] = g[i]
  BY DEF Grows
<1>1. SumFunctionOnSet(g, S) \in Int /\ SumFunctionOnSet(h, S) = SumFunctionOnSet(g, S)
  BY <1>0, SumAgrees
<1>2. \A i \in S \cup {x} : h[i] \in Int
  BY <1>0
<1>3. SumFunctionOnSet(h, S \cup {x}) = SumFunctionOnSet(h, S) + h[x]
  BY <1>0, <1>2, SumOneMore
<1> QED
  BY <1>0, <1>1, <1>3 DEF SumFunction

\* Two functions with the same arguments and values.
LEMMA SumIsSame ==
    ASSUME NEW g, NEW h, IsFiniteSet(DOMAIN g), DOMAIN h = DOMAIN g,
           \A i \in DOMAIN g : g[i] \in Int /\ h[i] = g[i]
    PROVE  SumFunction(g) \in Int /\ SumFunction(h) = SumFunction(g)
BY SumAgrees DEF SumFunction

LEMMA SumOfNoArguments ==
    ASSUME NEW g, DOMAIN g = {}
    PROVE  SumFunction(g) = 0
BY SumOfEmpty DEF SumFunction

\* The sum of a sequence with one number more.
LEMMA SumOfAppend ==
    ASSUME NEW s \in Seq(Int), NEW e \in Int
    PROVE  SumFunction(s) \in Int /\ SumFunction(Append(s, e)) = SumFunction(s) + e
<1> PICK t : t = Append(s, e)
  OBVIOUS
<1>1. /\ t \in Seq(Int) /\ Len(t) = Len(s) + 1 /\ t[Len(s) + 1] = e
      /\ \A i \in 1..Len(s) : t[i] = s[i]
  BY AppendProperties
<1> PICK m : m = Len(s) + 1
  OBVIOUS
<1> PICK S : S = DOMAIN s
  OBVIOUS
<1>2. Len(s) \in Nat /\ S = 1..Len(s) /\ DOMAIN t = 1..(Len(s) + 1)
  BY <1>1
<1>3. DOMAIN t = S \cup {m} /\ m \notin S /\ DOMAIN s = S
  BY <1>2
<1>4. IsFiniteSet(S)
  BY <1>2, FS_Interval
<1>5. \A i \in S : s[i] \in Int /\ t[i] = s[i]
  BY <1>1, <1>2, ElementOfSeq
<1>6. t[m] = e /\ t[m] \in Int
  BY <1>1
<1>7. SumFunction(s) \in Int /\ SumFunction(t) = SumFunction(s) + t[m]
  <2>1. Grows(s, t, m)
    BY <1>3, <1>4, <1>5, <1>6 DEF Grows
  <2> QED
    BY <2>1, SumGrows, Zenon
<1> QED
  BY <1>6, <1>7

LEMMA SumOfEmptySeq == SumFunction(<<>>) = 0
<1>1. DOMAIN <<>> = {}
  OBVIOUS
<1> QED
  BY <1>1, SumOfNoArguments

-------------------------------------------------------------------------------
(* Sequences *)

\* A sequence with one element more.
LEMMA OneMore ==
    ASSUME NEW S, NEW d \in Seq(S), NEW e \in S
    PROVE  /\ d \o <<e>> \in Seq(S) /\ Len(d \o <<e>>) = Len(d) + 1
           /\ \A i \in 1..Len(d) : (d \o <<e>>)[i] = d[i]
           /\ (d \o <<e>>)[Len(d) + 1] = e
<1>1. Len(d) \in Nat
  OBVIOUS
<1> PICK u : u = <<e>>
  OBVIOUS
<1>2. u \in Seq(S) /\ Len(u) = 1 /\ u[1] = e
  OBVIOUS
<1> PICK f : f = d \o u
  OBVIOUS
<1>3. f \in Seq(S) /\ Len(f) = Len(d) + Len(u)
      /\ \A i \in 1..(Len(d) + Len(u)) : f[i] = IF i <= Len(d) THEN d[i] ELSE u[i - Len(d)]
  BY <1>2, ConcatProperties
<1>4. \A i \in 1..Len(d) : f[i] = d[i]
  BY <1>1, <1>2, <1>3
<1>5. f[Len(d) + 1] = e
  <2>1. Len(d) + 1 \in 1..(Len(d) + Len(u)) /\ ~(Len(d) + 1 <= Len(d)) /\ (Len(d) + 1) - Len(d) = 1
    BY <1>1, <1>2
  <2> QED
    BY <1>2, <1>3, <2>1
<1> QED
  BY <1>2, <1>3, <1>4, <1>5

\* The elements m to n of a sequence.
LEMMA CutOf ==
    ASSUME NEW S, NEW d \in Seq(S), NEW m \in 1..(Len(d) + 1), NEW n \in (m - 1)..Len(d)
    PROVE  /\ SubSeq(d, m, n) \in Seq(S) /\ Len(SubSeq(d, m, n)) = n - m + 1
           /\ \A l \in 1..(n - m + 1) : SubSeq(d, m, n)[l] = d[m + l - 1]
<1>1. m \in Int /\ n \in Int /\ Len(d) \in Nat
  OBVIOUS
<1>2. \A l \in m..n : d[l] \in S
  <2> TAKE l \in m..n
  <2>1. l \in 1..Len(d)
    BY <1>1
  <2> QED
    BY <2>1, ElementOfSeq
<1> DEFINE c == SubSeq(d, m, n)
<1>3. /\ c \in Seq(S) /\ Len(c) = IF m <= n THEN n - m + 1 ELSE 0
      /\ \A l \in 1..(n - m + 1) : c[l] = d[m + l - 1]
  BY <1>1, <1>2, SubSeqProperties
<1> HIDE DEF c
<1>4. Len(c) = n - m + 1
  BY <1>1, <1>3
<1> QED
  BY <1>3, <1>4 DEF c
================================================================================
