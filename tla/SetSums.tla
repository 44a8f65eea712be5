------------------------------ MODULE SetSums ------------------------------
(***************************************************************************)
(* Sums over finite sets, as the models take them with MapThenSumSet, the  *)
(* ranks of a strict order, and the induction both rest on.  The library's *)
(* induction theorems have an operator for a parameter; here the property  *)
(* is a set, and the least number outside of it is WFMin's.                *)
(***************************************************************************)
EXTENDS Integers, FiniteSetsExt, FiniteSetTheorems, WellFoundedInduction, TLAPS

\* The order of the naturals has no descending chain (the library's fact, with the order
\* written out).
LEMMA LessIsWellFounded == IsWellFoundedOn({p \in Nat \X Nat : p[1] < p[2]}, Nat)
<1>1. IsWellFoundedOn(OpToRel(<, Nat), Nat)
    BY NatLessThanWellFounded
<1>2. OpToRel(<, Nat) = {p \in Nat \X Nat : p[1] < p[2]}
    BY DEF OpToRel
<1> QED
    BY <1>1, <1>2

\* A set of naturals with 0 and the successor of each of its members is all of them.
LEMMA NatSetInduction ==
    ASSUME NEW K \in SUBSET Nat, 0 \in K, \A n \in K : n + 1 \in K
    PROVE  K = Nat
<1> DEFINE R == {p \in Nat \X Nat : p[1] < p[2]}
           T == Nat \ K
<1> SUFFICES ASSUME T # {} PROVE FALSE
    OBVIOUS
<1>1. IsWellFoundedOn(R, Nat)
    BY LessIsWellFounded
<1>2. \A m, n \in Nat : <<m, n>> \in R <=> m < n
    OBVIOUS
<1>3. T \subseteq Nat
    OBVIOUS
<1> HIDE DEF R
<1>4. PICK x \in T : \A y \in T : ~ (<<y, x>> \in R)
  <2> HIDE DEF T
  <2> QED
      BY <1>1, <1>3, WFMin, Zenon
<1>5. x \in Nat /\ x # 0 /\ x - 1 \in Nat /\ x - 1 < x
    BY <1>4
<1>6. x - 1 \in K
    BY <1>2, <1>4, <1>5
<1> QED
    BY <1>4, <1>5, <1>6

\* A set of naturals that is not empty has a least member.
LEMMA LeastExists ==
    ASSUME NEW S \in SUBSET Nat, S # {}
    PROVE  Min(S) \in S /\ \A y \in S : Min(S) <= y
<1> DEFINE R == {p \in Nat \X Nat : p[1] < p[2]}
<1>1. IsWellFoundedOn(R, Nat)
    BY LessIsWellFounded
<1>2. \A m, n \in Nat : <<m, n>> \in R <=> m < n
    OBVIOUS
<1> HIDE DEF R
<1>3. PICK x \in S : \A y \in S : ~ (<<y, x>> \in R)
    BY <1>1, WFMin, Zenon
<1>4. ASSUME NEW y \in S PROVE x <= y
  <2>1. x \in Nat /\ y \in Nat
      BY <1>3
  <2>2. ~ (y < x)
      BY <1>2, <1>3, <2>1
  <2> QED
      BY <2>1, <2>2
<1> QED
    BY <1>4 DEF Min

\* And one that has a bound, a greatest.
LEMMA GreatestExists ==
    ASSUME NEW n \in Nat, NEW S \in SUBSET (1 .. n), S # {}
    PROVE  \E x \in S : \A y \in S : y <= x
<1> DEFINE D == {d \in 0 .. n : n - d \in S}
<1>1. D \in SUBSET Nat /\ D # {}
  <2>1. PICK x \in S : TRUE
      OBVIOUS
  <2>2. x \in 1 .. n /\ n - x \in 0 .. n /\ n - (n - x) = x
      BY <2>1
  <2>3. n - x \in D
      BY <2>1, <2>2
  <2>4. D \in SUBSET Nat
      OBVIOUS
  <2> HIDE DEF D
  <2> QED
      BY <2>3, <2>4
<1>2. PICK d \in D : \A c \in D : d <= c
  <2> HIDE DEF D
  <2> QED
      BY <1>1, LeastExists
<1>3. d \in 0 .. n /\ n - d \in S
    BY <1>2
<1>4. ASSUME NEW y \in S PROVE y <= n - d
  <2>1. y \in 1 .. n /\ n - y \in 0 .. n /\ n - (n - y) = y
      OBVIOUS
  <2>2. n - y \in D
      BY <2>1
  <2>3. d <= n - y
      BY <1>2, <2>2
  <2> QED
      BY <1>3, <2>1, <2>3
<1> QED
    BY <1>3, <1>4

\* What holds of no element, and of one more when of fewer, holds of every part of
\* a finite set.
LEMMA PartsInduction ==
    ASSUME NEW S, IsFiniteSet(S), NEW K,
           \A T \in SUBSET S : (\A x \in T : T \ {x} \in K) => T \in K
    PROVE  \A T \in SUBSET S : T \in K
<1> DEFINE N == {n \in Nat : \A T \in SUBSET S : Cardinality(T) <= n => T \in K}
<1>1. \A T \in SUBSET S : IsFiniteSet(T) /\ Cardinality(T) \in Nat
    BY FS_Subset, FS_CardinalityType
<1>2. 0 \in N
  <2>1. ASSUME NEW T \in SUBSET S, Cardinality(T) <= 0 PROVE T \in K
    <3>1. T = {}
        BY <1>1, <2>1, FS_EmptySet
    <3> QED
        BY <3>1
  <2> QED
      BY <2>1
<1>3. ASSUME NEW n \in N PROVE n + 1 \in N
  <2>1. ASSUME NEW T \in SUBSET S, Cardinality(T) <= n + 1 PROVE T \in K
    <3>1. ASSUME NEW x \in T PROVE T \ {x} \in K
      <4>1. Cardinality(T \ {x}) = Cardinality(T) - 1 /\ T \ {x} \in SUBSET S
          BY <1>1, FS_RemoveElement
      <4>2. Cardinality(T \ {x}) <= n
          BY <1>1, <2>1, <4>1
      <4> QED
          BY <4>1, <4>2
    <3> QED
        BY <3>1
  <2> QED
      BY <2>1
<1>4. N = Nat
  <2>1. N \in SUBSET Nat
      OBVIOUS
  <2> HIDE DEF N
  <2> QED
      BY <1>2, <1>3, <2>1, NatSetInduction
<1>5. ASSUME NEW T \in SUBSET S PROVE T \in K
  <2>1. Cardinality(T) \in N /\ Cardinality(T) <= Cardinality(T)
      BY <1>1, <1>4
  <2> QED
      BY <2>1
<1> QED
    BY <1>5

-----------------------------------------------------------------------------
\* The sum of f over s, as MapThenSumSet computes it.
SumOver(f, s) == MapThenSumSet(LAMBDA x : f[x], s)

Pick(s) == CHOOSE x \in s : TRUE

\* t gives the sum of each part of s.
SumsParts(t, f, s) ==
    t = [r \in SUBSET s |-> IF r = {} THEN 0 ELSE LET x == Pick(r) IN f[x] + t[r \ {x}]]

\* SumOver, with the definitions of the community modules written out.
LEMMA SumOverDef ==
    ASSUME NEW f, NEW s PROVE SumOver(f, s) = (CHOOSE t : SumsParts(t, f, s))[s]
BY DEF SumOver, MapThenSumSet, MapThenFoldSet, SumsParts, Pick

\* Parts of s up to a size.
PartsUpto(s, n) == {r \in SUBSET s : Cardinality(r) <= n}
SumsUpto(t, f, s, n) ==
    \A r \in PartsUpto(s, n) : t[r] = IF r = {} THEN 0 ELSE f[Pick(r)] + t[r \ {Pick(r)}]

\* The element picked is one, and leaves a part with one element less.
LEMMA PickOne ==
    ASSUME NEW s, NEW r \in SUBSET s, IsFiniteSet(s), r # {}
    PROVE  /\ Pick(r) \in r /\ r \ {Pick(r)} \in SUBSET s
           /\ Cardinality(r \ {Pick(r)}) = Cardinality(r) - 1 /\ Cardinality(r) \in Nat
<1>1. Pick(r) \in r
    BY DEF Pick
<1>2. IsFiniteSet(r) /\ Cardinality(r) \in Nat
    BY FS_Subset, FS_CardinalityType
<1> QED
    BY <1>1, <1>2, FS_RemoveElement

\* There is a function that gives the sum of each part.
LEMMA SumsExist ==
    ASSUME NEW f, NEW s, IsFiniteSet(s) PROVE \E t : SumsParts(t, f, s)
<1> DEFINE N == {n \in Nat : \E t : SumsUpto(t, f, s, n)}
<1>1. \A r \in SUBSET s : IsFiniteSet(r) /\ Cardinality(r) \in Nat /\ (Cardinality(r) = 0 <=> r = {})
    BY FS_Subset, FS_CardinalityType, FS_EmptySet
<1>2. 0 \in N
  <2> DEFINE t == [r \in SUBSET s |-> 0]
  <2>1. SumsUpto(t, f, s, 0)
      BY <1>1 DEF SumsUpto, PartsUpto
  <2> HIDE DEF t
  <2> QED
      BY <2>1
<1>3. ASSUME NEW n \in N PROVE n + 1 \in N
  <2>1. PICK t : SumsUpto(t, f, s, n)
      OBVIOUS
  <2> DEFINE u == [r \in SUBSET s |-> IF r = {} THEN 0
                                      ELSE IF Cardinality(r) <= n THEN t[r]
                                      ELSE f[Pick(r)] + t[r \ {Pick(r)}]]
  <2>2. ASSUME NEW r \in PartsUpto(s, n + 1)
        PROVE  u[r] = IF r = {} THEN 0 ELSE f[Pick(r)] + u[r \ {Pick(r)}]
    <3> DEFINE q == r \ {Pick(r)}
    <3>1. r \in SUBSET s /\ Cardinality(r) <= n + 1 /\ Cardinality(r) \in Nat /\ {} \in SUBSET s
        BY <1>1 DEF PartsUpto
    <3>2. CASE r = {}
        BY <3>1, <3>2
    <3>3. CASE r # {}
      <4>1. q \in SUBSET s /\ Cardinality(q) <= n /\ Cardinality(q) \in Nat
          BY <1>1, <3>1, <3>3, PickOne
      <4>2. u[r] = f[Pick(r)] + t[q]
        <5>1. CASE Cardinality(r) <= n
          <6>1. r \in PartsUpto(s, n)
              BY <3>1, <5>1 DEF PartsUpto
          <6>2. t[r] = f[Pick(r)] + t[q]
              BY <2>1, <3>3, <6>1 DEF SumsUpto
          <6> QED
              BY <3>1, <3>3, <5>1, <6>2
        <5>2. CASE ~(Cardinality(r) <= n)
            BY <3>1, <3>3, <5>2
        <5> QED
            BY <5>1, <5>2
      <4>3. u[q] = t[q]
        <5>1. CASE q = {}
          <6>1. {} \in PartsUpto(s, n)
              BY <4>1, <5>1 DEF PartsUpto
          <6>2. t[{}] = 0
              BY <2>1, <6>1 DEF SumsUpto
          <6> QED
              BY <4>1, <5>1, <6>2
        <5>2. CASE q # {}
            BY <4>1, <5>2
        <5> QED
            BY <5>1, <5>2
      <4> QED
          BY <3>3, <4>2, <4>3
    <3> QED
        BY <3>2, <3>3
  <2> HIDE DEF u
  <2>3. SumsUpto(u, f, s, n + 1)
      BY <2>2 DEF SumsUpto
  <2> QED
      BY <2>3
<1>4. N = Nat
  <2>1. N \in SUBSET Nat
      OBVIOUS
  <2> HIDE DEF N
  <2> QED
      BY <1>2, <1>3, <2>1, NatSetInduction
<1>5. PICK t : SumsUpto(t, f, s, Cardinality(s))
  <2>1. Cardinality(s) \in N
      BY <1>1, <1>4
  <2> QED
      BY <2>1
<1> DEFINE u == [r \in SUBSET s |-> t[r]]
<1>6. ASSUME NEW r \in SUBSET s
      PROVE  u[r] = IF r = {} THEN 0 ELSE LET x == Pick(r) IN f[x] + u[r \ {x}]
  <2>1. Cardinality(r) <= Cardinality(s)
      BY FS_Subset
  <2>2. t[r] = IF r = {} THEN 0 ELSE f[Pick(r)] + t[r \ {Pick(r)}]
      BY <1>5, <2>1 DEF SumsUpto, PartsUpto
  <2> QED
      BY <2>2
<1>7. SumsParts(u, f, s)
  <2> DEFINE v == [r \in SUBSET s |-> IF r = {} THEN 0 ELSE LET x == Pick(r) IN f[x] + u[r \ {x}]]
  <2>1. DOMAIN u = SUBSET s /\ DOMAIN v = SUBSET s /\ u = [r \in SUBSET s |-> u[r]]
      OBVIOUS
  <2> HIDE DEF u
  <2>2. u = v
      BY <1>6, <2>1
  <2> QED
      BY <2>2 DEF SumsParts
<1> HIDE DEF u
<1> QED
    BY <1>7

SumsOf(t, f, s) ==
    \A r \in SUBSET s : t[r] = IF r = {} THEN 0 ELSE f[Pick(r)] + t[r \ {Pick(r)}]

\* What a sum is, from its parts.
LEMMA SumUnfolds ==
    ASSUME NEW f, NEW s, IsFiniteSet(s)
    PROVE  \E t : /\ SumOver(f, s) = t[s]
                  /\ SumsOf(t, f, s)
<1> DEFINE t == CHOOSE u : SumsParts(u, f, s)
<1>1. SumsParts(t, f, s)
    BY SumsExist
<1>2. SumOver(f, s) = t[s]
    BY SumOverDef
<1> HIDE DEF t
<1>3. SumsOf(t, f, s)
    BY <1>1 DEF SumsParts, SumsOf
<1> QED
    BY <1>2, <1>3

\* A sum of naturals is one.
LEMMA SumIsNat ==
    ASSUME NEW f, NEW s, IsFiniteSet(s), \A x \in s : f[x] \in Nat
    PROVE  SumOver(f, s) \in Nat
<1>1. PICK t : /\ SumOver(f, s) = t[s]
               /\ SumsOf(t, f, s)
    BY SumUnfolds
<1> DEFINE K == {r \in SUBSET s : t[r] \in Nat}
<1>2. ASSUME NEW r \in SUBSET s, \A x \in r : r \ {x} \in K PROVE r \in K
  <2>1. CASE r = {}
      BY <1>1, <2>1 DEF SumsOf
  <2>2. CASE r # {}
    <3>1. Pick(r) \in r
        BY <2>2, PickOne
    <3>2. t[r \ {Pick(r)}] \in Nat /\ f[Pick(r)] \in Nat
        BY <1>2, <3>1
    <3>3. t[r] = f[Pick(r)] + t[r \ {Pick(r)}]
        BY <1>1, <2>2 DEF SumsOf
    <3> QED
        BY <3>2, <3>3
  <2> QED
      BY <2>1, <2>2
<1>3. \A r \in SUBSET s : r \in K
  <2> HIDE DEF K
  <2> QED
      BY <1>2, PartsInduction
<1> QED
    BY <1>1, <1>3

-----------------------------------------------------------------------------
\* The sum over no element.
LEMMA SumOfNone ==
    ASSUME NEW f PROVE SumOver(f, {}) = 0
<1>1. IsFiniteSet({})
    BY FS_EmptySet
<1>2. PICK t : SumOver(f, {}) = t[{}] /\ SumsOf(t, f, {})
    BY <1>1, SumUnfolds
<1> QED
    BY <1>2 DEF SumsOf

\* What gives the sums of the parts of a set gives those of the parts of a part.
LEMMA SumsAgree ==
    ASSUME NEW f, NEW s, IsFiniteSet(s), NEW t, SumsOf(t, f, s), NEW p \in SUBSET s
    PROVE  SumOver(f, p) = t[p]
<1>1. IsFiniteSet(p)
    BY FS_Subset
<1>2. PICK u : SumOver(f, p) = u[p] /\ SumsOf(u, f, p)
    BY <1>1, SumUnfolds
<1> DEFINE K == {r \in SUBSET p : u[r] = t[r]}
<1>3. ASSUME NEW r \in SUBSET p, \A x \in r : r \ {x} \in K PROVE r \in K
  <2>1. r \in SUBSET s
      OBVIOUS
  <2>2. CASE r = {}
      BY <1>2, <2>1, <2>2 DEF SumsOf
  <2>3. CASE r # {}
    <3>1. Pick(r) \in r
        BY <2>3 DEF Pick
    <3>2. u[r \ {Pick(r)}] = t[r \ {Pick(r)}]
        BY <1>3, <3>1
    <3>3. u[r] = f[Pick(r)] + u[r \ {Pick(r)}]
        BY <1>2, <2>3 DEF SumsOf
    <3>4. t[r] = f[Pick(r)] + t[r \ {Pick(r)}]
        BY <2>1, <2>3 DEF SumsOf
    <3>5. u[r] = t[r]
        BY <3>2, <3>3, <3>4
    <3> QED
        BY <3>5
  <2> QED
      BY <2>2, <2>3
<1>4. \A r \in SUBSET p : r \in K
  <2> HIDE DEF K
  <2> QED
      BY <1>1, <1>3, PartsInduction
<1>5. p \in K
  <2>1. p \in SUBSET p
      OBVIOUS
  <2> HIDE DEF K
  <2> QED
      BY <1>4, <2>1
<1> QED
    BY <1>2, <1>5

\* The sum over a set that is not empty starts with the element picked.
LEMMA SumPicks ==
    ASSUME NEW f, NEW s, IsFiniteSet(s), s # {}
    PROVE  SumOver(f, s) = f[Pick(s)] + SumOver(f, s \ {Pick(s)})
<1>1. PICK t : SumOver(f, s) = t[s] /\ SumsOf(t, f, s)
    BY SumUnfolds
<1>2. SumOver(f, s \ {Pick(s)}) = t[s \ {Pick(s)}]
    BY <1>1, SumsAgree
<1>3. t[s] = f[Pick(s)] + t[s \ {Pick(s)}]
    BY <1>1 DEF SumsOf
<1> QED
    BY <1>1, <1>2, <1>3

\* A sum of integers is one.
LEMMA SumIsInt ==
    ASSUME NEW f, NEW s, IsFiniteSet(s), \A x \in s : f[x] \in Int
    PROVE  SumOver(f, s) \in Int
<1> DEFINE K == {r \in SUBSET s : SumOver(f, r) \in Int}
<1>1. ASSUME NEW r \in SUBSET s, \A x \in r : r \ {x} \in K PROVE r \in K
  <2>1. CASE r = {}
      BY <2>1, SumOfNone
  <2>2. CASE r # {}
    <3>1. Pick(r) \in r /\ IsFiniteSet(r)
        BY <2>2, FS_Subset DEF Pick
    <3>2. SumOver(f, r) = f[Pick(r)] + SumOver(f, r \ {Pick(r)})
        BY <2>2, <3>1, SumPicks
    <3>3. SumOver(f, r \ {Pick(r)}) \in Int /\ f[Pick(r)] \in Int
        BY <1>1, <3>1
    <3>4. SumOver(f, r) \in Int
        BY <3>2, <3>3
    <3> QED
        BY <3>4
  <2> QED
      BY <2>1, <2>2
<1>2. \A r \in SUBSET s : r \in K
  <2> HIDE DEF K
  <2> QED
      BY <1>1, PartsInduction
<1>3. s \in K
  <2> HIDE DEF K
  <2> QED
      BY <1>2
<1> QED
    BY <1>3

\* Any element may be taken first.
LEMMA SumTakes ==
    ASSUME NEW f, NEW s, IsFiniteSet(s), \A x \in s : f[x] \in Int
    PROVE  \A x \in s : SumOver(f, s) = f[x] + SumOver(f, s \ {x})
<1> DEFINE K == {r \in SUBSET s : \A x \in r : SumOver(f, r) = f[x] + SumOver(f, r \ {x})}
<1>1. ASSUME NEW r \in SUBSET s, \A x \in r : r \ {x} \in K PROVE r \in K
  <2>1. ASSUME NEW x \in r PROVE SumOver(f, r) = f[x] + SumOver(f, r \ {x})
    <3> DEFINE y == Pick(r)
    <3>1. y \in r /\ IsFiniteSet(r) /\ r # {}
        BY <2>1, FS_Subset DEF Pick
    <3>2. SumOver(f, r) = f[y] + SumOver(f, r \ {y})
        BY <3>1, SumPicks
    <3> HIDE DEF y
    <3>3. CASE x = y
        BY <3>2, <3>3
    <3>4. CASE x # y
      <4>1. x \in r \ {y} /\ y \in r \ {x}
          BY <3>1, <3>4
      <4>2. SumOver(f, r \ {y}) = f[x] + SumOver(f, (r \ {y}) \ {x})
          BY <1>1, <3>1, <4>1
      <4>3. SumOver(f, r \ {x}) = f[y] + SumOver(f, (r \ {x}) \ {y})
          BY <1>1, <3>1, <4>1
      <4>4. (r \ {y}) \ {x} = (r \ {x}) \ {y}
          OBVIOUS
      <4>5. SumOver(f, (r \ {x}) \ {y}) \in Int
        <5>1. (r \ {x}) \ {y} \in SUBSET s
            OBVIOUS
        <5>2. IsFiniteSet((r \ {x}) \ {y}) /\ \A z \in (r \ {x}) \ {y} : f[z] \in Int
            BY <5>1, FS_Subset
        <5> QED
            BY <5>2, SumIsInt
      <4>6. f[x] \in Int /\ f[y] \in Int
          BY <3>1
      <4>7. SumOver(f, (r \ {y}) \ {x}) = SumOver(f, (r \ {x}) \ {y})
          BY <4>4
      <4>8. PICK n \in Int : SumOver(f, (r \ {x}) \ {y}) = n
          BY <4>5
      <4>9. SumOver(f, r) = f[y] + (f[x] + n) /\ SumOver(f, r \ {x}) = f[y] + n
          BY <3>2, <4>2, <4>3, <4>7, <4>8
      <4> QED
          BY <4>6, <4>9
    <3> QED
        BY <3>3, <3>4
  <2> QED
      BY <2>1
<1>2. \A r \in SUBSET s : r \in K
  <2> HIDE DEF K
  <2> QED
      BY <1>1, PartsInduction
<1>3. s \in K
  <2> HIDE DEF K
  <2> QED
      BY <1>2
<1> QED
    BY <1>3

\* The sum of two functions is the sum of their sums.
LEMMA SumAdds ==
    ASSUME NEW f, NEW g, NEW h, NEW s, IsFiniteSet(s),
           \A x \in s : f[x] \in Int /\ g[x] \in Int /\ h[x] = f[x] + g[x]
    PROVE  SumOver(h, s) = SumOver(f, s) + SumOver(g, s)
<1> DEFINE K == {r \in SUBSET s : SumOver(h, r) = SumOver(f, r) + SumOver(g, r)}
<1>1. ASSUME NEW r \in SUBSET s, \A x \in r : r \ {x} \in K PROVE r \in K
  <2>1. CASE r = {}
    <3>1. SumOver(h, r) = SumOver(f, r) + SumOver(g, r)
        BY <2>1, SumOfNone
    <3> QED
        BY <3>1
  <2>2. CASE r # {}
    <3> DEFINE y == Pick(r)
               q == r \ {y}
    <3>1. y \in r /\ IsFiniteSet(r)
        BY <2>2, FS_Subset DEF Pick
    <3>2. q \in SUBSET s /\ IsFiniteSet(q) /\ \A x \in q : f[x] \in Int /\ g[x] \in Int
        BY <3>1, FS_Subset
    <3>3. SumOver(h, r) = h[y] + SumOver(h, q) /\ SumOver(f, r) = f[y] + SumOver(f, q)
          /\ SumOver(g, r) = g[y] + SumOver(g, q)
        BY <2>2, <3>1, SumPicks
    <3>4. SumOver(h, q) = SumOver(f, q) + SumOver(g, q)
        BY <1>1, <3>1
    <3>5. SumOver(f, q) \in Int /\ SumOver(g, q) \in Int
        BY <3>2, SumIsInt
    <3>6. h[y] = f[y] + g[y] /\ f[y] \in Int /\ g[y] \in Int
        BY <3>1
    <3> HIDE DEF y, q
    <3>7. SumOver(h, r) = SumOver(f, r) + SumOver(g, r)
        BY <3>3, <3>4, <3>5, <3>6
    <3> QED
        BY <3>7
  <2> QED
      BY <2>1, <2>2
<1>2. \A r \in SUBSET s : r \in K
  <2> HIDE DEF K
  <2> QED
      BY <1>1, PartsInduction
<1>3. s \in K
  <2> HIDE DEF K
  <2> QED
      BY <1>2
<1> QED
    BY <1>3

\* Functions that agree on a set have the same sum over it.
LEMMA SumSame ==
    ASSUME NEW f, NEW g, NEW s, IsFiniteSet(s), \A x \in s : f[x] \in Int /\ g[x] = f[x]
    PROVE  SumOver(g, s) = SumOver(f, s)
<1> DEFINE K == {r \in SUBSET s : SumOver(g, r) = SumOver(f, r)}
<1>1. ASSUME NEW r \in SUBSET s, \A x \in r : r \ {x} \in K PROVE r \in K
  <2>1. CASE r = {}
      BY <2>1, SumOfNone
  <2>2. CASE r # {}
    <3>1. Pick(r) \in r /\ IsFiniteSet(r)
        BY <2>2, FS_Subset DEF Pick
    <3>2. SumOver(g, r) = g[Pick(r)] + SumOver(g, r \ {Pick(r)})
          /\ SumOver(f, r) = f[Pick(r)] + SumOver(f, r \ {Pick(r)})
        BY <2>2, <3>1, SumPicks
    <3>3. SumOver(g, r \ {Pick(r)}) = SumOver(f, r \ {Pick(r)})
        BY <1>1, <3>1
    <3>4. SumOver(g, r) = SumOver(f, r)
        BY <3>1, <3>2, <3>3
    <3> QED
        BY <3>4
  <2> QED
      BY <2>1, <2>2
<1>2. \A r \in SUBSET s : r \in K
  <2> HIDE DEF K
  <2> QED
      BY <1>1, PartsInduction
<1>3. s \in K
  <2> HIDE DEF K
  <2> QED
      BY <1>2
<1> QED
    BY <1>3

\* The sum over a set is that over a part and over the rest.
LEMMA SumSplits ==
    ASSUME NEW f, NEW s, IsFiniteSet(s), \A x \in s : f[x] \in Int, NEW p \in SUBSET s
    PROVE  SumOver(f, s) = SumOver(f, p) + SumOver(f, s \ p)
<1> DEFINE K == {r \in SUBSET p : SumOver(f, s) = SumOver(f, r) + SumOver(f, s \ r)}
<1>1. IsFiniteSet(p)
    BY FS_Subset
<1>2. ASSUME NEW r \in SUBSET p, \A x \in r : r \ {x} \in K PROVE r \in K
  <2>1. CASE r = {}
    <3>1. s \ r = s /\ SumOver(f, s) \in Int
        BY <2>1, SumIsInt
    <3>2. SumOver(f, s) = SumOver(f, r) + SumOver(f, s \ r)
        BY <2>1, <3>1, SumOfNone
    <3> QED
        BY <3>2
  <2>2. CASE r # {}
    <3>1. PICK y \in r : TRUE
        BY <2>2
    <3> DEFINE q == r \ {y}
    <3>2. SumOver(f, s) = SumOver(f, q) + SumOver(f, s \ q)
        BY <1>2, <3>1
    <3>3. IsFiniteSet(r) /\ IsFiniteSet(q) /\ IsFiniteSet(s \ q) /\ IsFiniteSet(s \ r)
      <4>1. r \in SUBSET s /\ q \in SUBSET s /\ s \ q \in SUBSET s /\ s \ r \in SUBSET s
          OBVIOUS
      <4> HIDE DEF q
      <4> QED
          BY <4>1, FS_Subset
    <3>4. SumOver(f, r) = f[y] + SumOver(f, q)
        BY <3>1, <3>3, SumTakes
    <3>5. SumOver(f, s \ q) = f[y] + SumOver(f, s \ r)
      <4>1. y \in s \ q /\ (s \ q) \ {y} = s \ r
          BY <3>1
      <4>2. \A x \in s \ q : f[x] \in Int
          OBVIOUS
      <4> HIDE DEF q
      <4>3. \A x \in s \ q : SumOver(f, s \ q) = f[x] + SumOver(f, (s \ q) \ {x})
          BY <3>3, <4>2, SumTakes
      <4> QED
          BY <4>1, <4>3
    <3>6. f[y] \in Int /\ SumOver(f, q) \in Int /\ SumOver(f, s \ r) \in Int
        BY <3>1, <3>3, SumIsInt
    <3> HIDE DEF q
    <3>7. SumOver(f, s) = SumOver(f, r) + SumOver(f, s \ r)
        BY <3>2, <3>4, <3>5, <3>6
    <3> QED
        BY <3>7
  <2> QED
      BY <2>1, <2>2
<1>3. \A r \in SUBSET p : r \in K
  <2> HIDE DEF K
  <2> QED
      BY <1>1, <1>2, PartsInduction
<1>4. p \in K
  <2>1. p \in SUBSET p
      OBVIOUS
  <2> HIDE DEF K
  <2> QED
      BY <1>3, <2>1
<1> QED
    BY <1>4

\* A sum of terms that are no greater than b.
LEMMA SumBounded ==
    ASSUME NEW f, NEW s, IsFiniteSet(s), NEW b \in Int, \A x \in s : f[x] \in Int /\ f[x] <= b
    PROVE  SumOver(f, s) <= Cardinality(s) * b
<1> DEFINE K == {r \in SUBSET s : SumOver(f, r) <= Cardinality(r) * b}
<1>1. ASSUME NEW r \in SUBSET s, \A x \in r : r \ {x} \in K PROVE r \in K
  <2>1. CASE r = {}
    <3>1. SumOver(f, r) = 0 /\ Cardinality(r) = 0
        BY <2>1, SumOfNone, FS_EmptySet
    <3>2. 0 <= 0 * b
        OBVIOUS
    <3> QED
        BY <3>1, <3>2
  <2>2. CASE r # {}
    <3> DEFINE y == Pick(r)
               q == r \ {y}
    <3>1. y \in r /\ IsFiniteSet(r)
        BY <2>2, FS_Subset DEF Pick
    <3>2. IsFiniteSet(q) /\ \A x \in q : f[x] \in Int
        BY <3>1, FS_RemoveElement
    <3>3. Cardinality(q) = Cardinality(r) - 1 /\ Cardinality(q) \in Nat /\ Cardinality(r) \in Nat
        BY <3>1, <3>2, FS_RemoveElement, FS_CardinalityType
    <3>4. SumOver(f, r) = f[y] + SumOver(f, q)
        BY <2>2, <3>1, SumPicks
    <3>5. SumOver(f, q) <= Cardinality(q) * b /\ SumOver(f, q) \in Int
        BY <1>1, <3>1, <3>2, SumIsInt
    <3>6. f[y] <= b /\ f[y] \in Int
        BY <3>1
    <3> HIDE DEF y, q
    <3>7. Cardinality(q) * b + b = Cardinality(r) * b
      <4>1. \A n \in Nat : (n - 1) * b + b = n * b
          OBVIOUS
      <4> QED
          BY <3>3, <4>1
    <3>8. Cardinality(q) * b \in Int
        BY <3>3
    <3>9. SumOver(f, r) <= Cardinality(r) * b
        BY <3>4, <3>5, <3>6, <3>7, <3>8
    <3> QED
        BY <3>9
  <2> QED
      BY <2>1, <2>2
<1>2. \A r \in SUBSET s : r \in K
  <2> HIDE DEF K
  <2> QED
      BY <1>1, PartsInduction
<1>3. s \in K
  <2> HIDE DEF K
  <2> QED
      BY <1>2
<1> QED
    BY <1>3

\* A common factor of the terms is one of the sum.
LEMMA SumScales ==
    ASSUME NEW f, NEW g, NEW s, IsFiniteSet(s), NEW k \in Int,
           \A x \in s : f[x] \in Int /\ g[x] = k * f[x]
    PROVE  SumOver(g, s) = k * SumOver(f, s)
<1> DEFINE K == {r \in SUBSET s : SumOver(g, r) = k * SumOver(f, r)}
<1>1. ASSUME NEW r \in SUBSET s, \A x \in r : r \ {x} \in K PROVE r \in K
  <2>1. CASE r = {}
    <3>1. SumOver(f, r) = 0 /\ SumOver(g, r) = 0
        BY <2>1, SumOfNone
    <3>2. k * 0 = 0
        OBVIOUS
    <3> QED
        BY <3>1, <3>2
  <2>2. CASE r # {}
    <3> DEFINE y == Pick(r)
               q == r \ {y}
    <3>1. y \in r /\ IsFiniteSet(r)
        BY <2>2, FS_Subset DEF Pick
    <3>2. IsFiniteSet(q) /\ \A x \in q : f[x] \in Int
        BY <3>1, FS_RemoveElement
    <3>4. SumOver(f, r) = f[y] + SumOver(f, q) /\ SumOver(g, r) = g[y] + SumOver(g, q)
        BY <2>2, <3>1, SumPicks
    <3>5. SumOver(g, q) = k * SumOver(f, q) /\ SumOver(f, q) \in Int
        BY <1>1, <3>1, <3>2, SumIsInt
    <3>6. g[y] = k * f[y] /\ f[y] \in Int
        BY <3>1
    <3> HIDE DEF y, q
    <3>7. \A a, b \in Int : k * a + k * b = k * (a + b)
        OBVIOUS
    <3>8. SumOver(g, r) = k * SumOver(f, r)
        BY <3>4, <3>5, <3>6, <3>7
    <3> QED
        BY <3>8
  <2> QED
      BY <2>1, <2>2
<1>2. \A r \in SUBSET s : r \in K
  <2> HIDE DEF K
  <2> QED
      BY <1>1, PartsInduction
<1>3. s \in K
  <2> HIDE DEF K
  <2> QED
      BY <1>2
<1> QED
    BY <1>3

-----------------------------------------------------------------------------
\* o orders the elements of s strictly, and any two of them.
Orders(o, s) ==
    /\ \A x \in s : <<x, x>> \notin o
    /\ \A x, y, z \in s : <<x, y>> \in o /\ <<y, z>> \in o => <<x, z>> \in o
    /\ \A x, y \in s : x # y => <<x, y>> \in o \/ <<y, x>> \in o

\* How many elements of s come before x.
RankOf(o, s, x) == Cardinality({y \in s : <<y, x>> \in o})

\* A finite set has a first element.
LEMMA FirstExists ==
    ASSUME NEW s, IsFiniteSet(s), NEW o, Orders(o, s), s # {}
    PROVE  \E x \in s : \A y \in s \ {x} : <<x, y>> \in o
<1> DEFINE K == {r \in SUBSET s : r # {} => \E x \in r : \A y \in r \ {x} : <<x, y>> \in o}
<1>1. ASSUME NEW r \in SUBSET s, \A x \in r : r \ {x} \in K PROVE r \in K
  <2>1. ASSUME r # {} PROVE \E x \in r : \A y \in r \ {x} : <<x, y>> \in o
    <3>1. PICK z \in r : r \ {z} \in K
        BY <1>1, <2>1
    <3>2. CASE r \ {z} = {}
        BY <3>1, <3>2
    <3>3. CASE r \ {z} # {}
      <4>1. PICK x \in r \ {z} : \A y \in (r \ {z}) \ {x} : <<x, y>> \in o
          BY <3>1, <3>3
      <4>2. CASE <<x, z>> \in o
          BY <4>1, <4>2
      <4>3. CASE <<z, x>> \in o
        <5>1. ASSUME NEW y \in r \ {z} PROVE <<z, y>> \in o
          <6>1. CASE y = x
              BY <4>3, <6>1
          <6>2. CASE y # x
              BY <3>1, <4>1, <4>3, <6>2 DEF Orders
          <6> QED
              BY <6>1, <6>2
        <5> QED
            BY <3>1, <5>1
      <4> QED
          BY <3>1, <4>1, <4>2, <4>3 DEF Orders
    <3> QED
        BY <3>2, <3>3
  <2> QED
      BY <2>1
<1>2. \A r \in SUBSET s : r \in K
  <2> HIDE DEF K
  <2> QED
      BY <1>1, PartsInduction
<1>3. s \in K
  <2> HIDE DEF K
  <2> QED
      BY <1>2
<1> QED
    BY <1>3

\* Of two elements the first has the lower rank, and no rank reaches the size of the set.
LEMMA RanksRise ==
    ASSUME NEW s, IsFiniteSet(s), NEW o, Orders(o, s)
    PROVE  /\ \A x \in s : RankOf(o, s, x) \in 0 .. Cardinality(s) - 1
           /\ \A x, y \in s : <<x, y>> \in o => RankOf(o, s, x) < RankOf(o, s, y)
<1> DEFINE Under(x) == {y \in s : <<y, x>> \in o}
<1>1. ASSUME NEW x \in s
      PROVE  /\ IsFiniteSet(Under(x)) /\ x \notin Under(x)
             /\ Cardinality(Under(x)) \in 0 .. Cardinality(s) - 1
  <2>1. Under(x) \in SUBSET s /\ x \notin Under(x) /\ Under(x) # s
      BY DEF Orders
  <2> HIDE DEF Under
  <2>2. IsFiniteSet(Under(x)) /\ Cardinality(Under(x)) <= Cardinality(s)
        /\ Cardinality(Under(x)) # Cardinality(s)
      BY <2>1, FS_Subset
  <2>3. Cardinality(Under(x)) \in Nat /\ Cardinality(s) \in Nat
      BY <2>2, FS_CardinalityType
  <2> QED
      BY <2>1, <2>2, <2>3
<1>2. ASSUME NEW x \in s, NEW y \in s, <<x, y>> \in o
      PROVE  Cardinality(Under(x)) < Cardinality(Under(y))
  <2>1. Under(x) \in SUBSET Under(y) /\ x \in Under(y) /\ x \notin Under(x)
      BY <1>2 DEF Orders
  <2>2. IsFiniteSet(Under(y))
      BY <1>1
  <2> HIDE DEF Under
  <2>3. Cardinality(Under(x)) <= Cardinality(Under(y)) /\ Cardinality(Under(x)) # Cardinality(Under(y))
      BY <2>1, <2>2, FS_Subset
  <2>4. Cardinality(Under(x)) \in Nat /\ Cardinality(Under(y)) \in Nat
      BY <1>1
  <2> QED
      BY <2>3, <2>4
<1> QED
    BY <1>1, <1>2 DEF RankOf

\* The first k elements are k.
LEMMA FirstRanks ==
    ASSUME NEW s, IsFiniteSet(s), NEW o, Orders(o, s), NEW k \in 0 .. Cardinality(s)
    PROVE  /\ IsFiniteSet({x \in s : RankOf(o, s, x) < k})
           /\ Cardinality({x \in s : RankOf(o, s, x) < k}) = k
<1> DEFINE f == [x \in s |-> RankOf(o, s, x)]
           t == 0 .. Cardinality(s) - 1
           a == {x \in s : RankOf(o, s, x) < k}
           b == 0 .. k - 1
           g == [x \in a |-> RankOf(o, s, x)]
<1>1. Cardinality(s) \in Nat
    BY FS_CardinalityType
<1>2. IsFiniteSet(t) /\ Cardinality(t) = Cardinality(s) /\ IsFiniteSet(b) /\ Cardinality(b) = k
  <2>1. 0 \in Int /\ Cardinality(s) - 1 \in Int /\ k - 1 \in Int /\ k \in Nat
      BY <1>1
  <2>2. IsFiniteSet(t) /\ Cardinality(t) = IF 0 > Cardinality(s) - 1 THEN 0 ELSE Cardinality(s) - 1 - 0 + 1
      BY <2>1, FS_Interval
  <2>3. IsFiniteSet(b) /\ Cardinality(b) = IF 0 > k - 1 THEN 0 ELSE k - 1 - 0 + 1
      BY <2>1, FS_Interval
  <2> HIDE DEF t, b
  <2> QED
      BY <1>1, <2>1, <2>2, <2>3
<1>3. f \in Injection(s, t)
  <2>1. f \in [s -> t]
      BY RanksRise
  <2>2. ASSUME NEW x \in s, NEW y \in s, f[x] = f[y] PROVE x = y
    <3>1. RankOf(o, s, x) = RankOf(o, s, y) /\ RankOf(o, s, x) \in Int
        BY <2>1, <2>2
    <3>2. ~ (<<x, y>> \in o) /\ ~ (<<y, x>> \in o)
        BY <3>1, RanksRise
    <3> QED
        BY <3>2 DEF Orders
  <2> HIDE DEF f, t
  <2> QED
      BY <2>1, <2>2 DEF Injection, IsInjective
<1>4. f \in Surjection(s, t)
  <2> HIDE DEF f, t
  <2> QED
      BY <1>2, <1>3, FS_Injection
<1>5. a \in SUBSET s /\ IsFiniteSet(a)
  <2>1. a \in SUBSET s
      OBVIOUS
  <2> HIDE DEF a
  <2> QED
      BY <2>1, FS_Subset
<1>6. \A x \in s : RankOf(o, s, x) \in t
    BY RanksRise
<1>7. g \in Injection(a, b)
  <2>1. g \in [a -> b]
    <3>1. ASSUME NEW x \in a PROVE RankOf(o, s, x) \in b
        BY <1>1, <1>6
    <3> QED
        BY <3>1
  <2>2. \A x, y \in a : g[x] = g[y] => x = y
    <3>1. \A x \in a : g[x] = f[x]
        BY <1>5
    <3>2. \A x, y \in s : f[x] = f[y] => x = y
      <4> HIDE DEF f, t
      <4> QED
          BY <1>3 DEF Injection, IsInjective
    <3> HIDE DEF f, g, a
    <3> QED
        BY <1>5, <3>1, <3>2
  <2> HIDE DEF g, a, b
  <2> QED
      BY <2>1, <2>2 DEF Injection, IsInjective
<1>8. g \in Surjection(a, b)
  <2>1. ASSUME NEW n \in b PROVE \E x \in a : g[x] = n
    <3>1. n \in t
        BY <1>1
    <3>2. PICK x \in s : f[x] = n
      <4> HIDE DEF f, t
      <4> QED
          BY <1>4, <3>1 DEF Surjection
    <3>3. x \in a /\ g[x] = n
        BY <3>2
    <3> QED
        BY <3>3
  <2>2. g \in [a -> b]
    <3> HIDE DEF g, a, b
    <3> QED
        BY <1>7 DEF Injection
  <2> HIDE DEF g, a, b
  <2> QED
      BY <2>1, <2>2 DEF Surjection
<1>9. Cardinality(a) = Cardinality(b)
  <2> HIDE DEF g, a, b
  <2> QED
      BY <1>2, <1>7, <1>8, FS_Injection
<1> HIDE DEF b
<1> QED
    BY <1>2, <1>5, <1>9

\* A finite set of integers has a greatest member.
LEMMA MaxExists ==
    ASSUME NEW S \in SUBSET Int, IsFiniteSet(S), S # {}
    PROVE  Max(S) \in S /\ \A y \in S : y <= Max(S)
<1> DEFINE o == {p \in S \X S : p[1] > p[2]}
<1>1. \A x, y \in S : <<x, y>> \in o <=> x > y
    OBVIOUS
<1> HIDE DEF o
<1>2. Orders(o, S)
    BY <1>1 DEF Orders
<1>3. S # {} => \E x \in S : \A y \in S \ {x} : <<x, y>> \in o
    BY <1>2, FirstExists
<1>4. \E x \in S : \A y \in S : x >= y
  <2>1. PICK x \in S : \A y \in S \ {x} : <<x, y>> \in o
      BY <1>3
  <2>2. ASSUME NEW y \in S, y # x PROVE <<x, y>> \in o
    <3>1. y \in S \ {x}
        BY <2>2, Zenon
    <3> QED
        BY <2>1, <3>1, Zenon
  <2>3. \A y \in S : y # x => x > y
      BY <1>1, <2>2
  <2> QED
      BY <2>3
<1>5. Max(S) \in S /\ \A y \in S : Max(S) >= y
    BY <1>4 DEF Max
<1> QED
    BY <1>5

=============================================================================
