-------------------------- MODULE SchedulerProofs --------------------------
(***************************************************************************)
(* Proofs about the scheduler (Scheduler), for every number of paths,      *)
(* every share, fan-out and number of samples.                             *)
(***************************************************************************)
EXTENDS Scheduler, SetSums, SequenceTheorems

-----------------------------------------------------------------------------
(* Arithmetic. *)

\* A positive factor of both sides may go.
LEMMA Cancels ==
    ASSUME NEW r \in Nat, r >= 1, NEW x \in Int, NEW y \in Int, r * x <= r * y
    PROVE  x <= y
<1>1. SUFFICES ASSUME y + 1 <= x PROVE FALSE
    OBVIOUS
<1>2. PICK d \in Nat : x = (y + 1) + d
  <2>1. x - (y + 1) \in Nat /\ x = (y + 1) + (x - (y + 1))
      BY <1>1
  <2> QED
      BY <2>1
<1>3. r * x = r * y + r + r * d
    BY <1>2
<1>4. r * d \in Nat /\ r * x \in Int /\ r * y \in Int
    OBVIOUS
<1> QED
    BY <1>3, <1>4

\* A factor keeps the order.
LEMMA Multiplies ==
    ASSUME NEW r \in Nat, NEW x \in Int, NEW y \in Int, x <= y
    PROVE  r * x <= r * y
<1>1. PICK d \in Nat : y = x + d
  <2>1. y - x \in Nat /\ y = x + (y - x)
      OBVIOUS
  <2> QED
      BY <2>1
<1>2. r * y = r * x + r * d
    BY <1>1
<1>3. r * d \in Nat /\ r * x \in Int /\ r * y \in Int
    OBVIOUS
<1> QED
    BY <1>2, <1>3

\* Twice what k paths of n together may be ahead or behind, in units.
Room(n, k) == k * (2 * n - k - 1)

\* The step from the room of fewer and of one more path to that of k.
LEMMA RoomIsConcave ==
    ASSUME NEW n \in Int, NEW k \in Int, NEW a \in Int
    PROVE  /\ (a + 1) * Room(n, k) = Room(n, k - a) + a * Room(n, k + 1) + 2 * a + a * (a - 1)
           /\ (a + 1) * Room(n, k) = Room(n, k + a) + a * Room(n, k - 1) + 2 * a + a * (a - 1)
BY DEF Room

\* There is always some room.
LEMMA RoomIsNat ==
    ASSUME NEW n \in Nat, NEW k \in 0 .. n
    PROVE  Room(n, k) \in Nat
<1>1. CASE k = 0
    BY <1>1 DEF Room
<1>2. CASE k >= 1
  <2>1. 2 * n - k - 1 \in Nat /\ k \in Nat
      BY <1>2
  <2>2. \A x, y \in Nat : x * y \in Nat
      OBVIOUS
  <2> QED
      BY <2>1, <2>2 DEF Room
<1> QED
    BY <1>1, <1>2

\* One more path needs no less room.
LEMMA RoomGrows ==
    ASSUME NEW n \in Nat, NEW k \in 1 .. n
    PROVE  Room(n, k - 1) <= Room(n, k)
<1>1. Room(n, k) = Room(n, k - 1) + 2 * (n - k)
    BY DEF Room
<1>2. n - k \in Nat /\ Room(n, k - 1) \in Int
    BY DEF Room
<1> QED
    BY <1>1, <1>2

\* k paths do not get further ahead: a of them are credited and the one that is charged
\* is ahead of each of the a.
LEMMA AheadStays ==
    ASSUME NEW u \in Nat, NEW n \in Nat, NEW k \in Nat, NEW a \in Nat, a >= 1, a <= k, k + 1 <= n,
           NEW x \in Int, NEW rest \in Int, NEW more \in Int, NEW top \in Int,
           2 * rest <= u * Room(n, k - a), 2 * more <= u * Room(n, k + 1) + 2 * u,
           x <= rest + a * top, x = more - top
    PROVE  2 * x <= u * Room(n, k)
<1> DEFINE A == Room(n, k - a)
           B == Room(n, k + 1)
           R == Room(n, k)
<1>1. A \in Int /\ B \in Int /\ R \in Int
    BY DEF Room
<1>2. (a + 1) * R = A + a * B + 2 * a + a * (a - 1)
    BY RoomIsConcave
<1> HIDE DEF A, B, R
<1>3. a * x = a * more - a * top
    OBVIOUS
<1>4. a * more \in Int /\ a * top \in Int /\ a * x \in Int /\ u * A \in Int /\ u * B \in Int
    BY <1>1
<1>5. (a + 1) * x <= rest + a * more
  <2>1. (a + 1) * x = a * x + x
      OBVIOUS
  <2> QED
      BY <1>3, <1>4, <2>1
<1>6. a * (2 * more) <= a * (u * B + 2 * u)
  <2>1. 2 * more \in Int /\ u * B + 2 * u \in Int /\ 2 * more <= u * B + 2 * u
      BY <1>4 DEF B
  <2> QED
      BY <2>1, Multiplies
<1>7. 2 * ((a + 1) * x) <= u * A + a * (u * B + 2 * u)
  <2>1. a * (2 * more) = 2 * (a * more)
      OBVIOUS
  <2>2. 2 * rest <= u * A
      BY DEF A
  <2>3. a * (u * B + 2 * u) \in Int /\ (a + 1) * x \in Int
      BY <1>4
  <2> QED
      BY <1>4, <1>5, <1>6, <2>1, <2>2, <2>3
<1>8. u * A + a * (u * B + 2 * u) <= (a + 1) * (u * R)
  <2>1. (a + 1) * (u * R) = u * ((a + 1) * R)
      BY <1>1
  <2>2. u * ((a + 1) * R) = u * A + a * (u * B + 2 * u) + u * (a * (a - 1))
      BY <1>1, <1>2
  <2>3. u * (a * (a - 1)) \in Nat
    <3>1. \A p, q \in Nat : p * q \in Nat
        OBVIOUS
    <3>2. a - 1 \in Nat
        OBVIOUS
    <3> QED
        BY <3>1, <3>2
  <2>4. u * A + a * (u * B + 2 * u) \in Int
      BY <1>4
  <2> QED
      BY <2>1, <2>2, <2>3, <2>4
<1>9. (a + 1) * (2 * x) <= (a + 1) * (u * R)
  <2>1. (a + 1) * (2 * x) = 2 * ((a + 1) * x)
      OBVIOUS
  <2>2. (a + 1) * (2 * x) \in Int /\ (a + 1) * (u * R) \in Int /\ u * A + a * (u * B + 2 * u) \in Int
      BY <1>1, <1>4
  <2> QED
      BY <1>7, <1>8, <2>1, <2>2
<1>10. 2 * x <= u * R
  <2>1. a + 1 \in Nat /\ a + 1 >= 1 /\ 2 * x \in Int /\ u * R \in Int
      BY <1>1
  <2> QED
      BY <1>9, <2>1, Cancels
<1> QED
    BY <1>10 DEF R

\* Nor do they fall further behind: the one that is charged is one of them, and b others
\* that are credited are not ahead of it.
LEMMA BehindStays ==
    ASSUME NEW u \in Nat, NEW n \in Nat, NEW k \in Nat, NEW b \in Nat, b >= 1, k >= 1, k + b <= n,
           NEW x \in Int, NEW less \in Int, NEW more \in Int, NEW top \in Int, NEW paid \in Int,
           - (u * Room(n, k - 1)) <= 2 * less, - (u * Room(n, k + b)) <= 2 * more,
           paid <= u, x = less + top - paid, more <= x + b * top
    PROVE  - (u * Room(n, k)) <= 2 * x
<1> DEFINE A == Room(n, k + b)
           B == Room(n, k - 1)
           R == Room(n, k)
<1>1. A \in Int /\ B \in Int /\ R \in Int
    BY DEF Room
<1>2. (b + 1) * R = A + b * B + 2 * b + b * (b - 1)
    BY RoomIsConcave
<1>0. - (u * B) <= 2 * less /\ - (u * A) <= 2 * more
    BY DEF A, B
<1> HIDE DEF A, B, R
<1>3. b * x = b * less + b * top - b * paid
    OBVIOUS
<1>4. /\ b * less \in Int /\ b * top \in Int /\ b * x \in Int /\ b * paid \in Int /\ b * u \in Int
      /\ u * A \in Int /\ u * B \in Int
    BY <1>1
<1>5. b * paid <= b * u
    BY Multiplies
<1>6. b * less + more <= (b + 1) * x + b * u
  <2>1. (b + 1) * x = b * x + x
      OBVIOUS
  <2> QED
      BY <1>3, <1>4, <1>5, <2>1
<1>7. b * (- (u * B)) <= b * (2 * less)
  <2>1. - (u * B) \in Int /\ 2 * less \in Int
      BY <1>4
  <2> QED
      BY <1>0, <2>1, Multiplies
<1>8. - (u * A) + b * (- (u * B)) <= 2 * ((b + 1) * x) + 2 * (b * u)
  <2>1. b * (2 * less) = 2 * (b * less)
      OBVIOUS
  <2>2. b * (- (u * B)) \in Int /\ (b + 1) * x \in Int
      BY <1>4
  <2> QED
      BY <1>0, <1>4, <1>6, <1>7, <2>1, <2>2
<1>9. - ((b + 1) * (u * R)) + 2 * (b * u) <= - (u * A) + b * (- (u * B))
  <2>1. (b + 1) * (u * R) = u * ((b + 1) * R)
      BY <1>1
  <2>2. u * ((b + 1) * R) = u * A - b * (- (u * B)) + 2 * (b * u) + u * (b * (b - 1))
      BY <1>1, <1>2
  <2>3. u * (b * (b - 1)) \in Nat
    <3>1. \A p, q \in Nat : p * q \in Nat
        OBVIOUS
    <3>2. b - 1 \in Nat
        OBVIOUS
    <3> QED
        BY <3>1, <3>2
  <2>4. b * (- (u * B)) \in Int
      BY <1>4
  <2> QED
      BY <1>4, <2>1, <2>2, <2>3, <2>4
<1>10. (b + 1) * (- (u * R)) <= (b + 1) * (2 * x)
  <2>1. (b + 1) * (2 * x) = 2 * ((b + 1) * x) /\ (b + 1) * (- (u * R)) = - ((b + 1) * (u * R))
      BY <1>1
  <2>2. /\ (b + 1) * x \in Int /\ (b + 1) * (u * R) \in Int /\ - (u * A) + b * (- (u * B)) \in Int
        /\ 2 * (b * u) \in Int
      BY <1>1, <1>4
  <2> QED
      BY <1>8, <1>9, <2>1, <2>2
<1>11. - (u * R) <= 2 * x
  <2>1. b + 1 \in Nat /\ b + 1 >= 1 /\ 2 * x \in Int /\ - (u * R) \in Int
      BY <1>1
  <2> QED
      BY <1>10, <2>1, Cancels
<1> QED
    BY <1>11 DEF R

\* A whole number of times a number, divided by it.
LEMMA DividesBack ==
    ASSUME NEW d \in Nat, d > 0, NEW x \in Nat
    PROVE  (d * x) \div d = x
OBVIOUS

\* What a number that divides another leaves whole.
LEMMA WholePart ==
    ASSUME NEW d \in Nat, d > 0, NEW x \in Nat, x % d = 0
    PROVE  x = d * (x \div d) /\ x \div d \in Nat
OBVIOUS

-----------------------------------------------------------------------------
(* Credit. *)

NPaths == Cardinality(Paths)

(***************************************************************************)
(* No set of paths together is further ahead of what it was due, nor       *)
(* further behind, than its room.                                          *)
(***************************************************************************)
Spread(c) ==
    \A s \in SUBSET Paths :
        /\ 2 * SumOver(c, s) <= Unit * Room(NPaths, Cardinality(s))
        /\ - (Unit * Room(NPaths, Cardinality(s))) <= 2 * SumOver(c, s)

\* Sets of paths are finite and no larger than all of them.
LEMMA PathSets ==
    \A s \in SUBSET Paths :
        IsFiniteSet(s) /\ Cardinality(s) \in 0 .. NPaths /\ NPaths \in Nat
<1>1. ASSUME NEW s \in SUBSET Paths
      PROVE  IsFiniteSet(s) /\ Cardinality(s) \in 0 .. NPaths /\ NPaths \in Nat
  <2>1. IsFiniteSet(s) /\ Cardinality(s) <= Cardinality(Paths)
      BY FS_Subset, PathsAssumption
  <2>2. Cardinality(s) \in Nat /\ Cardinality(Paths) \in Nat
      BY <2>1, FS_CardinalityType, PathsAssumption
  <2> QED
      BY <2>1, <2>2 DEF NPaths
<1> QED
    BY <1>1

\* The credits of some paths add up to a number.
LEMMA PathSums ==
    ASSUME NEW c \in [Paths -> Int]
    PROVE  \A s \in SUBSET Paths : SumOver(c, s) \in Int
<1>1. ASSUME NEW s \in SUBSET Paths PROVE SumOver(c, s) \in Int
  <2>1. IsFiniteSet(s) /\ \A x \in s : c[x] \in Int
      BY PathSets
  <2> QED
      BY <2>1, SumIsInt
<1> QED
    BY <1>1

\* The shares of a spray: those who carry divide a packet among them.
Shared(share, legs) ==
    /\ share \in [Paths -> Nat]
    /\ \A p \in Paths \ legs : share[p] = 0
    /\ SumOver(share, Paths) = Unit

\* Nothing adds up to nothing.
LEMMA SumOfZeros ==
    ASSUME NEW f, NEW s, IsFiniteSet(s), \A x \in s : f[x] = 0
    PROVE  SumOver(f, s) = 0
<1> DEFINE z == [p \in s |-> 0]
<1>1. \A p \in s : z[p] \in Int /\ f[p] = 0 * z[p] /\ 0 \in Int
    OBVIOUS
<1> HIDE DEF z
<1>2. SumOver(f, s) = 0 * SumOver(z, s)
    BY <1>1, SumScales
<1>3. SumOver(z, s) \in Int
    BY <1>1, SumIsInt
<1> QED
    BY <1>2, <1>3

\* Paths that do not carry have no share.
LEMMA ShareOfNobody ==
    ASSUME NEW legs \in SUBSET Paths, NEW share, Shared(share, legs),
           NEW s \in SUBSET Paths, s \cap legs = {}
    PROVE  SumOver(share, s) = 0
<1>1. IsFiniteSet(s) /\ \A p \in s : share[p] = 0
    BY PathSets DEF Shared
<1> QED
    BY <1>1, SumOfZeros

\* The shares of some paths are what the shares of the other carrying legs leave of
\* a packet.
LEMMA SharesAdd ==
    ASSUME NEW legs \in SUBSET Paths, NEW share, Shared(share, legs), NEW s \in SUBSET Paths
    PROVE  /\ SumOver(share, s) \in 0 .. Unit
           /\ SumOver(share, s) = Unit - SumOver(share, legs \ s)
<1>1. share \in [Paths -> Int] /\ share \in [Paths -> Nat]
    BY DEF Shared
<1>2. \A t \in SUBSET Paths : SumOver(share, t) \in Nat
  <2>1. ASSUME NEW t \in SUBSET Paths PROVE SumOver(share, t) \in Nat
    <3>1. IsFiniteSet(t) /\ \A x \in t : share[x] \in Nat
        BY <1>1, PathSets
    <3> QED
        BY <3>1, SumIsNat
  <2> QED
      BY <2>1
<1>3. SumOver(share, Paths) = SumOver(share, s) + SumOver(share, Paths \ s)
    BY <1>1, PathsAssumption, SumSplits
<1>4. SumOver(share, Paths \ s) = SumOver(share, legs \ s) + SumOver(share, (Paths \ s) \ (legs \ s))
  <2>1. IsFiniteSet(Paths \ s) /\ \A x \in Paths \ s : share[x] \in Int
      BY <1>1, PathSets
  <2>2. legs \ s \in SUBSET (Paths \ s)
      OBVIOUS
  <2> QED
      BY <2>1, <2>2, SumSplits
<1>5. SumOver(share, (Paths \ s) \ (legs \ s)) = 0
  <2>1. (Paths \ s) \ (legs \ s) \in SUBSET Paths /\ ((Paths \ s) \ (legs \ s)) \cap legs = {}
      OBVIOUS
  <2> QED
      BY <2>1, ShareOfNobody
<1>6. /\ SumOver(share, s) \in Nat /\ SumOver(share, legs \ s) \in Nat
      /\ SumOver(share, Paths \ s) \in Nat
    BY <1>2
<1>7. SumOver(share, Paths) = Unit
    BY DEF Shared
<1> QED
    BY <1>3, <1>4, <1>5, <1>6, <1>7, UnitAssumption

(***************************************************************************)
(* The step of a spray: m is the one of those who carry that is furthest   *)
(* ahead once all are credited, and it pays for the packet.                *)
(***************************************************************************)
Sprayed(c, share, legs, m, d) ==
    /\ c \in [Paths -> Int] /\ d \in [Paths -> Int]
    /\ m \in legs
    /\ \A q \in legs : c[q] + share[q] <= c[m] + share[m]
    /\ \A p \in Paths : d[p] = c[p] + share[p] - IF p = m THEN Unit ELSE 0

\* What a spray does to the credit of some paths together.
LEMMA SpraySums ==
    ASSUME NEW legs \in SUBSET Paths, NEW share, Shared(share, legs),
           NEW c, NEW d, NEW m, Sprayed(c, share, legs, m, d), NEW s \in SUBSET Paths
    PROVE  /\ m \notin s => SumOver(d, s) = SumOver(c, s) + SumOver(share, s)
           /\ m \in s => SumOver(d, s) = SumOver(c, s) + SumOver(share, s) - Unit
<1> DEFINE e == [p \in Paths |-> c[p] + share[p]]
<1>1. /\ c \in [Paths -> Int] /\ d \in [Paths -> Int] /\ share \in [Paths -> Int]
      /\ e \in [Paths -> Int] /\ m \in Paths /\ Unit \in Nat
    BY UnitAssumption DEF Shared, Sprayed
<1>2. \A p \in Paths : e[p] = c[p] + share[p] /\ d[p] = e[p] - IF p = m THEN Unit ELSE 0
  <2>1. ASSUME NEW p \in Paths PROVE e[p] = c[p] + share[p]
      OBVIOUS
  <2>2. ASSUME NEW p \in Paths PROVE d[p] = c[p] + share[p] - IF p = m THEN Unit ELSE 0
      BY DEF Sprayed
  <2> HIDE DEF e
  <2>3. ASSUME NEW p \in Paths PROVE d[p] = e[p] - IF p = m THEN Unit ELSE 0
      BY <1>1, <2>1, <2>2
  <2> QED
      BY <2>1, <2>3
<1> HIDE DEF e
<1>3. ASSUME NEW t \in SUBSET Paths PROVE SumOver(e, t) = SumOver(c, t) + SumOver(share, t)
  <2>1. IsFiniteSet(t) /\ \A x \in t : c[x] \in Int /\ share[x] \in Int /\ e[x] = c[x] + share[x]
      BY <1>1, <1>2, PathSets
  <2> QED
      BY <2>1, SumAdds
<1>4. ASSUME NEW t \in SUBSET Paths, m \notin t PROVE SumOver(d, t) = SumOver(e, t)
  <2>1. IsFiniteSet(t) /\ \A x \in t : e[x] \in Int /\ d[x] = e[x]
      BY <1>1, <1>2, <1>4, PathSets
  <2> QED
      BY <2>1, SumSame
<1>5. ASSUME m \in s PROVE SumOver(d, s) = SumOver(e, s) - Unit
  <2>1. IsFiniteSet(s) /\ \A x \in s : e[x] \in Int /\ d[x] \in Int
      BY <1>1, PathSets
  <2>2. SumOver(d, s) = d[m] + SumOver(d, s \ {m}) /\ SumOver(e, s) = e[m] + SumOver(e, s \ {m})
      BY <1>5, <2>1, SumTakes
  <2>3. SumOver(d, s \ {m}) = SumOver(e, s \ {m})
      BY <1>4
  <2>4. d[m] = e[m] - Unit /\ e[m] \in Int
      BY <1>1, <1>2
  <2>5. SumOver(e, s \ {m}) \in Int
      BY <1>1, PathSums
  <2> QED
      BY <1>1, <2>2, <2>3, <2>4, <2>5
<1>6. SumOver(e, s) = SumOver(c, s) + SumOver(share, s)
    BY <1>3
<1>7. CASE m \notin s
    BY <1>4, <1>6, <1>7
<1>8. CASE m \in s
  <2>1. SumOver(d, s) = SumOver(e, s) - Unit
      BY <1>5, <1>8
  <2>2. SumOver(c, s) \in Int /\ SumOver(share, s) \in Int
      BY <1>1, PathSums
  <2> QED
      BY <1>1, <1>6, <1>8, <2>1, <2>2
<1> QED
    BY <1>7, <1>8

\* What the paths of a set that carry are credited to, at most.
LEMMA CreditedBounded ==
    ASSUME NEW legs \in SUBSET Paths, NEW share, Shared(share, legs),
           NEW c, NEW d, NEW m, Sprayed(c, share, legs, m, d), NEW s \in SUBSET legs
    PROVE  SumOver(c, s) + SumOver(share, s) <= Cardinality(s) * (c[m] + share[m])
<1> DEFINE e == [p \in Paths |-> c[p] + share[p]]
<1>1. c \in [Paths -> Int] /\ share \in [Paths -> Int] /\ m \in Paths
    BY DEF Shared, Sprayed
<1>2. IsFiniteSet(s) /\ s \in SUBSET Paths
    BY PathSets
<1>3. /\ \A x \in s : c[x] \in Int /\ share[x] \in Int /\ e[x] = c[x] + share[x]
      /\ \A x \in s : e[x] \in Int /\ e[x] <= c[m] + share[m]
      /\ c[m] + share[m] \in Int
    BY <1>1 DEF Sprayed
<1> HIDE DEF e
<1>4. SumOver(e, s) = SumOver(c, s) + SumOver(share, s)
    BY <1>2, <1>3, SumAdds
<1>5. SumOver(e, s) <= Cardinality(s) * (c[m] + share[m])
    BY <1>2, <1>3, SumBounded
<1> QED
    BY <1>4, <1>5

\* A spray lets no set of paths get further ahead than its room.  If the leg that is
\* charged is one of them they only lose; if not, it is at least as far ahead as each of
\* those that were credited, so that with it they are a set whose room bounds theirs.
LEMMA SprayKeepsAhead ==
    ASSUME NEW legs \in SUBSET Paths, NEW share, Shared(share, legs),
           NEW c, NEW d, NEW m, Sprayed(c, share, legs, m, d), Spread(c), NEW s \in SUBSET Paths
    PROVE  2 * SumOver(d, s) <= Unit * Room(NPaths, Cardinality(s))
<1>1. /\ c \in [Paths -> Int] /\ share \in [Paths -> Int] /\ m \in Paths /\ m \in legs
      /\ Unit \in Nat
    BY UnitAssumption DEF Shared, Sprayed
<1>2. 2 * SumOver(c, s) <= Unit * Room(NPaths, Cardinality(s))
    BY DEF Spread
<1>3. SumOver(c, s) \in Int /\ SumOver(share, s) \in 0 .. Unit /\ c[m] + share[m] \in Int
  <2>1. SumOver(c, s) \in Int
      BY <1>1, PathSums
  <2>2. SumOver(share, s) \in 0 .. Unit
      BY SharesAdd
  <2>3. c[m] \in Int /\ share[m] \in Int
      BY <1>1
  <2> QED
      BY <2>1, <2>2, <2>3
<1>4. IsFiniteSet(s) /\ Cardinality(s) \in 0 .. NPaths /\ NPaths \in Nat
    BY PathSets
<1>5. Unit * Room(NPaths, Cardinality(s)) \in Int
    BY <1>1, <1>4 DEF Room
<1>6. CASE m \in s
  <2>1. SumOver(d, s) = SumOver(c, s) + SumOver(share, s) - Unit
      BY <1>6, SpraySums
  <2> QED
      BY <1>1, <1>2, <1>3, <1>5, <2>1
<1>7. CASE m \notin s
  <2> DEFINE a == s \cap legs
  <2>1. SumOver(d, s) = SumOver(c, s) + SumOver(share, s)
      BY <1>7, SpraySums
  <2>2. CASE a = {}
    <3>1. SumOver(share, s) = 0
        BY <2>2, ShareOfNobody
    <3> QED
        BY <1>2, <1>3, <2>1, <3>1
  <2>3. CASE a # {}
    <3> DEFINE more == SumOver(c, s \cup {m}) + SumOver(share, s \cup {m})
               rest == SumOver(c, s \ a)
               top == c[m] + share[m]
               k == Cardinality(s)
    <3>1. a \in SUBSET legs /\ a \in SUBSET Paths /\ a \in SUBSET s /\ s \ a \in SUBSET Paths /\ s \cup {m} \in SUBSET Paths
        BY <1>1
    <3>2. /\ IsFiniteSet(a) /\ Cardinality(a) \in Nat /\ Cardinality(a) >= 1
          /\ Cardinality(a) <= k
      <4>1. IsFiniteSet(a) /\ Cardinality(a) \in Nat /\ Cardinality(a) <= k
        <5> HIDE DEF a
        <5> QED
            BY <1>4, <3>1, PathSets, FS_Subset
      <4>2. Cardinality(a) # 0
          BY <2>3, <4>1, FS_EmptySet
      <4> QED
          BY <4>1, <4>2
    <3>3. Cardinality(s \ a) = k - Cardinality(a)
      <4>1. s \cap a = a
          OBVIOUS
      <4> HIDE DEF a
      <4> QED
          BY <1>4, <4>1, FS_Difference
    <3>4. Cardinality(s \cup {m}) = k + 1 /\ k + 1 <= NPaths
      <4>1. Cardinality(s \cup {m}) = k + 1
          BY <1>4, <1>7, FS_AddElement
      <4>2. Cardinality(s \cup {m}) <= NPaths
          BY <3>1, PathSets
      <4> QED
          BY <4>1, <4>2
    <3>5. 2 * rest <= Unit * Room(NPaths, k - Cardinality(a))
        BY <3>1, <3>3 DEF Spread
    <3>6. 2 * more <= Unit * Room(NPaths, k + 1) + 2 * Unit
      <4>1. 2 * SumOver(c, s \cup {m}) <= Unit * Room(NPaths, k + 1)
          BY <3>1, <3>4 DEF Spread
      <4>2. SumOver(share, s \cup {m}) \in 0 .. Unit
          BY <3>1, SharesAdd
      <4>3. SumOver(c, s \cup {m}) \in Int
          BY <1>1, <3>1, PathSums
      <4>4. Unit * Room(NPaths, k + 1) \in Int
          BY <1>1, <1>4 DEF Room
      <4> QED
          BY <1>1, <4>1, <4>2, <4>3, <4>4
    <3>7. SumOver(d, s) <= rest + Cardinality(a) * top
      <4>1. SumOver(c, a) + SumOver(share, a) <= Cardinality(a) * top
          BY <3>1, CreditedBounded
      <4>2. /\ \A x \in s : c[x] \in Int /\ share[x] \in Int
          BY <1>1
      <4>3. /\ SumOver(c, s) = SumOver(c, a) + SumOver(c, s \ a)
            /\ SumOver(share, s) = SumOver(share, a) + SumOver(share, s \ a)
        <5> HIDE DEF a
        <5> QED
            BY <1>4, <3>1, <4>2, SumSplits
      <4>4. SumOver(share, s \ a) = 0
        <5>1. (s \ a) \cap legs = {}
            OBVIOUS
        <5> HIDE DEF a
        <5> QED
            BY <3>1, <5>1, ShareOfNobody
      <4>5. SumOver(c, a) \in Int /\ SumOver(share, a) \in Int /\ SumOver(c, s \ a) \in Int
          BY <1>1, <3>1, PathSums
      <4>6. Cardinality(a) * top \in Int
          BY <1>3, <3>2
      <4> QED
          BY <2>1, <4>1, <4>3, <4>4, <4>5, <4>6
    <3>8. SumOver(d, s) = more - top
      <4> DEFINE t == s \cup {m}
      <4>1. IsFiniteSet(t) /\ m \in t /\ t \ {m} = s /\ \A x \in t : c[x] \in Int /\ share[x] \in Int
          BY <1>1, <1>7, <3>1, PathSets
      <4> HIDE DEF t
      <4>2. SumOver(c, t) = c[m] + SumOver(c, s) /\ SumOver(share, t) = share[m] + SumOver(share, s)
          BY <4>1, SumTakes
      <4>3. c[m] \in Int /\ share[m] \in Int
          BY <1>1
      <4>4. more = SumOver(c, t) + SumOver(share, t)
          BY DEF t
      <4> HIDE DEF more
      <4> QED
          BY <1>3, <2>1, <4>2, <4>3, <4>4
    <3>9. more \in Int /\ rest \in Int /\ top \in Int /\ SumOver(d, s) \in Int
      <4>1. SumOver(c, s \cup {m}) \in Int /\ SumOver(share, s \cup {m}) \in Int /\ rest \in Int
        <5> HIDE DEF a
        <5> QED
            BY <1>1, <3>1, PathSums
      <4> QED
          BY <1>3, <2>1, <4>1
    <3> HIDE DEF more, rest, top, a, k
    <3>10. k \in Nat
        BY <1>4 DEF k
    <3>11. 2 * SumOver(d, s) <= Unit * Room(NPaths, k)
        BY <1>1, <1>4, <3>2, <3>4, <3>5, <3>6, <3>7, <3>8, <3>9, <3>10, AheadStays
    <3> QED
        BY <3>11 DEF k
  <2> QED
      BY <2>2, <2>3
<1> QED
    BY <1>6, <1>7

\* Nor further behind: if the leg that is charged is one of them, the legs left out
\* are not ahead of it, and the sets without it and with those legs bound this one.
LEMMA SprayKeepsBehind ==
    ASSUME NEW legs \in SUBSET Paths, NEW share, Shared(share, legs),
           NEW c, NEW d, NEW m, Sprayed(c, share, legs, m, d), Spread(c), NEW s \in SUBSET Paths
    PROVE  - (Unit * Room(NPaths, Cardinality(s))) <= 2 * SumOver(d, s)
<1>1. /\ c \in [Paths -> Int] /\ share \in [Paths -> Int] /\ m \in Paths /\ m \in legs
      /\ Unit \in Nat
    BY UnitAssumption DEF Shared, Sprayed
<1>2. - (Unit * Room(NPaths, Cardinality(s))) <= 2 * SumOver(c, s)
    BY DEF Spread
<1>3. SumOver(c, s) \in Int /\ SumOver(share, s) \in 0 .. Unit /\ c[m] \in Int /\ share[m] \in Int
    BY <1>1, PathSums, SharesAdd
<1>4. IsFiniteSet(s) /\ Cardinality(s) \in 0 .. NPaths /\ NPaths \in Nat
    BY PathSets
<1>5. Unit * Room(NPaths, Cardinality(s)) \in Int
    BY <1>1, <1>4 DEF Room
<1>6. CASE m \notin s
  <2>1. SumOver(d, s) = SumOver(c, s) + SumOver(share, s)
      BY <1>6, SpraySums
  <2> QED
      BY <1>2, <1>3, <1>5, <2>1
<1>7. CASE m \in s
  <2> DEFINE b == legs \ s
  <2>1. SumOver(d, s) = SumOver(c, s) + SumOver(share, s) - Unit
      BY <1>7, SpraySums
  <2>2. SumOver(share, s) = Unit - SumOver(share, b)
      BY SharesAdd
  <2>3. b \in SUBSET legs /\ b \in SUBSET Paths /\ s \cup b \in SUBSET Paths /\ s \ {m} \in SUBSET Paths
        /\ b \cup {m} \in SUBSET Paths /\ m \notin b
      BY <1>1, <1>7
  <2>4. SumOver(share, b) \in 0 .. Unit /\ SumOver(c, b) \in Int
      BY <1>1, <2>3, PathSums, SharesAdd
  <2>5. SumOver(d, s) = SumOver(c, s) - SumOver(share, b)
      BY <1>1, <1>3, <2>1, <2>2, <2>4
  <2>6. CASE b = {}
    <3>1. SumOver(share, b) = 0
        BY <2>6, SumOfNone
    <3> QED
        BY <1>2, <1>3, <2>5, <3>1
  <2>7. CASE b # {}
    <3> DEFINE more == SumOver(c, s \cup b)
               less == SumOver(c, s \ {m})
               top == c[m] + share[m]
               paid == share[m] + SumOver(share, b)
               k == Cardinality(s)
    <3>1. IsFiniteSet(b) /\ Cardinality(b) \in Nat /\ Cardinality(b) >= 1
      <4>1. IsFiniteSet(b) /\ Cardinality(b) \in Nat
        <5> HIDE DEF b
        <5> QED
            BY <2>3, PathSets
      <4>2. Cardinality(b) # 0
          BY <2>7, <4>1, FS_EmptySet
      <4> QED
          BY <4>1, <4>2
    <3>2. Cardinality(s \ {m}) = k - 1 /\ k >= 1 /\ k \in Nat
      <4>1. Cardinality(s \ {m}) = k - 1
          BY <1>4, <1>7, FS_RemoveElement
      <4>2. Cardinality(s \ {m}) \in Nat
          BY <2>3, PathSets
      <4> QED
          BY <1>4, <4>1, <4>2
    <3>3. Cardinality(s \cup b) = k + Cardinality(b) /\ k + Cardinality(b) <= NPaths
      <4>1. s \cap b = {} /\ Cardinality(s \cap b) = 0
          BY FS_EmptySet
      <4> HIDE DEF b
      <4>2. Cardinality(s \cup b) = k + Cardinality(b) - Cardinality(s \cap b)
          BY <1>4, <3>1, FS_Union
      <4>3. Cardinality(s \cup b) <= NPaths
          BY <2>3, PathSets
      <4> HIDE DEF k
      <4> QED
          BY <3>1, <3>2, <4>1, <4>2, <4>3
    <3>4. - (Unit * Room(NPaths, k - 1)) <= 2 * less /\ - (Unit * Room(NPaths, k + Cardinality(b))) <= 2 * more
        BY <2>3, <3>2, <3>3 DEF Spread
    <3>5. paid <= Unit
      <4> DEFINE t == b \cup {m}
      <4>1. SumOver(share, t) \in 0 .. Unit
          BY <2>3, SharesAdd
      <4>2. m \in t /\ t \ {m} = b /\ IsFiniteSet(t) /\ \A x \in t : share[x] \in Int
          BY <1>1, <2>3, PathSets
      <4> HIDE DEF t, b
      <4>3. SumOver(share, t) = share[m] + SumOver(share, b)
          BY <4>2, SumTakes
      <4> QED
          BY <1>1, <4>1, <4>3
    <3>6. SumOver(c, s) = c[m] + less
      <4>1. \A x \in s : c[x] \in Int
          BY <1>1
      <4> QED
          BY <1>4, <1>7, <4>1, SumTakes
    <3>7. less \in Int /\ more \in Int
      <4> HIDE DEF b
      <4> QED
          BY <1>1, <2>3, PathSums
    <3>8. SumOver(d, s) = less + top - paid
      <4> HIDE DEF less, b
      <4> QED
          BY <1>3, <2>4, <2>5, <3>6, <3>7
    <3>9. more <= SumOver(d, s) + Cardinality(b) * top
      <4>1. SumOver(c, b) + SumOver(share, b) <= Cardinality(b) * top
          BY <2>3, CreditedBounded
      <4>2. more = SumOver(c, s) + SumOver(c, b)
        <5> DEFINE t == s \cup b
        <5>1. s \in SUBSET t /\ t \ s = b /\ IsFiniteSet(t) /\ \A x \in t : c[x] \in Int
            BY <1>1, <2>3, PathSets
        <5>2. SumOver(c, t) = SumOver(c, s) + SumOver(c, t \ s)
          <6> HIDE DEF t
          <6> QED
              BY <5>1, SumSplits
        <5> HIDE DEF b
        <5> QED
            BY <5>1, <5>2
      <4>3. Cardinality(b) * top \in Int
          BY <1>3, <3>1
      <4> HIDE DEF more, b
      <4> QED
          BY <1>3, <2>4, <2>5, <4>1, <4>2, <4>3
    <3>10. SumOver(d, s) \in Int /\ top \in Int /\ paid \in Int
      <4> HIDE DEF b
      <4> QED
          BY <1>1, <1>3, <2>4, <2>5
    <3> HIDE DEF more, less, top, paid, b, k
    <3>11. - (Unit * Room(NPaths, k)) <= 2 * SumOver(d, s)
        BY <1>1, <1>4, <3>1, <3>2, <3>3, <3>4, <3>5, <3>7, <3>8, <3>9, <3>10, BehindStays
    <3> QED
        BY <3>11 DEF k
  <2> QED
      BY <2>6, <2>7
<1> QED
    BY <1>6, <1>7

\* A spray keeps the credits within their rooms.
LEMMA SprayKeepsSpread ==
    ASSUME NEW legs \in SUBSET Paths, NEW share, Shared(share, legs),
           NEW c, NEW d, NEW m, Sprayed(c, share, legs, m, d), Spread(c)
    PROVE  Spread(d)
BY SprayKeepsAhead, SprayKeepsBehind DEF Spread

\* So does putting one credit back to nothing.
LEMMA ResetKeepsSpread ==
    ASSUME NEW c \in [Paths -> Int], Spread(c), NEW p \in Paths
    PROVE  Spread([c EXCEPT ![p] = 0])
<1> DEFINE d == [c EXCEPT ![p] = 0]
<1>1. d \in [Paths -> Int] /\ d[p] = 0 /\ \A q \in Paths \ {p} : d[q] = c[q]
    OBVIOUS
<1> HIDE DEF d
<1>2. ASSUME NEW s \in SUBSET Paths
      PROVE  /\ 2 * SumOver(d, s) <= Unit * Room(NPaths, Cardinality(s))
             /\ - (Unit * Room(NPaths, Cardinality(s))) <= 2 * SumOver(d, s)
  <2>1. ASSUME NEW t \in SUBSET Paths, p \notin t PROVE SumOver(d, t) = SumOver(c, t)
    <3>1. IsFiniteSet(t) /\ \A x \in t : c[x] \in Int /\ d[x] = c[x]
        BY <1>1, <2>1, PathSets
    <3> QED
        BY <3>1, SumSame
  <2>2. CASE p \notin s
      BY <2>1, <2>2 DEF Spread
  <2>3. CASE p \in s
    <3> DEFINE t == s \ {p}
    <3>1. IsFiniteSet(s) /\ \A x \in s : d[x] \in Int
        BY <1>1, PathSets
    <3>2. SumOver(d, s) = d[p] + SumOver(d, t)
        BY <2>3, <3>1, SumTakes
    <3>3. t \in SUBSET Paths /\ SumOver(d, t) = SumOver(c, t) /\ SumOver(c, t) \in Int
      <4>1. t \in SUBSET Paths /\ p \notin t
          OBVIOUS
      <4> HIDE DEF t
      <4> QED
          BY <2>1, <4>1, PathSums
    <3>4. Cardinality(t) = Cardinality(s) - 1
        BY <2>3, <3>1, FS_RemoveElement
    <3>5. Cardinality(s) \in 1 .. NPaths /\ NPaths \in Nat
      <4>1. Cardinality(t) \in Nat /\ Cardinality(s) \in 0 .. NPaths /\ NPaths \in Nat
          BY <3>3, PathSets
      <4> HIDE DEF t
      <4> QED
          BY <3>4, <4>1
    <3>6. Unit * Room(NPaths, Cardinality(s) - 1) <= Unit * Room(NPaths, Cardinality(s))
      <4>1. /\ Room(NPaths, Cardinality(s) - 1) <= Room(NPaths, Cardinality(s))
            /\ Room(NPaths, Cardinality(s) - 1) \in Int /\ Room(NPaths, Cardinality(s)) \in Int
          BY <3>5, RoomGrows DEF Room
      <4> QED
          BY <4>1, UnitAssumption, Multiplies
    <3>7. /\ 2 * SumOver(c, t) <= Unit * Room(NPaths, Cardinality(s) - 1)
          /\ - (Unit * Room(NPaths, Cardinality(s) - 1)) <= 2 * SumOver(c, t)
        BY <3>3, <3>4 DEF Spread
    <3>8. Unit * Room(NPaths, Cardinality(s) - 1) \in Int /\ Unit * Room(NPaths, Cardinality(s)) \in Int
        BY <3>5, UnitAssumption DEF Room
    <3> HIDE DEF t
    <3> QED
        BY <1>1, <3>2, <3>3, <3>6, <3>7, <3>8
  <2> QED
      BY <2>2, <2>3
<1>3. Spread(d)
    BY <1>2 DEF Spread
<1> QED
    BY <1>3 DEF d

\* One path is never further off than a packet for each of the others.
LEMMA CreditBand ==
    ASSUME NEW c \in [Paths -> Int], Spread(c)
    PROVE  \A p \in Paths : /\ c[p] <= Unit * (NPaths - 1)
                            /\ - (Unit * (NPaths - 1)) <= c[p]
<1>1. ASSUME NEW p \in Paths
      PROVE  c[p] <= Unit * (NPaths - 1) /\ - (Unit * (NPaths - 1)) <= c[p]
  <2>1. {p} \in SUBSET Paths /\ IsFiniteSet({p}) /\ Cardinality({p}) = 1 /\ {p} # {} /\ {p} \ {p} = {}
      BY FS_Singleton
  <2>2. SumOver(c, {p}) = c[p] + SumOver(c, {p} \ {p})
      BY <2>1, SumTakes
  <2>3. SumOver(c, {p}) = c[p]
      BY <2>1, <2>2, SumOfNone
  <2>4. 2 * c[p] <= Unit * Room(NPaths, 1) /\ - (Unit * Room(NPaths, 1)) <= 2 * c[p]
      BY <2>1, <2>3 DEF Spread
  <2>5. NPaths \in Nat /\ Unit \in Nat /\ Unit * (NPaths - 1) \in Int
      BY <2>1, PathSets, UnitAssumption
  <2>6. Unit * Room(NPaths, 1) = 2 * (Unit * (NPaths - 1))
      BY <2>5 DEF Room
  <2> QED
      BY <2>4, <2>5, <2>6
<1> QED
    BY <1>1

\* The room of one path is less than a packet for each.
LEMMA SpreadBounds ==
    ASSUME NEW c \in [Paths -> Int], Spread(c)
    PROVE  \A p \in Paths : c[p] \in -Unit * Cardinality(Paths) .. Unit * Cardinality(Paths)
<1>1. ASSUME NEW p \in Paths PROVE c[p] \in -Unit * Cardinality(Paths) .. Unit * Cardinality(Paths)
  <2>1. c[p] <= Unit * (NPaths - 1) /\ - (Unit * (NPaths - 1)) <= c[p]
      BY CreditBand
  <2>2. NPaths \in Nat /\ Unit \in Nat /\ Unit * NPaths \in Int
      BY PathSets, UnitAssumption
  <2>3. Unit * (NPaths - 1) = Unit * NPaths - Unit /\ -Unit * NPaths = - (Unit * NPaths)
      BY <2>2
  <2> QED
      BY <2>1, <2>2, <2>3 DEF NPaths
<1> QED
    BY <1>1

-----------------------------------------------------------------------------

-----------------------------------------------------------------------------
(* The legs. *)

\* The extremes of two numbers.
LEMMA LeastOfTwo ==
    ASSUME NEW a \in Int, NEW b \in Int
    PROVE  /\ Min({a, b}) \in {a, b} /\ Min({a, b}) <= a /\ Min({a, b}) <= b
           /\ Max({a, b}) \in {a, b} /\ Max({a, b}) >= a /\ Max({a, b}) >= b
<1>1. \E x \in {a, b} : \A y \in {a, b} : x <= y
    OBVIOUS
<1>2. \E x \in {a, b} : \A y \in {a, b} : x >= y
    OBVIOUS
<1>3. Min({a, b}) \in {a, b} /\ \A y \in {a, b} : Min({a, b}) <= y
    BY <1>1 DEF Min
<1>4. Max({a, b}) \in {a, b} /\ \A y \in {a, b} : Max({a, b}) >= y
    BY <1>2 DEF Max
<1> QED
    BY <1>3, <1>4

\* A leg is added behind the others.
LEMMA OrderGrows ==
    ASSUME NEW s \in Seq(Paths), IsInjective(s), NEW p \in Paths, p \notin ToSet(s)
    PROVE  /\ Append(s, p) \in Seq(Paths) /\ IsInjective(Append(s, p))
           /\ ToSet(Append(s, p)) = ToSet(s) \cup {p}
<1> DEFINE r == Append(s, p)
<1>1. /\ r \in Seq(Paths) /\ Len(r) = Len(s) + 1 /\ Len(s) \in Nat
      /\ DOMAIN r = 1 .. Len(s) + 1 /\ DOMAIN s = 1 .. Len(s)
      /\ r[Len(s) + 1] = p /\ \A i \in 1 .. Len(s) : r[i] = s[i]
    OBVIOUS
<1> HIDE DEF r
<1>2. \A i \in 1 .. Len(s) : s[i] # p
    BY <1>1 DEF ToSet
<1>3. ASSUME NEW i \in DOMAIN r, NEW j \in DOMAIN r, r[i] = r[j] PROVE i = j
  <2>1. i \in 1 .. Len(s) \/ i = Len(s) + 1
      BY <1>1
  <2>2. j \in 1 .. Len(s) \/ j = Len(s) + 1
      BY <1>1
  <2>3. CASE i \in 1 .. Len(s) /\ j \in 1 .. Len(s)
      BY <1>1, <1>3, <2>3 DEF IsInjective
  <2> QED
      BY <1>1, <1>2, <1>3, <2>1, <2>2, <2>3
<1>4. ToSet(r) = ToSet(s) \cup {p}
  <2>1. ASSUME NEW q \in ToSet(r) PROVE q \in ToSet(s) \cup {p}
    <3>1. PICK i \in DOMAIN r : q = r[i]
        BY DEF ToSet
    <3>2. i \in 1 .. Len(s) \/ i = Len(s) + 1
        BY <1>1
    <3> QED
        BY <1>1, <3>1, <3>2 DEF ToSet
  <2>2. ASSUME NEW q \in ToSet(s) PROVE q \in ToSet(r)
    <3>1. PICK i \in DOMAIN s : q = s[i]
        BY DEF ToSet
    <3>2. i \in DOMAIN r /\ r[i] = q
        BY <1>1, <3>1
    <3> QED
        BY <3>2 DEF ToSet
  <2>3. p \in ToSet(r)
    <3>1. Len(s) + 1 \in DOMAIN r
        BY <1>1
    <3> QED
        BY <1>1, <3>1 DEF ToSet
  <2> QED
      BY <2>1, <2>2, <2>3
<1>5. IsInjective(r)
    BY <1>3 DEF IsInjective
<1> QED
    BY <1>1, <1>4, <1>5 DEF r

\* A leg that goes leaves the others in their order.
LEMMA OrderShrinks ==
    ASSUME NEW s \in Seq(Paths), IsInjective(s), NEW i \in DOMAIN s
    PROVE  /\ RemoveAt(s, i) \in Seq(Paths) /\ IsInjective(RemoveAt(s, i))
           /\ ToSet(RemoveAt(s, i)) = ToSet(s) \ {s[i]}
<1> DEFINE r == RemoveAt(s, i)
           n == Len(s)
<1>1. n \in Nat /\ DOMAIN s = 1 .. n /\ i \in 1 .. n
    OBVIOUS
<1>2. /\ r \in Seq(Paths) /\ DOMAIN r = 1 .. n - 1
      /\ \A j \in 1 .. n - 1 : r[j] = IF j < i THEN s[j] ELSE s[j + 1]
  <2> DEFINE a == SubSeq(s, 1, i - 1)
             b == SubSeq(s, i + 1, n)
  <2>1. a \in Seq(Paths) /\ Len(a) = i - 1 /\ \A j \in 1 .. i - 1 : a[j] = s[j]
      BY <1>1
  <2>2. b \in Seq(Paths) /\ Len(b) = n - i /\ \A j \in 1 .. n - i : b[j] = s[i + j]
      BY <1>1
  <2>3. r = a \o b
      BY DEF RemoveAt
  <2> HIDE DEF a, b, n, r
  <2>4. r \in Seq(Paths) /\ DOMAIN r = 1 .. n - 1
    <3>1. r \in Seq(Paths) /\ Len(r) = Len(a) + Len(b)
        BY <2>1, <2>2, <2>3, ConcatProperties
    <3>2. Len(r) = n - 1
        BY <1>1, <2>1, <2>2, <3>1
    <3> QED
        BY <3>1, <3>2
  <2>5. ASSUME NEW j \in 1 .. n - 1 PROVE r[j] = IF j < i THEN s[j] ELSE s[j + 1]
    <3>1. CASE j < i
      <4>1. j \in 1 .. i - 1
          BY <1>1, <3>1
      <4>2. r[j] = a[j]
          BY <1>1, <2>1, <2>2, <2>3, <4>1
      <4> QED
          BY <2>1, <3>1, <4>1, <4>2
    <3>2. CASE ~ (j < i)
      <4>1. j - (i - 1) \in 1 .. n - i /\ i + (j - (i - 1)) = j + 1
          BY <1>1, <3>2
      <4>2. r[j] = b[j - (i - 1)]
        <5>1. j \in 1 .. Len(a) + Len(b) /\ ~ (j <= Len(a)) /\ Len(a) = i - 1
            BY <1>1, <2>1, <2>2, <3>2
        <5>2. (a \o b)[j] = b[j - Len(a)]
            BY <2>1, <2>2, <5>1, ConcatProperties
        <5> QED
            BY <2>3, <5>1, <5>2
      <4> QED
          BY <2>2, <3>2, <4>1, <4>2
    <3> QED
        BY <3>1, <3>2
  <2> QED
      BY <2>4, <2>5
<1> HIDE DEF r, n
<1>3. \A j, k \in 1 .. n : s[j] = s[k] => j = k
    BY <1>1 DEF IsInjective
<1>4. ASSUME NEW j \in 1 .. n - 1, NEW k \in 1 .. n - 1, r[j] = r[k] PROVE j = k
  <2>1. j \in 1 .. n /\ j + 1 \in 1 .. n /\ k \in 1 .. n /\ k + 1 \in 1 .. n
      BY <1>1
  <2>2. CASE j < i /\ k < i
      BY <1>2, <1>3, <1>4, <2>1, <2>2
  <2>3. CASE j < i /\ ~ (k < i)
    <3>1. s[j] = s[k + 1]
        BY <1>2, <1>4, <2>3
    <3>2. j = k + 1
        BY <1>3, <2>1, <3>1
    <3> QED
        BY <1>1, <2>3, <3>2
  <2>4. CASE ~ (j < i) /\ k < i
    <3>1. s[j + 1] = s[k]
        BY <1>2, <1>4, <2>4
    <3>2. j + 1 = k
        BY <1>3, <2>1, <3>1
    <3> QED
        BY <1>1, <2>4, <3>2
  <2>5. CASE ~ (j < i) /\ ~ (k < i)
    <3>1. s[j + 1] = s[k + 1]
        BY <1>2, <1>4, <2>5
    <3>2. j + 1 = k + 1
        BY <1>3, <2>1, <3>1
    <3> QED
        BY <3>2
  <2> QED
      BY <2>2, <2>3, <2>4, <2>5
<1>5. IsInjective(r)
    BY <1>2, <1>4 DEF IsInjective
<1>6. ToSet(r) = ToSet(s) \ {s[i]}
  <2>1. ASSUME NEW q \in ToSet(r) PROVE q \in ToSet(s) \ {s[i]}
    <3>1. PICK j \in 1 .. n - 1 : q = r[j]
        BY <1>2 DEF ToSet
    <3>2. CASE j < i
      <4>1. q = s[j] /\ j \in 1 .. n /\ j # i
          BY <1>1, <1>2, <3>1, <3>2
      <4> QED
          BY <1>1, <1>3, <4>1 DEF ToSet
    <3>3. CASE ~ (j < i)
      <4>1. q = s[j + 1] /\ j + 1 \in 1 .. n /\ j + 1 # i
          BY <1>1, <1>2, <3>1, <3>3
      <4> QED
          BY <1>1, <1>3, <4>1 DEF ToSet
    <3> QED
        BY <3>2, <3>3
  <2>2. ASSUME NEW q \in ToSet(s) \ {s[i]} PROVE q \in ToSet(r)
    <3>1. PICK j \in 1 .. n : q = s[j]
        BY <1>1 DEF ToSet
    <3>2. j # i
        BY <3>1
    <3>3. CASE j < i
      <4>1. j \in 1 .. n - 1 /\ r[j] = q
          BY <1>1, <1>2, <3>1, <3>3
      <4> QED
          BY <1>2, <4>1 DEF ToSet
    <3>4. CASE i < j
      <4>1. j - 1 \in 1 .. n - 1 /\ ~ (j - 1 < i) /\ (j - 1) + 1 = j
          BY <1>1, <3>4
      <4>2. r[j - 1] = q
          BY <1>2, <3>1, <4>1
      <4> QED
          BY <1>2, <4>1, <4>2 DEF ToSet
    <3> QED
        BY <1>1, <3>2, <3>3, <3>4
  <2> QED
      BY <2>1, <2>2
<1> QED
    BY <1>2, <1>5, <1>6 DEF r

Placed == order \in Seq(Paths) /\ IsInjective(order)

\* Places order the legs.
LEMMA BeforeOrders ==
    ASSUME Placed
    PROVE  /\ Registered \in SUBSET Paths
           /\ \A p \in Registered : ~ Before(p, p)
           /\ \A p, q, r \in Registered : Before(p, q) /\ Before(q, r) => Before(p, r)
           /\ \A p, q \in Registered : p # q => Before(p, q) \/ Before(q, p)
<1>1. DOMAIN order = 1 .. Len(order) /\ Len(order) \in Nat /\ \A i \in DOMAIN order : order[i] \in Paths
    BY DEF Placed
<1>2. \A i, j \in DOMAIN order : order[i] = order[j] => i = j
    BY DEF Placed, IsInjective
<1>3. Registered \in SUBSET Paths
    BY <1>1 DEF Registered, ToSet
<1>4. ASSUME NEW p \in Registered PROVE ~ Before(p, p)
    BY <1>1, <1>2 DEF Before
<1>5. ASSUME NEW p \in Registered, NEW q \in Registered, NEW r \in Registered,
             Before(p, q), Before(q, r)
      PROVE  Before(p, r)
  <2>1. PICK i, j \in DOMAIN order : i < j /\ order[i] = p /\ order[j] = q
      BY <1>5 DEF Before
  <2>2. PICK k, l \in DOMAIN order : k < l /\ order[k] = q /\ order[l] = r
      BY <1>5 DEF Before
  <2>3. j = k
      BY <1>2, <2>1, <2>2
  <2>4. i < l
      BY <1>1, <2>1, <2>2, <2>3
  <2> QED
      BY <2>1, <2>2, <2>4 DEF Before
<1>6. ASSUME NEW p \in Registered, NEW q \in Registered, p # q
      PROVE  Before(p, q) \/ Before(q, p)
  <2>1. PICK i \in DOMAIN order : order[i] = p
      BY DEF Registered, ToSet
  <2>2. PICK j \in DOMAIN order : order[j] = q
      BY DEF Registered, ToSet
  <2>3. i < j \/ j < i
      BY <1>1, <1>6, <2>1, <2>2
  <2> QED
      BY <2>1, <2>2, <2>3 DEF Before
<1> QED
    BY <1>3, <1>4, <1>5, <1>6

\* The order of merit: more first, and of equals the one added first.
MeritOrder(legs, score) ==
    {pq \in legs \X legs : score[pq[1]] > score[pq[2]]
                          \/ (score[pq[1]] = score[pq[2]] /\ Before(pq[1], pq[2]))}

\* Merit, and place among equals, orders the legs strictly and totally.
LEMMA MeritOrders ==
    ASSUME Placed, NEW legs \in SUBSET Registered, NEW score \in [Paths -> Int]
    PROVE  Orders(MeritOrder(legs, score), legs)
<1> DEFINE o == MeritOrder(legs, score)
<1>1. \A p, q \in legs : <<p, q>> \in o
          <=> score[p] > score[q] \/ (score[p] = score[q] /\ Before(p, q))
    BY DEF MeritOrder
<1>2. \A p \in legs : score[p] \in Int /\ p \in Registered
    BY BeforeOrders
<1> HIDE DEF o
<1>3. ASSUME NEW p \in legs PROVE <<p, p>> \notin o
    BY <1>1, <1>2, BeforeOrders
<1>4. ASSUME NEW p \in legs, NEW q \in legs, NEW r \in legs, <<p, q>> \in o, <<q, r>> \in o
      PROVE  <<p, r>> \in o
  <2>1. score[p] \in Int /\ score[q] \in Int /\ score[r] \in Int
      BY <1>2
  <2>2. score[p] > score[q] \/ (score[p] = score[q] /\ Before(p, q))
      BY <1>1, <1>4
  <2>3. score[q] > score[r] \/ (score[q] = score[r] /\ Before(q, r))
      BY <1>1, <1>4
  <2>4. Before(p, q) /\ Before(q, r) => Before(p, r)
      BY <1>2, BeforeOrders
  <2>5. score[p] > score[r] \/ (score[p] = score[r] /\ Before(p, r))
      BY <2>1, <2>2, <2>3, <2>4
  <2> QED
      BY <1>1, <2>5
<1>5. ASSUME NEW p \in legs, NEW q \in legs, p # q PROVE <<p, q>> \in o \/ <<q, p>> \in o
  <2>1. score[p] > score[q] \/ score[q] > score[p] \/ score[p] = score[q]
      BY <1>2
  <2>2. Before(p, q) \/ Before(q, p)
      BY <1>2, <1>5, BeforeOrders
  <2> QED
      BY <1>1, <2>1, <2>2
<1>6. Orders(o, legs)
    BY <1>3, <1>4, <1>5 DEF Orders
<1> QED
    BY <1>6 DEF o

\* max finds a leg that no other one exceeds.
LEMMA FirstBestIsBest ==
    ASSUME Placed, NEW legs \in SUBSET Registered, legs # {}, NEW score \in [Paths -> Int]
    PROVE  /\ FirstBest(legs, score) \in legs
           /\ \A q \in legs : score[q] <= score[FirstBest(legs, score)]
<1>1. Registered \in SUBSET Paths /\ IsFiniteSet(legs)
  <2>1. Registered \in SUBSET Paths
      BY BeforeOrders
  <2>2. legs \in SUBSET Paths
      BY <2>1
  <2> QED
      BY <2>1, <2>2, PathSets
<1>2. Orders(MeritOrder(legs, score), legs)
    BY MeritOrders
<1>3. PICK x \in legs : \A y \in legs \ {x} : <<x, y>> \in MeritOrder(legs, score)
    BY <1>1, <1>2, FirstExists
<1>4. \A p \in legs : score[p] \in Int
    BY <1>1
<1>5. \A q \in legs \ {x} : score[q] < score[x] \/ (score[q] = score[x] /\ Before(x, q))
  <2>1. ASSUME NEW q \in legs \ {x}
        PROVE  score[q] < score[x] \/ (score[q] = score[x] /\ Before(x, q))
    <3>1. score[x] > score[q] \/ (score[x] = score[q] /\ Before(x, q))
        BY <1>3 DEF MeritOrder
    <3> QED
        BY <1>4, <3>1
  <2> QED
      BY <2>1
<1>6. PICK p \in legs : p = FirstBest(legs, score)
                       /\ \A q \in legs \ {p} : score[q] < score[p] \/ (score[q] = score[p] /\ Before(p, q))
    BY <1>5 DEF FirstBest
<1>7. \A q \in legs : score[q] <= score[p]
  <2>1. ASSUME NEW q \in legs PROVE score[q] <= score[p]
    <3>1. CASE q = p
        BY <1>4, <3>1
    <3>2. CASE q # p
        BY <1>4, <1>6, <3>2
    <3> QED
        BY <3>1, <3>2
  <2> QED
      BY <2>1
<1> QED
    BY <1>6, <1>7

\* Only registered legs carry.
LEMMA CarryingLegs ==
    ASSUME Placed
    PROVE  Carrying \in SUBSET Registered /\ Carrying \in SUBSET Paths
<1>1. Carrying \in SUBSET Registered
    BY DEF Carrying
<1> QED
    BY <1>1, BeforeOrders

\* Who carries depends on the legs, their health, and which of them have a share.
LEMMA CarryingStays ==
    ASSUME order' = order, healthy' = healthy,
           \A p \in Registered : (weight'[p] > 0) <=> (weight[p] > 0)
    PROVE  Carrying' = Carrying
BY DEF Carrying, Registered, Weighted

-----------------------------------------------------------------------------
(* Types. *)

\* Every leg has one of the shares that may be given.
SharesGiven == \A p \in Registered : weight[p] \in deployment.weights

BaseInv == TypeOK /\ SharesGiven

\* What is known of a deployment.
LEMMA DeploymentIs ==
    ASSUME deployment \in Deployments
    PROVE  deployment.weights \in SUBSET Nat /\ deployment.spray \in BOOLEAN /\ deployment.adaptive \in BOOLEAN
BY DeploymentsAssumption

\* The types hold at the start.
LEMMA BaseInitInv ==
    ASSUME Init PROVE BaseInv
<1>1. order = << >> /\ order \in Seq(Paths) /\ IsInjective(order) /\ Registered = {}
    BY DEF Init, IsInjective, Registered, ToSet
<1>2. TypeOK
  <2>1. weight \in [Paths -> Nat] /\ credit \in [Paths -> Int] /\ healthy \in [Paths -> BOOLEAN]
      BY DEF Init, Zero
  <2>2. lossy \in [Paths -> -Sustained .. Sustained] /\ 0 \in 0 .. Sustained - 1 /\ waited \in [Paths -> Nat]
      BY SustainedAssumption DEF Init, Zero
  <2>3. loss \in [Paths -> Losses \cup {"unknown"}]
      BY DEF Init
  <2>4. deployment \in Deployments /\ wide \in BOOLEAN /\ members \subseteq Paths /\ high = 0 /\ low = 0
      BY DEF Init
  <2> QED
      BY <1>1, <2>1, <2>2, <2>3, <2>4 DEF TypeOK
<1>3. SharesGiven
    BY <1>1 DEF SharesGiven
<1> QED
    BY <1>2, <1>3 DEF BaseInv

\* The divisor of a share is positive.
LEMMA SumOfWeights ==
    ASSUME TypeOK, NEW legs \in SUBSET Paths
    PROVE  SumWeights(legs) = SumOver(weight, legs) /\ SumWeights(legs) \in Nat /\ Total(legs) \in Nat \ {0}
<1>1. SumWeights(legs) = SumOver(weight, legs)
    BY DEF SumWeights, SumOver
<1>2. IsFiniteSet(legs) /\ \A p \in legs : weight[p] \in Nat
    BY PathSets DEF TypeOK
<1>3. SumOver(weight, legs) \in Nat
    BY <1>2, SumIsNat
<1> QED
    BY <1>1, <1>3 DEF Total

\* What a leg is credited with.
ShareOf(legs) == [p \in Paths |-> IF p \in legs THEN (Unit * weight[p]) \div Total(legs) ELSE 0]

\* Credits before the charge: each carrying leg gets its share.
LEMMA CreditedIs ==
    ASSUME TypeOK, NEW legs \in SUBSET Paths
    PROVE  /\ ShareOf(legs) \in [Paths -> Nat] /\ Credited(legs) \in [Paths -> Int]
           /\ \A p \in Paths : Credited(legs)[p] = credit[p] + ShareOf(legs)[p]
           /\ \A p \in Paths \ legs : ShareOf(legs)[p] = 0
<1>1. Total(legs) \in Nat \ {0}
    BY SumOfWeights
<1>2. ASSUME NEW p \in Paths
      PROVE  /\ (Unit * weight[p]) \div Total(legs) \in Nat
             /\ credit[p] \in Int
  <2>1. weight[p] \in Nat /\ credit[p] \in Int /\ Unit \in Nat
      BY UnitAssumption DEF TypeOK
  <2>2. Unit * weight[p] \in Nat
    <3>1. \A x, y \in Nat : x * y \in Nat
        OBVIOUS
    <3> QED
        BY <2>1, <3>1
  <2>3. \A x \in Nat, y \in Nat \ {0} : x \div y \in Nat
      OBVIOUS
  <2> QED
      BY <1>1, <2>1, <2>2, <2>3
<1>3. ASSUME NEW p \in Paths
      PROVE  /\ ShareOf(legs)[p] \in Nat /\ Credited(legs)[p] \in Int
             /\ Credited(legs)[p] = credit[p] + ShareOf(legs)[p]
             /\ p \notin legs => ShareOf(legs)[p] = 0
  <2>1. CASE p \in legs
      BY <1>2, <2>1 DEF ShareOf, Credited
  <2>2. CASE p \notin legs
      BY <1>2, <2>2 DEF ShareOf, Credited
  <2> QED
      BY <2>1, <2>2
<1>4. DOMAIN ShareOf(legs) = Paths /\ DOMAIN Credited(legs) = Paths
      /\ ShareOf(legs) = [p \in Paths |-> ShareOf(legs)[p]]
      /\ Credited(legs) = [p \in Paths |-> Credited(legs)[p]]
    BY DEF ShareOf, Credited
<1>5. ShareOf(legs) \in [Paths -> Nat] /\ Credited(legs) \in [Paths -> Int]
    BY <1>3, <1>4, Zenon
<1> QED
    BY <1>3, <1>5

\* SendSpray is a spray of those shares.
LEMMA SprayTypes ==
    ASSUME TypeOK, SendSpray
    PROVE  \E m \in Carrying :
              /\ m = FirstBest(Carrying, Credited(Carrying))
              /\ Sprayed(credit, ShareOf(Carrying), Carrying, m, credit')
<1>1. Placed
    BY DEF TypeOK, Placed
<1>2. Carrying \in SUBSET Registered /\ Carrying \in SUBSET Paths /\ Carrying # {}
    BY <1>1, CarryingLegs DEF SendSpray
<1>3. /\ Credited(Carrying) \in [Paths -> Int]
      /\ \A p \in Paths : Credited(Carrying)[p] = credit[p] + ShareOf(Carrying)[p]
    BY <1>2, CreditedIs
<1>4. PICK m \in Carrying : m = FirstBest(Carrying, Credited(Carrying))
    BY <1>1, <1>2, <1>3, FirstBestIsBest
<1>5. \A q \in Carrying : Credited(Carrying)[q] <= Credited(Carrying)[m]
    BY <1>1, <1>2, <1>3, <1>4, FirstBestIsBest
<1>6. credit' = [Credited(Carrying) EXCEPT ![m] = Credited(Carrying)[m] - Unit]
    BY <1>4 DEF SendSpray, Charge
<1>7. m \in Paths /\ Unit \in Nat
    BY <1>2, UnitAssumption
<1>8. ASSUME NEW p \in Paths
      PROVE  credit'[p] = credit[p] + ShareOf(Carrying)[p] - IF p = m THEN Unit ELSE 0
  <2>1. Credited(Carrying)[p] \in Int /\ Credited(Carrying)[p] = credit[p] + ShareOf(Carrying)[p]
      BY <1>3
  <2>2. credit'[p] = IF p = m THEN Credited(Carrying)[p] - Unit ELSE Credited(Carrying)[p]
      BY <1>3, <1>6
  <2>3. credit'[p] = Credited(Carrying)[p] - IF p = m THEN Unit ELSE 0
      BY <1>7, <2>1, <2>2
  <2>4. PICK n \in Int : Credited(Carrying)[p] = n
      BY <2>1
  <2>5. credit[p] + ShareOf(Carrying)[p] = n /\ credit'[p] = n - IF p = m THEN Unit ELSE 0
      BY <2>1, <2>3, <2>4
  <2>6. credit[p] \in Int /\ ShareOf(Carrying)[p] \in Int /\ Unit \in Int
    <3>1. ShareOf(Carrying) \in [Paths -> Nat]
        BY <1>2, CreditedIs
    <3>2. credit \in [Paths -> Int]
        BY DEF TypeOK
    <3> HIDE DEF Carrying
    <3> QED
        BY <1>7, <3>1, <3>2
  <2>7. CASE p = m
      BY <2>5, <2>6, <2>7
  <2>8. CASE p # m
      BY <2>5, <2>6, <2>8
  <2> QED
      BY <2>7, <2>8
<1>9. credit' \in [Paths -> Int]
    BY <1>3, <1>6, <1>7
<1>10. credit \in [Paths -> Int]
    BY DEF TypeOK
<1>11. \A q \in Carrying : credit[q] + ShareOf(Carrying)[q] <= credit[m] + ShareOf(Carrying)[m]
  <2>1. ASSUME NEW q \in Carrying PROVE credit[q] + ShareOf(Carrying)[q] <= credit[m] + ShareOf(Carrying)[m]
    <3>1. /\ Credited(Carrying)[q] = credit[q] + ShareOf(Carrying)[q]
          /\ Credited(Carrying)[m] = credit[m] + ShareOf(Carrying)[m]
        BY <1>2, <1>3, <1>7
    <3> QED
        BY <1>5, <3>1
  <2> QED
      BY <2>1
<1>12. Sprayed(credit, ShareOf(Carrying), Carrying, m, credit')
    BY <1>4, <1>8, <1>9, <1>10, <1>11 DEF Sprayed
<1> QED
    BY <1>4, <1>12

\* The same, with a name for the value.
LEMMA OutermostOfTwo ==
    ASSUME NEW x \in Int, NEW y \in Int
    PROVE  /\ \E m \in Int : m = Min({x, y}) /\ m <= x /\ m <= y /\ m \in {x, y}
           /\ \E m \in Int : m = Max({x, y}) /\ m >= x /\ m >= y /\ m \in {x, y}
BY LeastOfTwo

\* A sample counts one more reading of its kind, or starts to count.
LEMMA SampledIs ==
    ASSUME TypeOK, NEW legs, Sampled(legs)
    PROVE  /\ lossy' \in [Paths -> -Sustained .. Sustained]
           /\ \A p \in Paths : p \in legs /\ loss[p] = "high" =>
                 lossy'[p] >= 1 /\ (lossy'[p] = Sustained \/ lossy'[p] >= lossy[p] + 1)
           /\ \A p \in Paths : p \in legs /\ loss[p] = "low" =>
                 lossy'[p] >= -1 \/ lossy'[p] >= lossy[p] - 1
           /\ \A p \in Paths : loss[p] # "low" => lossy'[p] >= 0
<1>1. Sustained \in Nat /\ Sustained >= 1
    BY SustainedAssumption
<1>2. ASSUME NEW p \in Paths
      PROVE  /\ lossy'[p] \in -Sustained .. Sustained
             /\ p \in legs /\ loss[p] = "high" =>
                   lossy'[p] >= 1 /\ (lossy'[p] = Sustained \/ lossy'[p] >= lossy[p] + 1)
             /\ p \in legs /\ loss[p] = "low" => lossy'[p] >= -1 \/ lossy'[p] >= lossy[p] - 1
             /\ loss[p] # "low" => lossy'[p] >= 0
  <2>1. PICK n \in -Sustained .. Sustained : lossy[p] = n
      BY DEF TypeOK
  <2>0. n \in Int /\ Sustained \in Int /\ -Sustained \in Int
      BY <1>1, <2>1
  <2>2. PICK a \in Int : a = Max({n, 0}) /\ a >= n /\ a >= 0 /\ a \in {n, 0}
      BY <2>0, OutermostOfTwo
  <2>3. PICK b \in Int : b = Min({n, 0}) /\ b <= n /\ b <= 0 /\ b \in {n, 0}
      BY <2>0, OutermostOfTwo
  <2>4. PICK x \in Int : x = Min({a + 1, Sustained}) /\ x <= a + 1 /\ x <= Sustained /\ x \in {a + 1, Sustained}
    <3>1. a + 1 \in Int
        BY <2>2
    <3> QED
        BY <2>0, <3>1, OutermostOfTwo
  <2>5. PICK y \in Int : y = Max({b - 1, -Sustained}) /\ y >= b - 1 /\ y >= -Sustained /\ y \in {b - 1, -Sustained}
    <3>1. b - 1 \in Int
        BY <2>3
    <3> QED
        BY <2>0, <3>1, OutermostOfTwo
  <2>6. CASE p \in legs /\ loss[p] = "high"
    <3>1. lossy'[p] = x
        BY <2>1, <2>2, <2>4, <2>6 DEF Sampled
    <3> QED
        BY <1>1, <2>1, <2>2, <2>4, <2>6, <3>1
  <2>7. CASE p \in legs /\ loss[p] = "low"
    <3>1. lossy'[p] = y
        BY <2>1, <2>3, <2>5, <2>7 DEF Sampled
    <3> QED
        BY <1>1, <2>1, <2>3, <2>5, <2>7, <3>1
  <2>8. CASE ~ (p \in legs /\ loss[p] = "high") /\ ~ (p \in legs /\ loss[p] = "low")
    <3>1. lossy'[p] = 0
        BY <2>8 DEF Sampled
    <3> QED
        BY <1>1, <2>8, <3>1
  <2> QED
      BY <2>6, <2>7, <2>8
<1>3. lossy' = [p \in Paths |-> lossy'[p]]
    BY DEF Sampled
<1>4. lossy' \in [Paths -> -Sustained .. Sustained]
    BY <1>2, <1>3, Zenon
<1> QED
    BY <1>2, <1>4

\* A reset keeps the types.
LEMMA ResetTypes ==
    ASSUME TypeOK, NEW changed \in BOOLEAN, ResetDuplicateLossIf(changed), Forget(changed)
    PROVE  /\ wide' \in BOOLEAN /\ members' = members
           /\ high' \in 0 .. Sustained - 1 /\ low' \in 0 .. Sustained - 1
           /\ lossy' \in [Paths -> -Sustained .. Sustained] /\ waited' \in [Paths -> Nat]
<1>1. 0 \in 0 .. Sustained - 1 /\ Zero \in [Paths -> -Sustained .. Sustained] /\ Zero \in [Paths -> Nat]
    BY SustainedAssumption DEF Zero
<1> QED
    BY <1>1 DEF TypeOK, ResetDuplicateLossIf, Forget

\* Every step keeps the types.
LEMMA BaseStepInv ==
    ASSUME BaseInv, [Next]_vars PROVE BaseInv'
<1> USE DEF BaseInv
<1>0. Placed /\ Registered \in SUBSET Paths
  <2>1. Placed
      BY DEF TypeOK, Placed
  <2> QED
      BY <2>1, BeforeOrders
<1>1. 0 \in 0 .. Sustained - 1
    BY SustainedAssumption
<1>2. CASE SendSpray
  <2>1. PICK m \in Carrying : Sprayed(credit, ShareOf(Carrying), Carrying, m, credit')
      BY <1>2, SprayTypes
  <2>2. credit' \in [Paths -> Int]
      BY <2>1 DEF Sprayed
  <2>3. UNCHANGED <<deployment, order, weight, healthy, dupVars, loss, lossy>>
      BY <1>2 DEF SendSpray
  <2>6. waited' \in [Paths -> Nat]
    <3>1. PICK q \in Paths : waited' = [r \in Paths |-> IF r # q /\ r \in Carrying /\ weight[r] > 0
                                                      THEN waited[r] + 1 ELSE 0]
      <4>1. m \in Paths
          BY <1>0, CarryingLegs
      <4>2. FirstBest(Carrying, Credited(Carrying)) \in Paths
          BY <1>2, <4>1, SprayTypes, CarryingLegs, <1>0
      <4> QED
          BY <1>2, <4>2 DEF SendSpray
    <3> QED
        BY <3>1 DEF TypeOK
  <2>4. TypeOK'
      BY <2>2, <2>3, <2>6 DEF TypeOK, dupVars
  <2>5. SharesGiven'
      BY <2>3 DEF SharesGiven, Registered
  <2> QED
      BY <2>4, <2>5
<1>3. ASSUME NEW p \in Paths, RemovePath(p) PROVE BaseInv'
  <2>1. PICK i \in DOMAIN order : order[i] = p /\ order' = RemoveAt(order, i)
      BY <1>3 DEF RemovePath
  <2>2. order' \in Seq(Paths) /\ IsInjective(order') /\ Registered' = Registered \ {p}
      BY <1>0, <2>1, OrderShrinks DEF Placed, Registered
  <2>3. /\ wide' \in BOOLEAN /\ members' = members
        /\ high' \in 0 .. Sustained - 1 /\ low' \in 0 .. Sustained - 1
        /\ lossy' \in [Paths -> -Sustained .. Sustained] /\ waited' \in [Paths -> Nat]
      BY <1>3, ResetTypes DEF RemovePath
  <2>4. /\ weight' = [weight EXCEPT ![p] = 0] /\ healthy' = [healthy EXCEPT ![p] = TRUE]
        /\ credit' = [credit EXCEPT ![p] = 0] /\ deployment' = deployment /\ loss' = loss
      BY <1>3 DEF RemovePath
  <2>5. weight' \in [Paths -> Nat] /\ healthy' \in [Paths -> BOOLEAN] /\ credit' \in [Paths -> Int]
    <3>1. weight \in [Paths -> Nat] /\ healthy \in [Paths -> BOOLEAN] /\ credit \in [Paths -> Int]
        BY DEF TypeOK
    <3>2. weight' \in [Paths -> Nat]
        BY <2>4, <3>1
    <3>3. healthy' \in [Paths -> BOOLEAN]
        BY <2>4, <3>1
    <3>4. credit' \in [Paths -> Int]
        BY <2>4, <3>1
    <3> QED
        BY <3>2, <3>3, <3>4
  <2>6. TypeOK'
      BY <2>2, <2>3, <2>4, <2>5 DEF TypeOK
  <2>7. SharesGiven'
      BY <1>0, <2>2, <2>4 DEF SharesGiven, TypeOK
  <2> QED
      BY <2>6, <2>7
<1>4. ASSUME NEW p \in Paths, NEW w \in deployment.weights, AddPath(p, w) PROVE BaseInv'
  <2>1. order' \in Seq(Paths) /\ IsInjective(order') /\ Registered' = Registered \cup {p}
    <3>1. CASE p \in Registered
      <4>1. order' = order
          BY <1>4, <3>1 DEF AddPath, Joined
      <4> QED
          BY <1>0, <3>1, <4>1 DEF Placed, Registered
    <3>2. CASE p \notin Registered
      <4>1. order' = Append(order, p)
          BY <1>4, <3>2 DEF AddPath, Joined
      <4> QED
          BY <1>0, <3>2, <4>1, OrderGrows DEF Placed, Registered
    <3> QED
        BY <3>1, <3>2
  <2>2. /\ wide' \in BOOLEAN /\ members' = members
        /\ high' \in 0 .. Sustained - 1 /\ low' \in 0 .. Sustained - 1
        /\ lossy' \in [Paths -> -Sustained .. Sustained] /\ waited' \in [Paths -> Nat]
      BY <1>4, ResetTypes DEF AddPath
  <2>3. /\ weight' = [weight EXCEPT ![p] = w] /\ healthy' = [healthy EXCEPT ![p] = TRUE]
        /\ credit' \in {credit, [credit EXCEPT ![p] = 0]} /\ deployment' = deployment /\ loss' = loss
      BY <1>4 DEF AddPath
  <2>4. w \in Nat
      BY DeploymentIs DEF TypeOK
  <2>5. weight' \in [Paths -> Nat] /\ healthy' \in [Paths -> BOOLEAN] /\ credit' \in [Paths -> Int]
      BY <2>3, <2>4 DEF TypeOK
  <2>6. TypeOK'
      BY <2>1, <2>2, <2>3, <2>5 DEF TypeOK
  <2>7. SharesGiven'
      BY <1>0, <2>1, <2>3 DEF SharesGiven, TypeOK
  <2> QED
      BY <2>6, <2>7
<1>5. ASSUME NEW p \in Paths, NEW h \in BOOLEAN, SetHealthy(p, h) PROVE BaseInv'
  <2>2. /\ wide' \in BOOLEAN /\ members' = members
        /\ high' \in 0 .. Sustained - 1 /\ low' \in 0 .. Sustained - 1
        /\ lossy' \in [Paths -> -Sustained .. Sustained] /\ waited' \in [Paths -> Nat]
    <3>1. ResetDuplicateLossIf(healthy[p] # h) /\ Forget(healthy[p] # h) /\ (healthy[p] # h) \in BOOLEAN
        BY <1>5 DEF SetHealthy
    <3> QED
        BY <3>1, ResetTypes
  <2>3. /\ healthy' = [healthy EXCEPT ![p] = h]
        /\ UNCHANGED <<deployment, order, weight, credit, loss>>
      BY <1>5 DEF SetHealthy
  <2>4. healthy' \in [Paths -> BOOLEAN]
      BY <2>3 DEF TypeOK
  <2>5. TypeOK'
      BY <2>2, <2>3, <2>4 DEF TypeOK
  <2>6. SharesGiven'
      BY <2>3 DEF SharesGiven, Registered
  <2> QED
      BY <2>5, <2>6
<1>6. ASSUME NEW p \in Paths, NEW w \in deployment.weights, SetWeight(p, w) PROVE BaseInv'
  <2>1. /\ wide' \in BOOLEAN /\ members' = members
        /\ high' \in 0 .. Sustained - 1 /\ low' \in 0 .. Sustained - 1
      BY <1>1, <1>6 DEF SetWeight, ResetDuplicateLossIf, TypeOK
  <2>2. lossy' \in [Paths -> -Sustained .. Sustained]
    <3>1. lossy' = Zero \/ lossy' = lossy
        BY <1>6 DEF SetWeight
    <3>2. Zero \in [Paths -> -Sustained .. Sustained]
        BY SustainedAssumption DEF Zero
    <3> QED
        BY <3>1, <3>2 DEF TypeOK
  <2>3. /\ weight' = [weight EXCEPT ![p] = w]
        /\ UNCHANGED <<deployment, order, healthy, credit, loss>>
      BY <1>6 DEF SetWeight
  <2>8. waited' \in [Paths -> Nat]
    <3>1. waited' = Zero \/ waited' = waited
        BY <1>6 DEF SetWeight
    <3>2. Zero \in [Paths -> Nat]
        BY DEF Zero
    <3> QED
        BY <3>1, <3>2 DEF TypeOK
  <2>4. w \in Nat
      BY DeploymentIs DEF TypeOK
  <2>5. weight' \in [Paths -> Nat]
      BY <2>3, <2>4 DEF TypeOK
  <2>6. TypeOK'
      BY <2>1, <2>2, <2>3, <2>5, <2>8 DEF TypeOK
  <2>7. SharesGiven'
      BY <1>0, <2>3 DEF SharesGiven, TypeOK, Registered
  <2> QED
      BY <2>6, <2>7
<1>7. ASSUME NEW p \in Paths, NEW l \in Losses, Measure(p, l) PROVE BaseInv'
  <2>1. /\ loss' = [loss EXCEPT ![p] = l]
        /\ UNCHANGED <<deployment, order, weight, healthy, credit, dupVars, histVars>>
      BY <1>7 DEF Measure
  <2>2. loss' \in [Paths -> Losses \cup {"unknown"}]
      BY <2>1 DEF TypeOK
  <2>3. TypeOK'
      BY <2>1, <2>2 DEF TypeOK, dupVars, histVars
  <2>4. SharesGiven'
      BY <2>1 DEF SharesGiven, Registered
  <2> QED
      BY <2>3, <2>4
<1>8. CASE UpdateDuplicateLoss
  <2>1. members' = Carrying /\ Carrying \in SUBSET Paths
      BY <1>0, <1>8, CarryingLegs DEF UpdateDuplicateLoss
  <2>2. lossy' \in [Paths -> -Sustained .. Sustained]
      BY <1>8, SampledIs DEF UpdateDuplicateLoss
  <2>3. UNCHANGED <<deployment, order, weight, healthy, credit, loss, waited>>
      BY <1>8 DEF UpdateDuplicateLoss
  <2>4. Sustained \in Nat \ {0} /\ high \in 0 .. Sustained - 1 /\ low \in 0 .. Sustained - 1
      BY SustainedAssumption DEF TypeOK
  <2>5. wide' \in BOOLEAN /\ high' \in 0 .. Sustained - 1 /\ low' \in 0 .. Sustained - 1
    <3>1. CASE wide' = FALSE /\ high' = 0 /\ low' = 0
        BY <1>1, <3>1
    <3>2. CASE StepNarrow(Carrying, 0, 0)
        BY <1>1, <2>4, <3>2 DEF StepNarrow
    <3>3. CASE StepWide(Carrying)
        BY <1>1, <2>4, <3>3 DEF StepWide
    <3>4. CASE StepNarrow(Carrying, high, low)
        BY <1>1, <2>4, <3>4 DEF StepNarrow
    <3> QED
        BY <1>8, <3>1, <3>2, <3>3, <3>4 DEF UpdateDuplicateLoss
  <2>6. TypeOK'
      BY <2>1, <2>2, <2>3, <2>5 DEF TypeOK
  <2>7. SharesGiven'
      BY <2>3 DEF SharesGiven, Registered
  <2> QED
      BY <2>6, <2>7
<1>9. CASE UNCHANGED vars
    BY <1>9 DEF vars, dupVars, histVars, TypeOK, SharesGiven, Registered
<1> QED
    BY <1>2, <1>3, <1>4, <1>5, <1>6, <1>7, <1>8, <1>9 DEF Next

-----------------------------------------------------------------------------
(* What is kept of the losses. *)

\* Each leg that carries has read lossy in as many samples as are counted, and in a wide
\* bond none has read clean in more than are counted.
Evidence ==
    /\ high > 0 => \A p \in Carrying : lossy[p] >= high
    /\ wide => high = 0 /\ \A p \in Carrying : lossy[p] >= -low

DuplicateInv == BaseInv /\ WideMatchesLegs /\ Evidence

\* At the start nothing is wide and nothing is counted.
LEMMA DuplicateInitInv ==
    ASSUME Init PROVE DuplicateInv
<1>1. BaseInv
    BY BaseInitInv
<1>2. wide = FALSE /\ ~ (high > 0)
    BY DEF Init
<1> QED
    BY <1>1, <1>2 DEF DuplicateInv, WideMatchesLegs, Evidence

\* A step that leaves the legs and what is counted alone.
LEMMA EvidenceStays ==
    ASSUME WideMatchesLegs, Evidence, Carrying' = Carrying, UNCHANGED <<dupVars, lossy>>
    PROVE  WideMatchesLegs' /\ Evidence'
BY DEF WideMatchesLegs, Evidence, dupVars

\* A step that drops it.
LEMMA EvidenceGoes ==
    ASSUME ResetDuplicateLossIf(TRUE)
    PROVE  WideMatchesLegs' /\ Evidence'
<1>1. wide' = FALSE /\ high' = 0
    BY DEF ResetDuplicateLossIf
<1> QED
    BY <1>1 DEF WideMatchesLegs, Evidence

\* A narrow bond widens when enough samples in a row were lossy, and starts anew
\* with a sample that is not.
LEMMA NarrowIs ==
    ASSUME NEW legs, NEW k \in Nat, NEW l, StepNarrow(legs, k, l)
    PROVE  /\ AllLossy(legs) /\ k + 1 < Sustained => wide' = FALSE /\ high' = k + 1 /\ low' = l
           /\ AllLossy(legs) /\ ~ (k + 1 < Sustained) => wide' = TRUE /\ high' = 0 /\ low' = 0
           /\ ~ AllLossy(legs) => wide' = FALSE /\ high' = 0
<1>1. Sustained \in Nat /\ Sustained >= 1
    BY SustainedAssumption
<1>2. PICK n \in Nat : n = IF AllLossy(legs) THEN k + 1 ELSE 0
    OBVIOUS
<1>3. /\ wide' = (n >= Sustained)
      /\ high' = IF n < Sustained THEN n ELSE 0
      /\ low' = IF n < Sustained THEN l ELSE 0
    BY <1>2, Zenon DEF StepNarrow
<1>4. CASE n < Sustained
  <2>1. ~ (n >= Sustained)
      BY <1>1, <1>4
  <2>2. wide' = FALSE
    <3>1. (n >= Sustained) = FALSE
        BY <2>1
    <3> QED
        BY <1>3, <3>1, Zenon
  <2>3. high' = n /\ low' = l
      BY <1>3, <1>4, Zenon
  <2> QED
      BY <1>1, <1>2, <1>4, <2>2, <2>3
<1>5. CASE ~ (n < Sustained)
  <2>1. n >= Sustained /\ AllLossy(legs)
      BY <1>1, <1>2, <1>5
  <2>2. wide' = TRUE /\ high' = 0 /\ low' = 0
      BY <1>3, <1>5, <2>1, Zenon
  <2> QED
      BY <1>1, <1>2, <1>5, <2>1, <2>2
<1> QED
    BY <1>4, <1>5

\* A wide bond narrows when some leg read clean in enough samples in a row.
LEMMA WideIs ==
    ASSUME NEW legs, StepWide(legs), high = 0, low \in Nat
    PROVE  /\ wide /\ high' = 0
           /\ Recovered(legs) /\ low + 1 < Sustained => low' = low + 1
           /\ Recovered(legs) /\ ~ (low + 1 < Sustained) => wide' = FALSE
           /\ ~ Recovered(legs) => low' = 0
<1>1. Sustained \in Nat /\ Sustained >= 1
    BY SustainedAssumption
<1>2. PICK n \in Nat : n = IF Recovered(legs) THEN low + 1 ELSE 0
    OBVIOUS
<1>3. /\ wide
      /\ wide' = (n < Sustained)
      /\ low' = IF n < Sustained THEN n ELSE 0
      /\ high' = IF n < Sustained THEN high ELSE 0
    BY <1>2, Zenon DEF StepWide
<1>4. CASE n < Sustained
  <2>1. high' = 0 /\ low' = n
      BY <1>3, <1>4, Zenon
  <2> QED
      BY <1>1, <1>2, <1>3, <1>4, <2>1
<1>5. CASE ~ (n < Sustained)
  <2>1. wide' = FALSE
    <3>1. (n < Sustained) = FALSE
        BY <1>5
    <3> QED
        BY <1>3, <3>1, Zenon
  <2>3. high' = 0
      BY <1>3, <1>5, Zenon
  <2>2. Recovered(legs) /\ ~ (low + 1 < Sustained)
      BY <1>1, <1>2, <1>5
  <2> QED
      BY <1>3, <2>1, <2>2, <2>3
<1> QED
    BY <1>4, <1>5

\* No leg has read clean, and nothing is counted.
LEMMA KeptAtZero ==
    ASSUME Carrying' = Carrying, high' = 0, low' = 0,
           \A p \in Carrying : lossy'[p] \in Int /\ lossy'[p] >= 0
    PROVE  Evidence'
<1>1. \A x \in Int : x >= 0 /\ low' = 0 => x >= -low'
    OBVIOUS
<1>2. \A p \in Carrying' : lossy'[p] >= -low'
  <2> HIDE DEF Carrying
  <2> QED
      BY <1>1
<1>3. ~ (high' > 0)
    OBVIOUS
<1> QED
    BY <1>2, <1>3 DEF Evidence

\* Some leg has read clean once more.
LEMMA KeptFromLow ==
    ASSUME Carrying' = Carrying, high' = 0, low' = low + 1,
           \A p \in Carrying : lossy'[p] >= -(low + 1)
    PROVE  Evidence'
<1>1. -low' = -(low + 1)
    OBVIOUS
<1>2. \A p \in Carrying' : lossy'[p] >= -low'
  <2> HIDE DEF Carrying
  <2> QED
      BY <1>1
<1>3. ~ (high' > 0)
    OBVIOUS
<1> QED
    BY <1>2, <1>3 DEF Evidence

\* Every step keeps the count and what it stands for together: a change of the legs drops
\* both, and a sample adds one to both.
LEMMA DuplicateStepInv ==
    ASSUME DuplicateInv, [Next]_vars PROVE DuplicateInv'
<1>1. BaseInv /\ TypeOK /\ WideMatchesLegs /\ Evidence
    BY DEF DuplicateInv, BaseInv
<1>2. BaseInv'
    BY <1>1, BaseStepInv
<1>3. SUFFICES WideMatchesLegs' /\ Evidence'
    BY <1>2, <1>3 DEF DuplicateInv
<1>4. CASE SendSpray
  <2>1. Carrying' = Carrying /\ UNCHANGED <<dupVars, lossy>>
      BY <1>4, CarryingStays DEF SendSpray
  <2> QED
      BY <1>1, <2>1, EvidenceStays
<1>5. ASSUME NEW p \in Paths, RemovePath(p) PROVE WideMatchesLegs' /\ Evidence'
    BY <1>5, EvidenceGoes DEF RemovePath
<1>6. ASSUME NEW p \in Paths, NEW w \in deployment.weights, AddPath(p, w)
      PROVE  WideMatchesLegs' /\ Evidence'
    BY <1>6, EvidenceGoes DEF AddPath
<1>7. ASSUME NEW p \in Paths, NEW h \in BOOLEAN, SetHealthy(p, h)
      PROVE  WideMatchesLegs' /\ Evidence'
  <2>1. CASE healthy[p] # h
    <3>1. ResetDuplicateLossIf(TRUE)
        BY <1>7, <2>1 DEF SetHealthy, ResetDuplicateLossIf
    <3> QED
        BY <3>1, EvidenceGoes
  <2>2. CASE healthy[p] = h
    <3>1. healthy' = healthy /\ order' = order /\ weight' = weight
        BY <1>1, <1>7, <2>2 DEF SetHealthy, TypeOK
    <3>2. UNCHANGED <<dupVars, lossy>>
        BY <1>1, <1>7, <2>2 DEF SetHealthy, ResetDuplicateLossIf, Forget, dupVars, TypeOK
    <3>3. Carrying' = Carrying
        BY <3>1, CarryingStays
    <3> QED
        BY <1>1, <3>2, <3>3, EvidenceStays
  <2> QED
      BY <2>1, <2>2
<1>8. ASSUME NEW p \in Paths, NEW w \in deployment.weights, SetWeight(p, w)
      PROVE  WideMatchesLegs' /\ Evidence'
  <2>1. CASE (weight[p] > 0) # (w > 0)
    <3>1. ResetDuplicateLossIf(TRUE)
        BY <1>8, <2>1 DEF SetWeight, ResetDuplicateLossIf
    <3> QED
        BY <3>1, EvidenceGoes
  <2>2. CASE (weight[p] > 0) <=> (w > 0)
    <3>1. healthy' = healthy /\ order' = order /\ weight' = [weight EXCEPT ![p] = w]
        BY <1>8 DEF SetWeight
    <3>2. UNCHANGED <<dupVars, lossy>>
      <4>1. ~ ((weight[p] > 0) # (w > 0))
          BY <2>2
      <4> QED
          BY <1>1, <1>8, <4>1 DEF SetWeight, ResetDuplicateLossIf, dupVars, TypeOK
    <3>3. \A q \in Registered : (weight'[q] > 0) <=> (weight[q] > 0)
      <4>1. Registered \in SUBSET Paths
          BY <1>1, BeforeOrders DEF TypeOK, Placed
      <4> QED
          BY <1>1, <2>2, <3>1, <4>1 DEF TypeOK
    <3>4. Carrying' = Carrying
        BY <3>1, <3>3, CarryingStays
    <3> QED
        BY <1>1, <3>2, <3>4, EvidenceStays
  <2> QED
      BY <2>1, <2>2
<1>9. ASSUME NEW p \in Paths, NEW l \in Losses, Measure(p, l)
      PROVE  WideMatchesLegs' /\ Evidence'
  <2>1. Carrying' = Carrying /\ UNCHANGED <<dupVars, lossy>>
      BY <1>9, CarryingStays DEF Measure, histVars
  <2> QED
      BY <1>1, <2>1, EvidenceStays
<1>10. CASE UpdateDuplicateLoss
  <2>1. Carrying' = Carrying /\ members' = Carrying
      BY <1>10, CarryingStays DEF UpdateDuplicateLoss
  <2>2. Carrying \in SUBSET Paths
      BY <1>1, CarryingLegs DEF TypeOK, Placed
  <2>3. Sampled(Carrying)
      BY <1>10 DEF UpdateDuplicateLoss
  <2>4. /\ \A p \in Carrying : loss[p] = "high" =>
               lossy'[p] >= 1 /\ (lossy'[p] = Sustained \/ lossy'[p] >= lossy[p] + 1)
        /\ \A p \in Carrying : loss[p] = "low" => lossy'[p] >= -1 \/ lossy'[p] >= lossy[p] - 1
        /\ \A p \in Carrying : loss[p] # "low" => lossy'[p] >= 0
    <3> HIDE DEF Carrying
    <3> QED
        BY <1>1, <2>2, <2>3, SampledIs
  <2>5. /\ Sustained \in Nat \ {0} /\ high \in 0 .. Sustained - 1 /\ low \in 0 .. Sustained - 1
        /\ \A p \in Carrying : lossy[p] \in -Sustained .. Sustained /\ lossy'[p] \in -Sustained .. Sustained
    <3>1. lossy \in [Paths -> -Sustained .. Sustained] /\ lossy' \in [Paths -> -Sustained .. Sustained]
        BY <1>1, <2>3, SampledIs DEF TypeOK
    <3> QED
        BY <1>1, <2>2, <3>1, SustainedAssumption DEF TypeOK
  <2>6. WideMatchesLegs'
      BY <2>1 DEF WideMatchesLegs
  <2>7. Evidence'
    <3>1. CASE wide' = FALSE /\ high' = 0
        BY <3>1 DEF Evidence
    <3>2. CASE StepNarrow(Carrying, 0, 0) \/ StepNarrow(Carrying, high, low)
      <4>1. PICK k \in Nat : /\ k > 0 => k = high
                             /\ \E l \in {0, low} : StepNarrow(Carrying, k, l)
          BY <2>5, <3>2
      <4>2. PICK l \in {0, low} : StepNarrow(Carrying, k, l)
          BY <4>1
      <4>3. /\ AllLossy(Carrying) /\ k + 1 < Sustained => wide' = FALSE /\ high' = k + 1
            /\ AllLossy(Carrying) /\ ~ (k + 1 < Sustained) => high' = 0 /\ low' = 0
            /\ ~ AllLossy(Carrying) => wide' = FALSE /\ high' = 0
        <5> HIDE DEF Carrying
        <5> QED
            BY <4>2, NarrowIs
      <4>4. CASE ~ AllLossy(Carrying)
          BY <3>1, <4>3, <4>4
      <4>5. CASE AllLossy(Carrying)
        <5>1. ASSUME NEW p \in Carrying
              PROVE  lossy'[p] >= k + 1 \/ lossy'[p] = Sustained
          <6>1. lossy'[p] >= 1 /\ (lossy'[p] = Sustained \/ lossy'[p] >= lossy[p] + 1)
              BY <2>4, <4>5 DEF AllLossy
          <6>2. k > 0 => lossy[p] >= k
              BY <1>1, <4>1 DEF Evidence
          <6>3. PICK x \in Int : x = lossy[p]
              BY <2>5
          <6>4. PICK y \in Int : y = lossy'[p]
              BY <2>5
          <6> QED
              BY <4>1, <6>1, <6>2, <6>3, <6>4
        <5>2. CASE k + 1 < Sustained
          <6>1. wide' = FALSE /\ high' = k + 1
              BY <4>3, <4>5, <5>2
          <6>2. \A p \in Carrying : lossy'[p] >= k + 1
            <7>1. ASSUME NEW p \in Carrying PROVE lossy'[p] >= k + 1
              <8>1. lossy'[p] >= k + 1 \/ lossy'[p] = Sustained
                  BY <5>1
              <8> QED
                  BY <2>5, <4>1, <5>2, <8>1
            <7> QED
                BY <7>1
          <6>3. high' > 0 => \A p \in Carrying' : lossy'[p] >= high'
            <7> HIDE DEF Carrying
            <7> QED
                BY <2>1, <6>1, <6>2
          <6> QED
              BY <6>1, <6>3 DEF Evidence
        <5>3. CASE ~ (k + 1 < Sustained)
          <6>1. high' = 0 /\ low' = 0
              BY <4>3, <4>5, <5>3
          <6>2. \A p \in Carrying : lossy'[p] >= 0
            <7>1. ASSUME NEW p \in Carrying PROVE lossy'[p] >= 0
              <8>1. lossy'[p] >= k + 1 \/ lossy'[p] = Sustained
                  BY <5>1
              <8> QED
                  BY <2>5, <4>1, <8>1
            <7> QED
                BY <7>1
          <6> QED
              BY <2>1, <2>5, <6>1, <6>2, KeptAtZero
        <5> QED
            BY <5>2, <5>3
      <4> QED
          BY <4>4, <4>5
    <3>3. CASE StepWide(Carrying)
      <4>1. wide
          BY <3>3 DEF StepWide
      <4>2. high = 0 /\ \A p \in Carrying : lossy[p] >= -low
          BY <1>1, <4>1 DEF Evidence
      <4>3. /\ high' = 0
            /\ Recovered(Carrying) /\ low + 1 < Sustained => low' = low + 1
            /\ Recovered(Carrying) /\ ~ (low + 1 < Sustained) => wide' = FALSE
            /\ ~ Recovered(Carrying) => low' = 0
        <5>1. low \in Nat
            BY <2>5
        <5> HIDE DEF Carrying
        <5> QED
            BY <3>3, <4>2, <5>1, WideIs
      <4>4. CASE Recovered(Carrying)
        <5>1. CASE low + 1 < Sustained
          <6>1. low' = low + 1
              BY <4>3, <4>4, <5>1
          <6>2. ASSUME NEW p \in Carrying PROVE lossy'[p] >= -(low + 1)
            <7>1. PICK x \in Int : x = lossy[p]
                BY <2>5
            <7>2. PICK y \in Int : y = lossy'[p]
                BY <2>5
            <7>3. PICK l \in Nat : l = low
                BY <2>5
            <7>4. (y >= -1 \/ y >= x - 1) \/ y >= 0
                BY <2>4, <7>1, <7>2
            <7>5. x >= -l
                BY <4>2, <7>1, <7>3
            <7>6. y >= -(l + 1)
                BY <7>4, <7>5
            <7> QED
                BY <7>2, <7>3, <7>6
          <6> QED
              BY <2>1, <4>3, <6>1, <6>2, KeptFromLow
        <5>2. CASE ~ (low + 1 < Sustained)
          <6>1. wide' = FALSE /\ high' = 0
              BY <4>3, <4>4, <5>2
          <6> QED
              BY <3>1, <6>1
        <5> QED
            BY <5>1, <5>2
      <4>5. CASE ~ Recovered(Carrying)
        <5>1. low' = 0
            BY <4>3, <4>5
        <5>2. \A p \in Carrying : lossy'[p] >= 0
            BY <2>4, <4>5 DEF Recovered
        <5> QED
            BY <2>1, <2>5, <4>3, <5>1, <5>2, KeptAtZero
      <4> QED
          BY <4>4, <4>5
    <3> QED
        BY <1>10, <3>1, <3>2, <3>3 DEF UpdateDuplicateLoss
  <2> QED
      BY <2>6, <2>7
<1>11. CASE UNCHANGED vars
  <2>1. Carrying' = Carrying /\ UNCHANGED <<dupVars, lossy>>
      BY <1>11, CarryingStays DEF vars, histVars
  <2> QED
      BY <1>1, <2>1, EvidenceStays
<1> QED
    BY <1>4, <1>5, <1>6, <1>7, <1>8, <1>9, <1>10, <1>11 DEF Next

-----------------------------------------------------------------------------
(* What a spray shares out. *)

\* The unit is a whole number for every total of shares in use (UnitAssumption).
LEMMA UnitDivides ==
    ASSUME NEW d \in Deployments, d.spray = TRUE, NEW legs \in SUBSET Paths, NEW w \in [legs -> d.weights],
           SumOver(w, legs) > 0
    PROVE  Unit % SumOver(w, legs) = 0
BY UnitAssumption DEF SumOver

\* A share is a whole number of units for each unit of weight.
LEMMA SharesAreWhole ==
    ASSUME BaseInv, Proven, deployment.spray, Carrying # {}
    PROVE  \E k \in Nat : /\ Unit = SumWeights(Carrying) * k
                          /\ \A p \in Carrying : ShareOf(Carrying)[p] = k * weight[p]
<1>1. TypeOK /\ SharesGiven /\ Placed
    BY DEF BaseInv, TypeOK, Placed
<1>2. Carrying \in SUBSET Registered /\ Carrying \in SUBSET Paths
    BY <1>1, CarryingLegs
<1>3. \E p \in Carrying : weight[p] > 0
    BY DEF Proven, Carrying, Weighted
<1>4. PICK C \in SUBSET Paths : C = Carrying
    BY <1>2
<1>5. PICK d \in Deployments : d = deployment
    BY <1>1 DEF TypeOK
<1>6. d.spray = TRUE /\ d.weights \in SUBSET Nat
    BY <1>1, <1>5, DeploymentIs DEF TypeOK
<1>7. IsFiniteSet(C) /\ \A p \in C : weight[p] \in Nat /\ weight[p] \in d.weights
    BY <1>1, <1>2, <1>4, <1>5, PathSets DEF TypeOK, SharesGiven
<1>8. PICK w \in [C -> d.weights] : \A p \in C : w[p] = weight[p]
  <2>1. [p \in C |-> weight[p]] \in [C -> d.weights]
      BY <1>7
  <2> QED
      BY <2>1
<1>9. PICK total \in Nat \ {0} : /\ total = SumOver(weight, C) /\ total = SumOver(w, C)
                                 /\ total = Total(Carrying) /\ total = SumWeights(Carrying)
  <2>1. SumOver(w, C) = SumOver(weight, C)
    <3>1. \A p \in C : weight[p] \in Int /\ w[p] = weight[p]
        BY <1>7, <1>8
    <3> QED
        BY <1>7, <3>1, SumSame
  <2>2. PICK p \in C : weight[p] > 0
      BY <1>3, <1>4
  <2>3. SumOver(weight, C) = weight[p] + SumOver(weight, C \ {p})
    <3>1. \A x \in C : weight[x] \in Int
        BY <1>7
    <3> QED
        BY <1>7, <2>2, <3>1, SumTakes
  <2>4. SumOver(weight, C \ {p}) \in Nat
    <3>1. IsFiniteSet(C \ {p}) /\ \A x \in C \ {p} : weight[x] \in Nat
        BY <1>7, PathSets
    <3> QED
        BY <3>1, SumIsNat
  <2>5. SumOver(weight, C) \in Nat \ {0}
      BY <1>7, <2>2, <2>3, <2>4
  <2>6. Total(Carrying) = SumOver(weight, C) /\ SumWeights(Carrying) = SumOver(weight, C)
    <3>1. SumWeights(Carrying) = SumOver(weight, C)
        BY <1>1, <1>2, <1>4, SumOfWeights
    <3> QED
        BY <2>5, <3>1 DEF Total
  <2> QED
      BY <2>1, <2>5, <2>6
<1>10. PICK k \in Nat : Unit = total * k
  <2>1. Unit % total = 0
    <3>1. SumOver(w, C) > 0
        BY <1>9
    <3>2. Unit % SumOver(w, C) = 0
        BY <1>6, <1>8, <3>1, UnitDivides
    <3> QED
        BY <1>9, <3>2
  <2> QED
      BY <1>9, <2>1, UnitAssumption, WholePart
<1>11. \A p \in C : weight[p] \in Int /\ ShareOf(Carrying)[p] = k * weight[p]
  <2>1. ASSUME NEW p \in C PROVE weight[p] \in Int /\ ShareOf(Carrying)[p] = k * weight[p]
    <3>1. PICK v \in Nat : v = weight[p]
        BY <1>7
    <3>2. ShareOf(Carrying)[p] = (Unit * v) \div total
        BY <1>4, <1>9, <3>1 DEF ShareOf
    <3>3. Unit * v = total * (k * v) /\ k * v \in Nat
        BY <1>9, <1>10
    <3>4. (total * (k * v)) \div total = k * v
        BY <1>9, <3>3, DividesBack
    <3> QED
        BY <3>1, <3>2, <3>3, <3>4
  <2> QED
      BY <2>1
<1> QED
    BY <1>4, <1>9, <1>10, <1>11

\* Those who carry divide a packet among them.
LEMMA SharesAreShared ==
    ASSUME BaseInv, Proven, deployment.spray, Carrying # {}
    PROVE  Shared(ShareOf(Carrying), Carrying)
<1>1. TypeOK /\ SharesGiven /\ Placed
    BY DEF BaseInv, TypeOK, Placed
<1>2. Carrying \in SUBSET Paths
    BY <1>1, CarryingLegs
<1>3. PICK C \in SUBSET Paths : C = Carrying
    BY <1>2
<1>4. IsFiniteSet(C)
    BY PathSets
<1>5. PICK k \in Nat : /\ Unit = SumWeights(Carrying) * k
                       /\ \A p \in Carrying : ShareOf(Carrying)[p] = k * weight[p]
    BY SharesAreWhole
<1>6. SumOver(ShareOf(Carrying), C) = Unit
  <2>1. SumOver(ShareOf(Carrying), C) = k * SumOver(weight, C)
    <3>1. k \in Int /\ \A p \in C : weight[p] \in Int /\ ShareOf(Carrying)[p] = k * weight[p]
        BY <1>1, <1>3, <1>5 DEF TypeOK
    <3> QED
        BY <1>4, <3>1, SumScales
  <2>2. PICK total \in Nat : total = SumOver(weight, C) /\ total = SumWeights(Carrying)
      BY <1>1, <1>3, SumOfWeights
  <2>3. Unit = total * k /\ SumOver(ShareOf(Carrying), C) = k * total
      BY <1>5, <2>1, <2>2
  <2>4. total * k = k * total
      OBVIOUS
  <2> QED
      BY <2>3, <2>4
<1>7. ShareOf(Carrying) \in [Paths -> Nat] /\ \A p \in Paths \ Carrying : ShareOf(Carrying)[p] = 0
    BY <1>1, <1>2, CreditedIs
<1>8. SumOver(ShareOf(Carrying), Paths) = Unit
  <2>1. SumOver(ShareOf(Carrying), Paths)
          = SumOver(ShareOf(Carrying), C) + SumOver(ShareOf(Carrying), Paths \ C)
    <3>1. \A p \in Paths : ShareOf(Carrying)[p] \in Int
        BY <1>7
    <3> QED
        BY <3>1, PathsAssumption, SumSplits
  <2>2. SumOver(ShareOf(Carrying), Paths \ C) = 0
    <3>1. IsFiniteSet(Paths \ C) /\ \A p \in Paths \ C : ShareOf(Carrying)[p] = 0
        BY <1>3, <1>7, PathSets
    <3> QED
        BY <3>1, SumOfZeros
  <2> QED
      BY <1>6, <2>1, <2>2, UnitAssumption
<1> QED
    BY <1>7, <1>8 DEF Shared

CreditInv == BaseInv /\ Spread(credit)

\* At the start nobody is ahead or behind.
LEMMA CreditInitInv ==
    ASSUME Init PROVE CreditInv
<1>1. BaseInv
    BY BaseInitInv
<1>2. ASSUME NEW s \in SUBSET Paths
      PROVE  /\ 2 * SumOver(credit, s) <= Unit * Room(NPaths, Cardinality(s))
             /\ - (Unit * Room(NPaths, Cardinality(s))) <= 2 * SumOver(credit, s)
  <2>1. IsFiniteSet(s) /\ Cardinality(s) \in 0 .. NPaths /\ NPaths \in Nat
      BY PathSets
  <2>2. SumOver(credit, s) = 0
    <3>1. \A x \in s : credit[x] = 0
        BY DEF Init, Zero
    <3> QED
        BY <2>1, <3>1, SumOfZeros
  <2>3. PICK r \in Nat : r = Room(NPaths, Cardinality(s))
      BY <2>1, RoomIsNat
  <2>4. Unit * r \in Nat
      BY UnitAssumption
  <2> QED
      BY <2>2, <2>3, <2>4
<1> QED
    BY <1>1, <1>2 DEF CreditInv, Spread

\* Every step keeps the credits in their room, while the bond has a leg with a share.
LEMMA CreditStepInv ==
    ASSUME CreditInv, Proven, [Next]_vars PROVE CreditInv'
<1>1. BaseInv /\ TypeOK /\ Spread(credit) /\ credit \in [Paths -> Int]
    BY DEF CreditInv, BaseInv, TypeOK
<1>2. BaseInv'
    BY <1>1, BaseStepInv
<1>3. SUFFICES Spread(credit')
    BY <1>2, <1>3 DEF CreditInv, Spread
<1>4. CASE SendSpray
  <2>1. PICK m \in Carrying : Sprayed(credit, ShareOf(Carrying), Carrying, m, credit')
      BY <1>1, <1>4, SprayTypes
  <2>2. Shared(ShareOf(Carrying), Carrying)
      BY <1>1, <1>4, SharesAreShared DEF SendSpray
  <2>3. Carrying \in SUBSET Paths
      BY <1>1, CarryingLegs DEF TypeOK, Placed
  <2> HIDE DEF Carrying
  <2> QED
      BY <1>1, <2>1, <2>2, <2>3, SprayKeepsSpread
<1>5. ASSUME NEW p \in Paths, credit' \in {credit, [credit EXCEPT ![p] = 0]} PROVE Spread(credit')
  <2>1. CASE credit' = credit
      BY <1>1, <2>1
  <2>2. CASE credit' = [credit EXCEPT ![p] = 0]
    <3>1. Spread([credit EXCEPT ![p] = 0])
        BY <1>1, ResetKeepsSpread
    <3> QED
        BY <2>2, <3>1
  <2> QED
      BY <1>5, <2>1, <2>2
<1>6. ASSUME NEW p \in Paths, RemovePath(p) PROVE Spread(credit')
    BY <1>5, <1>6 DEF RemovePath
<1>7. ASSUME NEW p \in Paths, NEW w \in deployment.weights, AddPath(p, w) PROVE Spread(credit')
    BY <1>5, <1>7 DEF AddPath
<1>8. CASE credit' = credit
    BY <1>1, <1>8
<1>9. ASSUME NEW p \in Paths, NEW h \in BOOLEAN, SetHealthy(p, h) PROVE Spread(credit')
    BY <1>8, <1>9 DEF SetHealthy
<1>10. ASSUME NEW p \in Paths, NEW w \in deployment.weights, SetWeight(p, w) PROVE Spread(credit')
    BY <1>8, <1>10 DEF SetWeight
<1>11. ASSUME NEW p \in Paths, NEW l \in Losses, Measure(p, l) PROVE Spread(credit')
    BY <1>8, <1>11 DEF Measure
<1>12. CASE UpdateDuplicateLoss
    BY <1>8, <1>12 DEF UpdateDuplicateLoss
<1>13. CASE UNCHANGED vars
    BY <1>8, <1>13 DEF vars
<1> QED
    BY <1>4, <1>6, <1>7, <1>9, <1>10, <1>11, <1>12, <1>13 DEF Next

-----------------------------------------------------------------------------
(* Nobody starves. *)

\* A leg's credit holds what it was due while it waited.
Due(p) ==
    /\ deployment.spray = TRUE
    /\ p \in Carrying
    /\ waited[p] * ShareOf(Carrying)[p] <= credit[p] + Unit * (NPaths - 1)

WaitInv == \A p \in Paths : waited[p] # 0 => Due(p)

\* At the start nobody waits.
LEMMA WaitInitInv ==
    ASSUME Init PROVE WaitInv
<1>1. \A p \in Paths : waited[p] = 0
    BY DEF Init, Zero
<1> QED
    BY <1>1 DEF WaitInv

\* What a leg is due depends on the legs and the shares.
LEMMA SharesStay ==
    ASSUME UNCHANGED <<order, weight, healthy>>
    PROVE  Carrying' = Carrying /\ ShareOf(Carrying)' = ShareOf(Carrying)
<1>1. Carrying' = Carrying
    BY CarryingStays
<1>2. SumWeights(Carrying) = SumOver(weight, Carrying)
    BY DEF SumWeights, SumOver
<1>5. SumWeights(Carrying)' = SumOver(weight', Carrying')
    BY DEF SumWeights, SumOver, MapThenSumSet, MapThenFoldSet
<1>3. SumWeights(Carrying)' = SumWeights(Carrying)
    BY <1>1, <1>2, <1>5, Zenon
<1>4. Total(Carrying)' = Total(Carrying)
    BY <1>3 DEF Total
<1> HIDE DEF Carrying
<1> QED
    BY <1>1, <1>4 DEF ShareOf

\* A step that leaves the legs, the shares and the credit alone.
LEMMA WaitStays ==
    ASSUME WaitInv, UNCHANGED <<deployment, order, weight, healthy, credit, waited>>
    PROVE  WaitInv'
<1>1. Carrying' = Carrying /\ ShareOf(Carrying)' = ShareOf(Carrying)
    BY SharesStay
<1>2. ASSUME NEW p \in Paths, Due(p) PROVE Due(p)'
  <2> HIDE DEF Carrying, ShareOf
  <2> QED
      BY <1>1, <1>2 DEF Due
<1> QED
    BY <1>2 DEF WaitInv

\* A change of the legs or the shares starts the wait anew.
LEMMA WaitGoes ==
    ASSUME waited' = Zero PROVE WaitInv'
<1>1. \A p \in Paths : waited'[p] = 0
    BY DEF Zero
<1> QED
    BY <1>1 DEF WaitInv

\* A leg that is passed over gets its share, and one that is chosen stops waiting.
LEMMA WaitStepInv ==
    ASSUME TypeOK, Spread(credit), WaitInv, [Next]_vars PROVE WaitInv'
<1>1. CASE SendSpray
  <2>1. PICK m \in Carrying : /\ m = FirstBest(Carrying, Credited(Carrying))
                             /\ Sprayed(credit, ShareOf(Carrying), Carrying, m, credit')
      BY <1>1, SprayTypes
  <2>2. Carrying \in SUBSET Paths
      BY CarryingLegs DEF TypeOK, Placed
  <2>3. Carrying' = Carrying /\ ShareOf(Carrying)' = ShareOf(Carrying) /\ deployment' = deployment
    <3>1. UNCHANGED <<deployment, order, weight, healthy>>
        BY <1>1 DEF SendSpray
    <3> QED
        BY <3>1, SharesStay
  <2>4. PICK C \in SUBSET Paths : C = Carrying
      BY <2>2
  <2>5. PICK share \in [Paths -> Nat] : share = ShareOf(Carrying)
      BY <2>2, CreditedIs
  <2>6. waited' = [q \in Paths |-> IF q # m /\ q \in C /\ weight[q] > 0 THEN waited[q] + 1 ELSE 0]
      BY <1>1, <2>1, <2>4 DEF SendSpray
  <2>7. ASSUME NEW q \in Paths, waited'[q] # 0
        PROVE  /\ q \in C /\ deployment.spray
               /\ waited'[q] * share[q] <= credit'[q] + Unit * (NPaths - 1)
    <3>1. q # m /\ q \in C /\ waited'[q] = waited[q] + 1
        BY <2>6, <2>7
    <3>2. credit'[q] = credit[q] + share[q] /\ credit[q] \in Int
      <4>1. credit'[q] = credit[q] + share[q] - 0
          BY <2>1, <2>5, <3>1 DEF Sprayed
      <4>2. credit[q] \in Int /\ share[q] \in Int
          BY <2>5 DEF TypeOK
      <4> QED
          BY <4>1, <4>2
    <3>3. PICK x \in Int : x = credit[q]
        BY <3>2
    <3>4. PICK w \in Nat : w = waited[q]
        BY DEF TypeOK
    <3>5. PICK y \in Nat : y = share[q]
        BY <2>5
    <3>6. PICK b \in Int : b = Unit * (NPaths - 1)
      <4>1. Paths \in SUBSET Paths
          OBVIOUS
      <4>2. NPaths \in Int /\ Unit \in Int
          BY <4>1, UnitAssumption, PathSets
      <4>3. Unit * (NPaths - 1) \in Int
          BY <4>2
      <4> QED
          BY <4>3
    <3>7. - b <= x
        BY <3>3, <3>6, CreditBand DEF TypeOK
    <3>8. (w + 1) * y <= (x + y) + b
      <4>1. CASE w = 0
          BY <3>7, <4>1
      <4>2. CASE w # 0
        <5>1. w * y <= x + b
            BY <2>5, <3>3, <3>4, <3>5, <3>6, <4>2 DEF WaitInv, Due
        <5>2. (w + 1) * y = w * y + y /\ w * y \in Int
            OBVIOUS
        <5> QED
            BY <5>1, <5>2
      <4> QED
          BY <4>1, <4>2
    <3> QED
        BY <1>1, <3>1, <3>2, <3>3, <3>4, <3>5, <3>6, <3>8 DEF SendSpray
  <2>8. ASSUME NEW q \in Paths, waited'[q] # 0 PROVE Due(q)'
    <3>1. PICK v : v = waited'[q]
        OBVIOUS
    <3>2. PICK x : x = credit'[q]
        OBVIOUS
    <3>3. deployment.spray = TRUE /\ q \in Carrying
      <4>1. deployment.spray \in BOOLEAN
          BY DeploymentIs DEF TypeOK
      <4> QED
          BY <2>4, <2>7, <2>8, <4>1
    <3>4. v * ShareOf(Carrying)[q] <= x + Unit * (NPaths - 1)
        BY <2>5, <2>7, <2>8, <3>1, <3>2
    <3> HIDE DEF Carrying, ShareOf
    <3> QED
        BY <2>3, <3>1, <3>2, <3>3, <3>4 DEF Due
  <2> QED
      BY <2>8 DEF WaitInv
<1>2. ASSUME NEW p \in Paths, RemovePath(p) PROVE WaitInv'
    BY <1>2, WaitGoes DEF RemovePath, Forget
<1>3. ASSUME NEW p \in Paths, NEW w \in deployment.weights, AddPath(p, w) PROVE WaitInv'
    BY <1>3, WaitGoes DEF AddPath, Forget
<1>4. ASSUME NEW p \in Paths, NEW h \in BOOLEAN, SetHealthy(p, h) PROVE WaitInv'
  <2>1. CASE healthy[p] # h
      BY <1>4, <2>1, WaitGoes DEF SetHealthy, Forget
  <2>2. CASE healthy[p] = h
    <3>1. UNCHANGED <<deployment, order, weight, healthy, credit, waited>>
        BY <1>4, <2>2 DEF SetHealthy, Forget, TypeOK
    <3> QED
        BY <3>1, WaitStays
  <2> QED
      BY <2>1, <2>2
<1>5. ASSUME NEW p \in Paths, NEW w \in deployment.weights, SetWeight(p, w) PROVE WaitInv'
  <2>1. CASE weight[p] # w
      BY <1>5, <2>1, WaitGoes DEF SetWeight
  <2>2. CASE weight[p] = w
    <3>1. UNCHANGED <<deployment, order, weight, healthy, credit, waited>>
        BY <1>5, <2>2 DEF SetWeight, TypeOK
    <3> QED
        BY <3>1, WaitStays
  <2> QED
      BY <2>1, <2>2
<1>6. ASSUME NEW p \in Paths, NEW l \in Losses, Measure(p, l) PROVE WaitInv'
    BY <1>6, WaitStays DEF Measure, histVars
<1>7. CASE UpdateDuplicateLoss
    BY <1>7, WaitStays DEF UpdateDuplicateLoss
<1>8. CASE UNCHANGED vars
    BY <1>8, WaitStays DEF vars, histVars
<1> QED
    BY <1>1, <1>2, <1>3, <1>4, <1>5, <1>6, <1>7, <1>8 DEF Next

\* What a leg waited for, in shares.
LEMMA WaitIsByShare ==
    ASSUME BaseInv, Spread(credit), WaitInv, Proven PROVE WaitsByShare
<1>1. TypeOK /\ Placed
    BY DEF BaseInv, TypeOK, Placed
<1>2. Carrying \in SUBSET Paths
    BY <1>1, CarryingLegs
<1>3. SUFFICES ASSUME NEW p \in Carrying
               PROVE  waited[p] * weight[p] <= 2 * (NPaths - 1) * SumWeights(Carrying)
    BY DEF WaitsByShare, NPaths
<1>4. p \in Paths
    BY <1>2
<1>5. PICK n \in Nat : n = NPaths - 1
  <2>1. {p} \in SUBSET Paths /\ Cardinality({p}) = 1
      BY <1>4, FS_Singleton
  <2>2. 1 \in 0 .. NPaths /\ NPaths \in Nat
      BY <2>1, PathSets
  <2> QED
      BY <2>2
<1>6. PICK v \in Nat : v = weight[p]
    BY <1>1, <1>4 DEF TypeOK
<1>7. PICK total \in Nat : total = SumWeights(Carrying)
    BY <1>1, <1>2, SumOfWeights
<1>8. PICK w \in Nat : w = waited[p]
    BY <1>1, <1>4 DEF TypeOK
<1>9. CASE w = 0
  <2>1. 2 * n * total \in Nat /\ w * v = 0
      BY <1>9
  <2> QED
      BY <1>5, <1>6, <1>7, <1>8, <2>1
<1>10. CASE w # 0
  <2>1. deployment.spray /\ w * ShareOf(Carrying)[p] <= credit[p] + Unit * n
      BY <1>4, <1>5, <1>8, <1>10 DEF WaitInv, Due
  <2>2. PICK x \in Int : x = credit[p] /\ x <= Unit * n
      BY <1>1, <1>4, <1>5, CreditBand DEF TypeOK
  <2>3. PICK k \in Nat : Unit = total * k /\ ShareOf(Carrying)[p] = k * v
    <3>1. Carrying # {}
        BY <1>3
    <3> QED
        BY <1>6, <1>7, <2>1, <3>1, SharesAreWhole
  <2>4. w * (k * v) <= 2 * (n * (total * k))
    <3>1. Unit * n = n * (total * k) /\ n * (total * k) \in Int /\ w * (k * v) \in Int
        BY <2>3
    <3> QED
        BY <2>1, <2>2, <2>3, <3>1
  <2>5. k >= 1
      BY <2>3, UnitAssumption
  <2>6. k * (w * v) <= k * (2 * n * total)
    <3>1. k * (w * v) = w * (k * v) /\ k * (2 * n * total) = 2 * (n * (total * k))
        OBVIOUS
    <3> QED
        BY <2>4, <3>1
  <2>7. w * v <= 2 * n * total
    <3>1. w * v \in Int /\ 2 * n * total \in Int
        OBVIOUS
    <3> QED
        BY <2>5, <2>6, <3>1, Cancels
  <2> QED
      BY <1>5, <1>6, <1>7, <1>8, <2>7
<1> QED
    BY <1>9, <1>10

-----------------------------------------------------------------------------
(* Duplication. *)

\* The copies go to the best legs.
LEMMA BestAreCopiedTo ==
    ASSUME TypeOK, WideMatchesLegs PROVE DuplicatesOnTheBest
<1>1. Placed
    BY DEF TypeOK, Placed
<1>2. Carrying \in SUBSET Registered /\ Carrying \in SUBSET Paths
    BY <1>1, CarryingLegs
<1>3. PICK C \in SUBSET Paths : C = Carrying
    BY <1>2
<1>4. IsFiniteSet(C) /\ Cardinality(C) \in Nat /\ Fanout \in Nat
  <2>1. IsFiniteSet(C)
      BY PathSets
  <2> QED
      BY <2>1, FS_CardinalityType, FanoutAssumption
<1>5. weight \in [Paths -> Int]
    BY DEF TypeOK
<1>6. PICK best \in Int : best = Min({Cardinality(C), Fanout}) /\ best <= Cardinality(C) /\ best <= Fanout
                          /\ best \in {Cardinality(C), Fanout}
  <2>1. Cardinality(C) \in Int /\ Fanout \in Int
      BY <1>4
  <2> QED
      BY <2>1, OutermostOfTwo
<1>7. CASE (wide /\ C = members) \/ Cardinality(C) <= Fanout
  <2>1. DuplicateTargets(C) = C
      BY <1>7 DEF DuplicateTargets
  <2>2. ~ wide => Cardinality(C) = best
      BY <1>4, <1>6, <1>7
  <2> QED
      BY <1>3, <1>6, <2>1, <2>2 DEF DuplicatesOnTheBest
<1>8. CASE ~ ((wide /\ C = members) \/ Cardinality(C) <= Fanout)
  <2>1. PICK o : o = MeritOrder(C, weight)
      OBVIOUS
  <2>2. Orders(o, C)
    <3>1. C \in SUBSET Registered
        BY <1>2, <1>3
    <3> QED
        BY <1>1, <1>5, <2>1, <3>1, MeritOrders
  <2>3. \A p, q \in C : <<q, p>> \in o <=> Ahead(q, p)
      BY <2>1 DEF MeritOrder, Ahead
  <2>4. \A p \in C : Cardinality({q \in C : Ahead(q, p)}) = RankOf(o, C, p)
    <3>1. ASSUME NEW p \in C PROVE Cardinality({q \in C : Ahead(q, p)}) = RankOf(o, C, p)
      <4>1. {q \in C : Ahead(q, p)} = {q \in C : <<q, p>> \in o}
          BY <2>3, <3>1
      <4> QED
          BY <4>1 DEF RankOf
    <3> QED
        BY <3>1
  <2>5. DuplicateTargets(C) = {p \in C : RankOf(o, C, p) < Fanout}
    <3>1. DuplicateTargets(C) = {p \in C : Cardinality({q \in C : Ahead(q, p)}) < Fanout}
        BY <1>8 DEF DuplicateTargets
    <3> QED
        BY <2>4, <3>1
  <2>6. Cardinality(DuplicateTargets(C)) = Fanout
    <3>1. Fanout \in 0 .. Cardinality(C)
        BY <1>4, <1>8
    <3> QED
        BY <1>4, <2>2, <2>5, <3>1, FirstRanks
  <2>7. best = Fanout
      BY <1>4, <1>6, <1>8
  <2>8. ASSUME NEW p \in DuplicateTargets(C), NEW q \in C \ DuplicateTargets(C)
        PROVE  weight[p] >= weight[q]
    <3>1. p \in C /\ q \in C /\ p # q /\ RankOf(o, C, p) < Fanout /\ ~ (RankOf(o, C, q) < Fanout)
        BY <2>5, <2>8
    <3>2. ~ Ahead(q, p)
      <4>1. SUFFICES ASSUME <<q, p>> \in o PROVE FALSE
          BY <2>3, <3>1
      <4>2. RankOf(o, C, q) < RankOf(o, C, p)
          BY <1>4, <2>2, <3>1, <4>1, RanksRise
      <4>3. RankOf(o, C, q) \in Int /\ RankOf(o, C, p) \in Int
          BY <1>4, <2>2, <3>1, RanksRise
      <4> QED
          BY <1>4, <3>1, <4>2, <4>3
    <3>3. weight[p] \in Int /\ weight[q] \in Int
        BY <1>5, <3>1
    <3> QED
        BY <3>2, <3>3 DEF Ahead
  <2>9. DuplicateTargets(C) \subseteq C
      BY <2>5
  <2> QED
      BY <1>3, <1>6, <2>6, <2>7, <2>8, <2>9 DEF DuplicatesOnTheBest
<1> QED
    BY <1>7, <1>8

\* A wide bond has counted fewer samples with a clean leg than it takes to narrow.
LEMMA CleanIsCounted ==
    ASSUME TypeOK, Evidence PROVE CleanLegNarrows
<1>1. Placed
    BY DEF TypeOK, Placed
<1>2. Carrying \in SUBSET Paths
    BY <1>1, CarryingLegs
<1>3. SUFFICES ASSUME wide, NEW p \in Carrying PROVE lossy[p] > -Sustained
    BY DEF CleanLegNarrows
<1>4. lossy[p] >= -low
    BY <1>3 DEF Evidence
<1>5. PICK x \in Int : x = lossy[p]
    BY <1>2 DEF TypeOK
<1>6. PICK l \in 0 .. Sustained - 1 : l = low
    BY DEF TypeOK
<1>7. Sustained \in Nat
    BY SustainedAssumption
<1> QED
    BY <1>4, <1>5, <1>6, <1>7

\* Only a sample widens, after Sustained of them, and each was of the same legs.
LEMMA WideningStep ==
    ASSUME DuplicateInv, [Next]_vars, ~ wide, wide'
    PROVE  \A p \in Carrying : lossy'[p] = Sustained
<1>1. TypeOK /\ Evidence
    BY DEF DuplicateInv, BaseInv
<1>2. Carrying \in SUBSET Paths
    BY <1>1, CarryingLegs DEF TypeOK, Placed
<1>3. UpdateDuplicateLoss
  <2>1. ~ SendSpray /\ ~ UNCHANGED vars
      BY DEF SendSpray, vars, dupVars
  <2>2. \A p \in Paths : ~ RemovePath(p)
      BY DEF RemovePath, ResetDuplicateLossIf
  <2>3. \A p \in Paths, w \in deployment.weights : ~ AddPath(p, w) /\ ~ SetWeight(p, w)
      BY DEF AddPath, SetWeight, ResetDuplicateLossIf
  <2>4. \A p \in Paths, h \in BOOLEAN : ~ SetHealthy(p, h)
      BY DEF SetHealthy, ResetDuplicateLossIf
  <2>5. \A p \in Paths, l \in Losses : ~ Measure(p, l)
      BY DEF Measure, dupVars
  <2> QED
      BY <2>1, <2>2, <2>3, <2>4, <2>5 DEF Next
<1>4. PICK k \in Nat : /\ k > 0 => k = high
                       /\ \E l \in {0, low} : StepNarrow(Carrying, k, l)
  <2>1. high \in Nat
      BY <1>1 DEF TypeOK
  <2>2. ~ StepWide(Carrying)
      BY DEF StepWide
  <2>3. StepNarrow(Carrying, 0, 0) \/ StepNarrow(Carrying, high, low)
      BY <1>3, <2>2 DEF UpdateDuplicateLoss
  <2> QED
      BY <2>1, <2>3
<1>5. AllLossy(Carrying) /\ ~ (k + 1 < Sustained)
  <2> HIDE DEF Carrying
  <2> QED
      BY <1>4, NarrowIs
<1>6. /\ \A p \in Carrying : loss[p] = "high"
      /\ \A p \in Carrying : loss[p] = "high" =>
             lossy'[p] >= 1 /\ (lossy'[p] = Sustained \/ lossy'[p] >= lossy[p] + 1)
      /\ lossy' \in [Paths -> -Sustained .. Sustained]
  <2>1. Sampled(Carrying)
      BY <1>3 DEF UpdateDuplicateLoss
  <2>2. AllLossy(Carrying)
      BY <1>5
  <2> HIDE DEF Carrying
  <2> QED
      BY <1>1, <1>2, <2>1, <2>2, SampledIs DEF AllLossy
<1>7. ASSUME NEW p \in Carrying PROVE lossy'[p] = Sustained
  <2>1. lossy'[p] >= 1 /\ (lossy'[p] = Sustained \/ lossy'[p] >= lossy[p] + 1)
      BY <1>6
  <2>2. k > 0 => lossy[p] >= k
      BY <1>1, <1>4 DEF Evidence
  <2>3. PICK x \in Int : x = lossy[p]
      BY <1>1, <1>2 DEF TypeOK
  <2>4. PICK y \in -Sustained .. Sustained : y = lossy'[p]
      BY <1>2, <1>6
  <2>5. Sustained \in Nat
      BY SustainedAssumption
  <2> QED
      BY <1>4, <1>5, <2>1, <2>2, <2>3, <2>4, <2>5
<1> QED
    BY <1>7

-----------------------------------------------------------------------------
(* The theorems. *)

\* Types: counters of samples below their limit, orders without repeats, whatever legs come
\* and go (every method of Scheduler).
THEOREM SchedulerAlwaysTyped == Spec => []TypeOK
<1>1. Init => BaseInv
    BY BaseInitInv
<1>2. BaseInv /\ [Next]_vars => BaseInv'
    BY BaseStepInv
<1>3. BaseInv => TypeOK
    BY DEF BaseInv
<1> QED
    BY <1>1, <1>2, <1>3, PTL DEF Spec

\* However legs join, leave, flap and change share, no leg's credit runs away, no leg that
\* has a share starves, and the wide state never outlives the legs that earned it (select,
\* add_path, remove_path, set_weight, set_healthy and update_duplicate_loss).  The
\* hypothesis is that a bond that sprays has proven a leg, the one under which the run
\* checks it; SchedulerBootstrap shows what happens without it.
THEOREM SchedulerStaysConsistent == Spec /\ []Proven => []SchedulerConsistent
<1> DEFINE I == CreditInv /\ WaitInv /\ DuplicateInv
<1>1. Init => I
    BY CreditInitInv, WaitInitInv, DuplicateInitInv
<1>2. I /\ Proven /\ [Next]_vars => I'
  <2>1. CreditInv => TypeOK /\ Spread(credit)
      BY DEF CreditInv, BaseInv
  <2> QED
      BY <2>1, CreditStepInv, WaitStepInv, DuplicateStepInv
<1>3. I /\ Proven => SchedulerConsistent
  <2>1. ASSUME I, Proven PROVE SchedulerConsistent
    <3>1. TypeOK /\ credit \in [Paths -> Int] /\ Spread(credit) /\ WideMatchesLegs
        BY <2>1 DEF CreditInv, DuplicateInv, BaseInv, TypeOK
    <3>2. CreditBounded
        BY <3>1, SpreadBounds DEF CreditBounded
    <3>3. WaitsByShare
        BY <2>1, WaitIsByShare DEF CreditInv
    <3> QED
        BY <3>1, <3>2, <3>3 DEF SchedulerConsistent
  <2> QED
      BY <2>1
<1> QED
    BY <1>1, <1>2, <1>3, PTL DEF Spec

\* The copies of a packet go to the legs with the largest shares, as many as there may be,
\* and a leg that reads clean long enough ends the wide state (_duplicate_targets and
\* _step_duplicate_loss).
THEOREM DuplicationIsSound == Spec => []DuplicatesWell
<1>1. Init => DuplicateInv
    BY DuplicateInitInv
<1>2. DuplicateInv /\ [Next]_vars => DuplicateInv'
    BY DuplicateStepInv
<1>3. DuplicateInv => DuplicatesWell
    BY BestAreCopiedTo, CleanIsCounted DEF DuplicateInv, BaseInv, DuplicatesWell
<1> QED
    BY <1>1, <1>2, <1>3, PTL DEF Spec

\* Duplication widens only after every leg that carries has read lossy in the last Sustained
\* samples, the set of legs unchanged all the while (update_duplicate_loss).
THEOREM WideningIsAlwaysEarned == Spec => WideningIsEarned
<1>1. Init => DuplicateInv
    BY DuplicateInitInv
<1>2. DuplicateInv /\ [Next]_vars => DuplicateInv'
    BY DuplicateStepInv
<1>3. DuplicateInv /\ [Next]_vars =>
          [~ wide /\ wide' => \A p \in Carrying : lossy'[p] = Sustained]_vars
    BY WideningStep
<1> QED
    BY <1>1, <1>2, <1>3, PTL DEF Spec, WideningIsEarned

=============================================================================
