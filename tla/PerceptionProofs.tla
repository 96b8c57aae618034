--------------------------- MODULE PerceptionProofs --------------------------
(***************************************************************************)
(* Proofs about Perception and the operators of ObstacleMap, for every     *)
(* grid, association distance, number of confirming scans and of scans a   *)
(* track outlives, for every set of places and speeds, and for any number  *)
(* of scans, poses and resets.                                             *)
(***************************************************************************)
EXTENDS Perception, WellFoundedInduction, TLAPS

-----------------------------------------------------------------------------
(* Least and greatest numbers, and recursion on numbers.                   *)

\* A set of numbers has a least one.
LEMMA LeastNumber ==
  ASSUME NEW T, T \subseteq Nat, T # {}
  PROVE  \E x \in T : \A y \in T : x <= y
<1> DEFINE R == OpToRel(<, Nat)
<1>1. IsWellFoundedOn(R, Nat)
  BY NatLessThanWellFounded
<1>2. \A x \in Nat, y \in Nat : <<y, x>> \in R <=> y < x
  BY DEF OpToRel
<1> HIDE DEF R
<1>3. PICK x \in T : \A y \in T : ~ (<<y, x>> \in R)
  BY <1>1, WFMin
<1>4. \A y \in T : ~ (y < x)
  BY <1>2, <1>3
<1> QED
  BY <1>4

\* Min is the least.
LEMMA MinIsLeast ==
  ASSUME NEW T, T \subseteq Nat, T # {}
  PROVE  Min(T) \in T /\ \A y \in T : Min(T) <= y
<1>1. \E x \in T : \A y \in T : x <= y
  BY LeastNumber
<1> QED
  BY <1>1 DEF Min

\* Max is the greatest of a set that is bounded.
LEMMA MaxIsGreatest ==
  ASSUME NEW T, NEW top \in Nat, T \subseteq 0 .. top, T # {}
  PROVE  Max(T) \in T /\ \A y \in T : y <= Max(T)
<1> DEFINE U == {x \in 0 .. top : top - x \in T}
<1>1. U \subseteq Nat /\ U # {}
  <2>1. PICK y \in T : TRUE
    OBVIOUS
  <2>2. top - y \in 0 .. top /\ top - (top - y) = y
    BY <2>1
  <2> QED
    BY <2>1, <2>2
<1>2. PICK x \in U : \A y \in U : x <= y
  <2> HIDE DEF U
  <2> QED
    BY <1>1, LeastNumber
<1>3. \A y \in T : top - y \in U /\ top - y \in Nat
  <2>1. \A y \in T : y \in 0 .. top /\ top - y \in 0 .. top /\ top - (top - y) = y
    OBVIOUS
  <2> QED
    BY <2>1
<1>4. top - x \in T /\ \A y \in T : y <= top - x
  BY <1>2, <1>3
<1>5. \E z \in T : \A y \in T : z >= y
  BY <1>4
<1> QED
  BY <1>5 DEF Max

\* What holds at zero and from each number to the next holds up to any length.
LEMMA UpTo ==
  ASSUME NEW T, NEW length \in Nat, 0 \in T,
         \A n \in 1 .. length : n - 1 \in T => n \in T
  PROVE  \A n \in 0 .. length : n \in T
<1> DEFINE U == {n \in 0 .. length : n \notin T}
<1> SUFFICES ASSUME U # {} PROVE FALSE
  OBVIOUS
<1>1. PICK x \in U : \A y \in U : x <= y
  <2>1. U \subseteq Nat
    OBVIOUS
  <2> HIDE DEF U
  <2> QED
    BY <2>1, LeastNumber
<1>2. x # 0 /\ x \in 0 .. length
  OBVIOUS
<1>3. x \in 1 .. length /\ x - 1 \in 0 .. length
  BY <1>2
<1>4. x - 1 \in T
  BY <1>1, <1>3
<1> QED
  BY <1>3, <1>4

\* A sequence of values in S, each a step from the one before.
IsChain(f, S, start, length, step) ==
  /\ f \in [0 .. length -> S]
  /\ f[0] = start
  /\ \A n \in 1 .. length : f[n] = step[n][f[n - 1]]

\* Steps on a set can be made one after another.
LEMMA StepsCompose ==
  ASSUME NEW S, NEW start \in S, NEW length \in Nat, NEW step,
         \A n \in 1 .. length : \A s \in S : step[n][s] \in S
  PROVE  \E f : IsChain(f, S, start, length, step)
<1> DEFINE Reaches(m) ==
             \E f \in [0 .. m -> S] :
               f[0] = start /\ \A n \in 1 .. m : f[n] = step[n][f[n - 1]]
           T == {m \in Nat : Reaches(m)}
<1>1. 0 \in T
  <2> DEFINE f == [n \in 0 .. 0 |-> start]
  <2>1. f \in [0 .. 0 -> S] /\ f[0] = start
    OBVIOUS
  <2>2. \A n \in 1 .. 0 : f[n] = step[n][f[n - 1]]
    OBVIOUS
  <2> QED
    BY <2>1, <2>2
<1>2. ASSUME NEW m \in 1 .. length, m - 1 \in T PROVE m \in T
  <2>1. PICK f \in [0 .. m - 1 -> S] :
               f[0] = start /\ \A n \in 1 .. m - 1 : f[n] = step[n][f[n - 1]]
    BY <1>2
  <2> DEFINE g == [n \in 0 .. m |-> IF n = m THEN step[m][f[m - 1]] ELSE f[n]]
  <2>2. f[m - 1] \in S
    BY <1>2
  <2>3. g \in [0 .. m -> S]
    <3>1. step[m][f[m - 1]] \in S
      BY <2>2
    <3>2. \A n \in 0 .. m : n = m \/ n \in 0 .. m - 1
      BY <1>2
    <3> QED
      BY <3>1, <3>2
  <2>4. g[0] = start
    BY <1>2, <2>1
  <2>5. ASSUME NEW n \in 1 .. m PROVE g[n] = step[n][g[n - 1]]
    <3>1. n \in 0 .. m /\ n - 1 \in 0 .. m /\ n - 1 # m
      BY <1>2
    <3>2. g[n - 1] = f[n - 1]
      BY <3>1
    <3>3. CASE n = m
      BY <3>1, <3>2, <3>3
    <3>4. CASE n # m
      <4>1. n \in 1 .. m - 1
        BY <1>2, <3>4
      <4>2. g[n] = f[n]
        BY <3>1, <3>4
      <4> QED
        BY <2>1, <3>2, <4>1, <4>2
    <3> QED
      BY <3>3, <3>4
  <2> HIDE DEF g
  <2>6. m \in Nat
    BY <1>2
  <2>7. Reaches(m)
    BY <2>3, <2>4, <2>5
  <2> QED
    BY <2>6, <2>7
<1> HIDE DEF T
<1>3. length \in 0 .. length
  OBVIOUS
<1>4. length \in T
  BY <1>1, <1>2, <1>3, UpTo
<1> QED
  BY <1>4 DEF T, IsChain

\* The entries that are there are those of the sequence, in order and no others.
LEMMA PresentUnfolds ==
  ASSUME NEW S, NEW entries \in Seq(S \cup {None})
  PROVE  /\ Present(entries) \in Seq(S)
         /\ \A j \in 1 .. Len(Present(entries)) :
              \E i \in 1 .. Len(entries) :
                entries[i] # None /\ Present(entries)[j] = entries[i]
         /\ \A i \in 1 .. Len(entries) :
              entries[i] # None =>
                \E j \in 1 .. Len(Present(entries)) : Present(entries)[j] = entries[i]
<1> DEFINE length == Len(entries)
           Unfolded(f) ==
             [i \in 0 .. length |->
                IF i = 0 THEN <<>>
                ELSE IF entries[i] = None THEN f[i - 1] ELSE Append(f[i - 1], entries[i])]
           upto == CHOOSE f : f = Unfolded(f)
<1>1. Present(entries) = upto[length]
  BY DEF Present
<1>2. length \in Nat /\ \A i \in 1 .. length : entries[i] # None => entries[i] \in S
  OBVIOUS
<1> DEFINE W == Seq(S)
           start == <<>>
           step == [i \in 1 .. length |-> [w \in W |->
                     IF entries[i] = None THEN w ELSE Append(w, entries[i])]]
<1>3. \A i \in 1 .. length : \A w \in W :
        /\ step[i][w] = IF entries[i] = None THEN w ELSE Append(w, entries[i])
        /\ step[i][w] \in W
  BY <1>2
<1>4. start \in W
  OBVIOUS
<1> HIDE DEF step, W, start, length
<1>5. PICK f : IsChain(f, W, start, length, step)
  BY <1>2, <1>3, <1>4, StepsCompose
<1>6. \E g : g = Unfolded(g)
  <2>1. f = [i \in 0 .. length |-> f[i]]
    BY <1>5 DEF IsChain
  <2>2. \A i \in 0 .. length :
          f[i] = IF i = 0 THEN <<>>
                 ELSE IF entries[i] = None THEN f[i - 1] ELSE Append(f[i - 1], entries[i])
    <3> SUFFICES ASSUME NEW i \in 0 .. length
                 PROVE  f[i] = IF i = 0 THEN <<>>
                               ELSE IF entries[i] = None THEN f[i - 1]
                                    ELSE Append(f[i - 1], entries[i])
      OBVIOUS
    <3>1. CASE i = 0
      BY <1>5, <3>1 DEF IsChain, start
    <3>2. CASE i # 0
      <4>1. i \in 1 .. length /\ i - 1 \in 0 .. length
        BY <1>2, <3>2
      <4>2. f[i - 1] \in W /\ f[i] = step[i][f[i - 1]]
        BY <1>5, <4>1 DEF IsChain
      <4> QED
        BY <1>3, <3>2, <4>1, <4>2
    <3> QED
      BY <3>1, <3>2
  <2> QED
    BY <2>1, <2>2
<1>7. upto = Unfolded(upto)
  BY <1>6
<1> HIDE DEF upto
<1>8. upto[0] = <<>>
  BY <1>2, <1>7
<1>9. \A i \in 1 .. length :
        upto[i] = IF entries[i] = None THEN upto[i - 1] ELSE Append(upto[i - 1], entries[i])
  <2>1. \A i \in 1 .. length : i \in 0 .. length /\ i # 0
    BY <1>2
  <2> QED
    BY <1>7, <2>1
<1> DEFINE Good(n) ==
             /\ upto[n] \in Seq(S)
             /\ \A j \in 1 .. Len(upto[n]) :
                  \E i \in 1 .. n : entries[i] # None /\ upto[n][j] = entries[i]
             /\ \A i \in 1 .. n :
                  entries[i] # None => \E j \in 1 .. Len(upto[n]) : upto[n][j] = entries[i]
           T == {n \in 0 .. length : Good(n)}
<1>10. 0 \in T
  <2>1. upto[0] \in Seq(S) /\ Len(upto[0]) = 0
    BY <1>8
  <2>2. 1 .. Len(upto[0]) = {} /\ 1 .. 0 = {} /\ 0 \in 0 .. length
    BY <1>2, <2>1
  <2> QED
    BY <2>1, <2>2
<1>11. ASSUME NEW n \in 1 .. length, n - 1 \in T PROVE n \in T
  <2>1. Good(n - 1) /\ n \in Nat /\ n \in 0 .. length
    BY <1>2, <1>11
  <2>2. CASE entries[n] = None
    <3>1. upto[n] = upto[n - 1]
      BY <1>9, <2>2
    <3>2. /\ \A i \in 1 .. n : i = n \/ i \in 1 .. n - 1
          /\ \A i \in 1 .. n - 1 : i \in 1 .. n
      BY <2>1
    <3>3. \A j \in 1 .. Len(upto[n]) :
            \E i \in 1 .. n : entries[i] # None /\ upto[n][j] = entries[i]
      BY <2>1, <3>1, <3>2
    <3>4. \A i \in 1 .. n :
            entries[i] # None => \E j \in 1 .. Len(upto[n]) : upto[n][j] = entries[i]
      BY <2>1, <2>2, <3>1, <3>2
    <3>5. Good(n)
      BY <2>1, <3>1, <3>3, <3>4
    <3> QED
      BY <2>1, <3>5
  <2>3. CASE entries[n] # None
    <3> DEFINE before == upto[n - 1]
               after == upto[n]
    <3>1. after = Append(before, entries[n]) /\ entries[n] \in S /\ before \in Seq(S)
      BY <1>2, <1>9, <2>1, <2>3
    <3>2. /\ \A j \in 1 .. Len(before) :
                \E i \in 1 .. n - 1 : entries[i] # None /\ before[j] = entries[i]
          /\ \A i \in 1 .. n - 1 :
                entries[i] # None => \E j \in 1 .. Len(before) : before[j] = entries[i]
      BY <2>1
    <3> HIDE DEF before, after
    <3>3. /\ after \in Seq(S) /\ Len(after) = Len(before) + 1 /\ Len(before) \in Nat
          /\ \A j \in 1 .. Len(after) :
               after[j] = IF j = Len(after) THEN entries[n] ELSE before[j]
      BY <3>1
    <3>4. \A j \in 1 .. Len(after) : j = Len(after) \/ (j # Len(after) /\ j \in 1 .. Len(before))
      BY <3>3
    <3>5. \A i \in 1 .. n - 1 : i \in 1 .. n
      BY <2>1
    <3>6. ASSUME NEW j \in 1 .. Len(after)
          PROVE  \E i \in 1 .. n : entries[i] # None /\ after[j] = entries[i]
      <4>1. CASE j = Len(after)
        BY <2>1, <2>3, <3>3, <4>1
      <4>2. CASE j # Len(after)
        BY <3>2, <3>3, <3>4, <3>5, <4>2
      <4> QED
        BY <4>1, <4>2
    <3>7. ASSUME NEW i \in 1 .. n, entries[i] # None
          PROVE  \E j \in 1 .. Len(after) : after[j] = entries[i]
      <4>1. CASE i = n
        <5>1. Len(after) \in 1 .. Len(after)
          BY <3>3
        <5> QED
          BY <3>3, <4>1, <5>1
      <4>2. CASE i # n
        <5>1. i \in 1 .. n - 1
          BY <2>1, <4>2
        <5>2. PICK j \in 1 .. Len(before) : before[j] = entries[i]
          BY <3>2, <3>7, <5>1
        <5>3. j \in 1 .. Len(after) /\ j # Len(after)
          BY <3>3, <5>2
        <5> QED
          BY <3>3, <5>2, <5>3
      <4> QED
        BY <4>1, <4>2
    <3>8. Good(n)
      BY <3>3, <3>6, <3>7 DEF after
    <3> QED
      BY <2>1, <3>8
  <2> QED
    BY <2>2, <2>3
<1> HIDE DEF T
<1>12. length \in 0 .. length
  BY <1>2
<1>13. length \in T
  BY <1>2, <1>10, <1>11, <1>12, UpTo
<1> QED
  BY <1>1, <1>13 DEF T, length

-----------------------------------------------------------------------------
(* Cells, distances and the search for a track.                            *)

Points == Int \X Int
Tracks == [point : Points, hits : Nat, missed : Nat, confirmed : BOOLEAN]

\* Tracks during an update, and those of them matched.
Matchings == [tracks : Seq(Tracks), matched : SUBSET Nat]

\* Multiplication keeps the order.
LEMMA TimesIsMonotone ==
  ASSUME NEW a \in Nat, NEW b \in Nat, NEW c \in Nat, a <= b
  PROVE  a * c <= b * c
<1>1. PICK d \in Nat : b = a + d
  <2>1. b - a \in Nat /\ b = a + (b - a)
    OBVIOUS
  <2> QED
    BY <2>1
<1>2. (a + d) * c = a * c + d * c /\ d * c \in Nat /\ a * c \in Nat
  OBVIOUS
<1> QED
  BY <1>1, <1>2

\* A number whose square is no larger than another's is no larger.
LEMMA RootIsMonotone ==
  ASSUME NEW a \in Int, NEW b \in Nat, a * a <= b * b
  PROVE  a <= b /\ -b <= a
<1>1. a <= b
  <2> SUFFICES ASSUME a > b PROVE FALSE
    OBVIOUS
  <2>1. a \in Nat /\ b + 1 <= a
    OBVIOUS
  <2>2. (b + 1) * (b + 1) <= a * (b + 1)
    BY <2>1, TimesIsMonotone
  <2>3. (b + 1) * a <= a * a
    BY <2>1, TimesIsMonotone
  <2>4. (b + 1) * (b + 1) = b * b + 2 * b + 1 /\ b * b \in Nat /\ (b + 1) * a = a * (b + 1)
    OBVIOUS
  <2> QED
    BY <2>2, <2>3, <2>4
<1>2. -b <= a
  <2> SUFFICES ASSUME a < -b PROVE FALSE
    OBVIOUS
  <2> DEFINE c == -a
  <2>1. c \in Nat /\ b + 1 <= c /\ c * c = a * a
    OBVIOUS
  <2> HIDE DEF c
  <2>2. (b + 1) * (b + 1) <= c * (b + 1)
    BY <2>1, TimesIsMonotone
  <2>3. (b + 1) * c <= c * c
    BY <2>1, TimesIsMonotone
  <2>4. (b + 1) * (b + 1) = b * b + 2 * b + 1 /\ b * b \in Nat /\ (b + 1) * c = c * (b + 1)
    OBVIOUS
  <2> QED
    BY <2>1, <2>2, <2>3, <2>4
<1> QED
  BY <1>1, <1>2

\* Squares are not negative.
LEMMA SquareIsNat == ASSUME NEW a \in Int PROVE a * a \in Nat
<1>1. CASE a >= 0
  <2>1. a \in Nat
    BY <1>1
  <2> QED
    BY <2>1
<1>2. CASE a < 0
  <2>1. -a \in Nat /\ (-a) * (-a) = a * a
    BY <1>2
  <2> QED
    BY <2>1
<1> QED
  BY <1>1, <1>2

\* A squared distance is a number and the same from both ends.
LEMMA SquaredType ==
  ASSUME NEW p \in Points, NEW q \in Points
  PROVE  Squared(p, q) \in Nat /\ Squared(p, q) = Squared(q, p)
<1> DEFINE x == p[1] - q[1]
           y == p[2] - q[2]
<1>1. p[1] \in Int /\ p[2] \in Int /\ q[1] \in Int /\ q[2] \in Int
  BY DEF Points
<1>2. x \in Int /\ y \in Int /\ q[1] - p[1] = -x /\ q[2] - p[2] = -y
  BY <1>1
<1>3. Squared(p, q) = x * x + y * y /\ Squared(q, p) = (-x) * (-x) + (-y) * (-y)
  BY <1>2 DEF Squared
<1> HIDE DEF x, y
<1>4. x * x \in Nat /\ y * y \in Nat /\ (-x) * (-x) = x * x /\ (-y) * (-y) = y * y
  BY <1>2, SquareIsNat
<1> QED
  BY <1>3, <1>4

\* Numbers no further apart than the divisor have quotients at most one apart.
LEMMA QuotientsAreNear ==
  ASSUME NEW a \in Int, NEW b \in Int, NEW d \in Nat \ {0}, a - b <= d, b - a <= d
  PROVE  (a \div d) - (b \div d) \in -1 .. 1
<1> DEFINE m == a \div d
           n == b \div d
           r == a % d
           u == b % d
<1>1. /\ m \in Int /\ r \in 0 .. d - 1 /\ a = d * m + r
      /\ n \in Int /\ u \in 0 .. d - 1 /\ b = d * n + u
  OBVIOUS
<1> HIDE DEF m, n, r, u
<1>2. ~ (m >= n + 2)
  <2> SUFFICES ASSUME m >= n + 2 PROVE FALSE
    OBVIOUS
  <2> DEFINE e == m - n - 2
  <2>1. e \in Nat /\ m = n + 2 + e
    BY <1>1
  <2> HIDE DEF e
  <2>2. d * (n + 2 + e) = d * n + 2 * d + d * e /\ d * e \in Nat
    BY <1>1, <2>1
  <2> QED
    BY <1>1, <2>1, <2>2
<1>3. ~ (n >= m + 2)
  <2> SUFFICES ASSUME n >= m + 2 PROVE FALSE
    OBVIOUS
  <2> DEFINE e == n - m - 2
  <2>1. e \in Nat /\ n = m + 2 + e
    BY <1>1
  <2> HIDE DEF e
  <2>2. d * (m + 2 + e) = d * m + 2 * d + d * e /\ d * e \in Nat
    BY <1>1, <2>1
  <2> QED
    BY <1>1, <2>1, <2>2
<1>4. m - n \in -1 .. 1
  BY <1>1, <1>2, <1>3
<1> QED
  BY <1>4 DEF m, n

\* What is within the association distance is in one of the nine cells.
LEMMA NearIsNeighbour ==
  ASSUME NEW p \in Points, NEW q \in Points,
         Squared(p, q) <= AssociationDistance * AssociationDistance
  PROVE  Neighbour(ToCell(q), ToCell(p))
<1> DEFINE x == p[1] - q[1]
           y == p[2] - q[2]
           d == AssociationDistance
<1>1. p[1] \in Int /\ p[2] \in Int /\ q[1] \in Int /\ q[2] \in Int
  BY DEF Points
<1>2. x \in Int /\ y \in Int /\ d \in Nat \ {0} /\ x * x + y * y <= d * d
  BY <1>1, ObstacleConfigAssumption DEF Squared
<1>3. x = p[1] - q[1] /\ y = p[2] - q[2]
  OBVIOUS
<1> HIDE DEF x, y, d
<1>4. x * x \in Nat /\ y * y \in Nat
  BY <1>2, SquareIsNat
<1>5. x * x <= d * d /\ y * y <= d * d
  BY <1>2, <1>4
<1>6. x <= d /\ -d <= x /\ y <= d /\ -d <= y
  BY <1>2, <1>5, RootIsMonotone
<1>7. /\ p[1] - q[1] <= d /\ q[1] - p[1] <= d
      /\ p[2] - q[2] <= d /\ q[2] - p[2] <= d
  BY <1>1, <1>2, <1>3, <1>6
<1>8. /\ (p[1] \div d) - (q[1] \div d) \in -1 .. 1
      /\ (p[2] \div d) - (q[2] \div d) \in -1 .. 1
  BY <1>1, <1>2, <1>7, QuotientsAreNear
<1> QED
  BY <1>8 DEF Neighbour, ToCell, d

\* A cell is a pair of numbers.
LEMMA CellType == ASSUME NEW p \in Points PROVE ToCell(p) \in Points
<1>1. p[1] \in Int /\ p[2] \in Int /\ AssociationDistance \in Nat \ {0}
  BY ObstacleConfigAssumption DEF Points
<1>2. p[1] \div AssociationDistance \in Int /\ p[2] \div AssociationDistance \in Int
  BY <1>1
<1> QED
  BY <1>2 DEF ToCell, Points

\* Among some there is one that a number puts first.
LEMMA LeastBy ==
  ASSUME NEW C, C # {}, NEW f, \A i \in C : f[i] \in Nat
  PROVE  \E i \in C : \A j \in C : f[i] <= f[j]
<1> DEFINE T == {f[i] : i \in C}
<1>1. T \subseteq Nat /\ T # {}
  OBVIOUS
<1>2. PICK x \in T : \A y \in T : x <= y
  <2> HIDE DEF T
  <2> QED
    BY <1>1, LeastNumber
<1>3. PICK i \in C : f[i] = x
  OBVIOUS
<1>4. \A j \in C : f[j] \in T
  OBVIOUS
<1> QED
  BY <1>2, <1>3, <1>4

\* The search comes to a result among the candidates, for there is a nearest one
\* and of those a first.
LEMMA BestIsCandidate ==
  ASSUME NEW tracks_ \in Seq(Tracks), NEW index, NEW observation \in Points,
         NEW candidates, candidates # {}, candidates \subseteq DOMAIN tracks_,
         \A i \in candidates : index[i] \in Points /\ Neighbour(ToCell(observation), index[i])
  PROVE  Best(tracks_, index, observation, candidates) \in candidates
<1> DEFINE Distance(i) == Squared(tracks_[i].point, observation)
           Before(i, j) ==
             \/ Distance(i) < Distance(j)
             \/ Distance(i) = Distance(j) /\ CellLess(index[i], index[j])
             \/ Distance(i) = Distance(j) /\ index[i] = index[j] /\ i < j
           cell == ToCell(observation)
           distance == [i \in candidates |-> Distance(i)]
           row == [i \in candidates |-> index[i][2] - cell[2] + 1]
           column == [i \in candidates |-> index[i][1] - cell[1] + 1]
           number == [i \in candidates |-> i]
<1>1. \A i \in candidates : i \in Nat /\ Distance(i) \in Nat
  <2> SUFFICES ASSUME NEW i \in candidates PROVE i \in Nat /\ Distance(i) \in Nat
    OBVIOUS
  <2>1. i \in 1 .. Len(tracks_) /\ tracks_[i] \in Tracks
    OBVIOUS
  <2>2. tracks_[i].point \in Points
    BY <2>1 DEF Tracks
  <2> QED
    BY <2>1, <2>2, SquaredType
<1>2. cell[1] \in Int /\ cell[2] \in Int
  BY CellType DEF Points
<1>3. \A i \in candidates :
        /\ index[i][1] \in Int /\ index[i][2] \in Int /\ index[i] = <<index[i][1], index[i][2]>>
        /\ index[i][1] - cell[1] + 1 \in Nat /\ index[i][2] - cell[2] + 1 \in Nat
  <2> SUFFICES ASSUME NEW i \in candidates
               PROVE  /\ index[i][1] \in Int /\ index[i][2] \in Int
                      /\ index[i] = <<index[i][1], index[i][2]>>
                      /\ index[i][1] - cell[1] + 1 \in Nat /\ index[i][2] - cell[2] + 1 \in Nat
    OBVIOUS
  <2>1. index[i] \in Points /\ Neighbour(cell, index[i])
    OBVIOUS
  <2>2. index[i][1] \in Int /\ index[i][2] \in Int /\ index[i] = <<index[i][1], index[i][2]>>
    BY <2>1 DEF Points
  <2>3. index[i][1] - cell[1] \in -1 .. 1 /\ index[i][2] - cell[2] \in -1 .. 1
    BY <2>1 DEF Neighbour
  <2> HIDE DEF cell
  <2> QED
    BY <1>2, <2>2, <2>3
<1>4. \A i \in candidates :
        /\ distance[i] = Distance(i) /\ number[i] = i
        /\ row[i] = index[i][2] - cell[2] + 1 /\ column[i] = index[i][1] - cell[1] + 1
        /\ distance[i] \in Nat /\ row[i] \in Nat /\ column[i] \in Nat /\ number[i] \in Nat
  BY <1>1, <1>3
<1> HIDE DEF distance, row, column, number, cell
<1>4a. ASSUME NEW i \in candidates, NEW j \in candidates
       PROVE  /\ row[i] < row[j] => index[i][2] < index[j][2]
              /\ row[i] = row[j] => index[i][2] = index[j][2]
              /\ column[i] < column[j] => index[i][1] < index[j][1]
              /\ column[i] = column[j] => index[i][1] = index[j][1]
  <2> DEFINE x == cell[1]
             y == cell[2]
             u == index[i][1]
             v == index[i][2]
             w == index[j][1]
             z == index[j][2]
  <2>1. x \in Int /\ y \in Int /\ u \in Int /\ v \in Int /\ w \in Int /\ z \in Int
    BY <1>2, <1>3
  <2>2. /\ row[i] = v - y + 1 /\ row[j] = z - y + 1
        /\ column[i] = u - x + 1 /\ column[j] = w - x + 1
    BY <1>4
  <2> HIDE DEF x, y, u, v, w, z
  <2>3. /\ row[i] < row[j] => v < z
        /\ row[i] = row[j] => v = z
        /\ column[i] < column[j] => u < w
        /\ column[i] = column[j] => u = w
    BY <2>1, <2>2
  <2> QED
    BY <2>3 DEF u, v, w, z
<1> DEFINE C1 == {i \in candidates : \A j \in candidates : distance[i] <= distance[j]}
           C2 == {i \in C1 : \A j \in C1 : row[i] <= row[j]}
           C3 == {i \in C2 : \A j \in C2 : column[i] <= column[j]}
<1>5. C1 # {} /\ C1 \subseteq candidates
  <2>1. \E i \in candidates : \A j \in candidates : distance[i] <= distance[j]
    BY <1>4, LeastBy
  <2> QED
    BY <2>1
<1>6. \A i \in C1, j \in candidates :
        Distance(i) < Distance(j) \/ (Distance(i) = Distance(j) /\ j \in C1)
  <2> SUFFICES ASSUME NEW i \in C1, NEW j \in candidates, ~ (distance[i] < distance[j])
               PROVE  distance[i] = distance[j] /\ j \in C1
    BY <1>4
  <2>1. i \in candidates /\ distance[i] <= distance[j]
    OBVIOUS
  <2>2. distance[i] = distance[j]
    BY <1>4, <2>1
  <2> QED
    BY <2>2
<1> HIDE DEF C1
<1>7. C2 # {} /\ C2 \subseteq C1
  <2>1. \A i \in C1 : row[i] \in Nat
    BY <1>4, <1>5
  <2>2. \E i \in C1 : \A j \in C1 : row[i] <= row[j]
    BY <1>5, <2>1, LeastBy
  <2> QED
    BY <2>2
<1>8. \A i \in C2, j \in C1 : row[i] < row[j] \/ (row[i] = row[j] /\ j \in C2)
  <2> SUFFICES ASSUME NEW i \in C2, NEW j \in C1, ~ (row[i] < row[j])
               PROVE  row[i] = row[j] /\ j \in C2
    OBVIOUS
  <2>1. i \in candidates /\ j \in candidates /\ row[i] <= row[j]
    BY <1>5
  <2>2. row[i] = row[j]
    BY <1>4, <2>1
  <2> QED
    BY <2>2
<1> HIDE DEF C2
<1>9. C3 # {} /\ C3 \subseteq C2
  <2>1. \A i \in C2 : column[i] \in Nat
    BY <1>4, <1>5, <1>7
  <2>2. \E i \in C2 : \A j \in C2 : column[i] <= column[j]
    BY <1>7, <2>1, LeastBy
  <2> QED
    BY <2>2
<1>10. \A i \in C3, j \in C2 : column[i] < column[j] \/ (column[i] = column[j] /\ j \in C3)
  <2> SUFFICES ASSUME NEW i \in C3, NEW j \in C2, ~ (column[i] < column[j])
               PROVE  column[i] = column[j] /\ j \in C3
    OBVIOUS
  <2>1. i \in candidates /\ j \in candidates /\ column[i] <= column[j]
    BY <1>5, <1>7
  <2>2. column[i] = column[j]
    BY <1>4, <2>1
  <2> QED
    BY <2>2
<1> HIDE DEF C3
<1>11. PICK i \in C3 : \A j \in C3 : i <= j
  <2>1. C3 \subseteq Nat
    BY <1>1, <1>5, <1>7, <1>9
  <2> QED
    BY <1>9, <2>1, LeastNumber
<1>12. i \in candidates /\ i \in C1 /\ i \in C2
  BY <1>5, <1>7, <1>9
<1>13. ASSUME NEW j \in candidates \ {i} PROVE Before(i, j)
  <2>1. CASE Distance(i) < Distance(j)
    BY <2>1
  <2>2. CASE Distance(i) = Distance(j) /\ j \in C1
    <3>1. CASE row[i] < row[j]
      <4>1. index[i][2] < index[j][2]
        BY <1>4a, <1>12, <3>1
      <4> QED
        BY <2>2, <4>1 DEF CellLess
    <3>2. CASE row[i] = row[j] /\ j \in C2
      <4>1. index[i][2] = index[j][2]
        BY <1>4a, <1>12, <3>2
      <4>2. CASE column[i] < column[j]
        <5>1. index[i][1] < index[j][1]
          BY <1>4a, <1>12, <4>2
        <5> QED
          BY <2>2, <4>1, <5>1 DEF CellLess
      <4>3. CASE column[i] = column[j] /\ j \in C3
        <5>1. index[i][1] = index[j][1]
          BY <1>4a, <1>12, <4>3
        <5>2. index[i] = index[j]
          BY <1>3, <1>12, <4>1, <5>1
        <5>3. i < j
          BY <1>1, <1>11, <1>12, <4>3
        <5> QED
          BY <2>2, <5>2, <5>3
      <4> QED
        BY <1>10, <3>2, <4>2, <4>3
    <3> QED
      BY <1>8, <1>12, <2>2, <3>1, <3>2
  <2> QED
    BY <1>6, <1>12, <2>1, <2>2
<1>14. \E x \in candidates : \A j \in candidates \ {x} : Before(x, j)
  BY <1>12, <1>13
<1> QED
  BY <1>14 DEF Best

-----------------------------------------------------------------------------
(* The observations of a scan, one after another.                          *)

\* The cells of the tracks are pairs of numbers.
LEMMA IndexType ==
  ASSUME NEW old \in Seq(Tracks)
  PROVE  /\ DOMAIN SpatialIndex(old) = 1 .. Len(old)
         /\ \A i \in 1 .. Len(old) :
              /\ old[i].point \in Points
              /\ SpatialIndex(old)[i] = ToCell(old[i].point)
              /\ SpatialIndex(old)[i] \in Points
<1>1. DOMAIN old = 1 .. Len(old) /\ \A i \in 1 .. Len(old) : old[i] \in Tracks
  OBVIOUS
<1>2. \A i \in 1 .. Len(old) : old[i].point \in Points
  BY <1>1 DEF Tracks
<1>3. \A i \in 1 .. Len(old) : ToCell(old[i].point) \in Points
  BY <1>2, CellType
<1> QED
  BY <1>1, <1>2, <1>3 DEF SpatialIndex

\* New and hit tracks are tracks at the observation.
LEMMA HitType ==
  ASSUME NEW observation \in Points, NEW track \in Tracks
  PROVE  NewTrack(observation) \in Tracks /\ Hit(track, observation) \in Tracks
<1>1. ConfirmationUpdates \in Nat
  BY ObstacleConfigAssumption
<1>2. track.hits \in Nat /\ track.confirmed \in BOOLEAN
  BY DEF Tracks
<1>3. NewTrack(observation) \in Tracks
  BY <1>1 DEF NewTrack, Tracks
<1>4. Hit(track, observation) \in Tracks
  BY <1>1, <1>2 DEF Hit, Tracks
<1> QED
  BY <1>3, <1>4

\* What an observation does: it adds a track, or it moves one that is within the
\* association distance and was not matched before.
LEMMA MatchUnfolds ==
  ASSUME NEW old \in Seq(Tracks), NEW before \in Matchings, NEW observation \in Points
  PROVE  LET after == MatchByIndex(before, SpatialIndex(old), observation)
             count == Len(before.tracks)
         IN  \/ /\ after.tracks = Append(before.tracks, NewTrack(observation))
                /\ after.matched = before.matched \cup {count + 1}
             \/ \E i \in (1 .. count) \ before.matched :
                  /\ Squared(before.tracks[i].point, observation)
                       <= AssociationDistance * AssociationDistance
                  /\ after.tracks = [before.tracks EXCEPT ![i] = Hit(@, observation)]
                  /\ after.matched = before.matched \cup {i}
<1> DEFINE index == SpatialIndex(old)
           candidates == Candidates(before.tracks, index, before.matched, observation)
           best == Best(before.tracks, index, observation, candidates)
<1>1. before.tracks \in Seq(Tracks)
  BY DEF Matchings
<1>2. \A i \in candidates :
        /\ i \in DOMAIN before.tracks \ before.matched /\ i \in DOMAIN index
        /\ Squared(before.tracks[i].point, observation)
             <= AssociationDistance * AssociationDistance
        /\ Neighbour(ToCell(observation), index[i])
  BY DEF Candidates, Associable
<1>3. CASE candidates = {}
  BY <1>3 DEF MatchByIndex, Match
<1>4. CASE candidates # {}
  <2>1. \A i \in candidates : index[i] \in Points
    BY <1>2, IndexType
  <2>2. candidates \subseteq DOMAIN before.tracks
    BY <1>2
  <2>3. best \in candidates
    <3> HIDE DEF index, candidates
    <3> QED
      BY <1>1, <1>2, <1>4, <2>1, <2>2, BestIsCandidate
  <2>4. MatchByIndex(before, index, observation) =
          [tracks |-> [before.tracks EXCEPT ![best] = Hit(@, observation)],
           matched |-> before.matched \cup {best}]
    BY <1>4 DEF MatchByIndex, Match
  <2>5. DOMAIN before.tracks = 1 .. Len(before.tracks)
    BY <1>1
  <2> HIDE DEF best, candidates, index
  <2>6. best \in (1 .. Len(before.tracks)) \ before.matched
    BY <1>2, <2>3, <2>5
  <2>7. Squared(before.tracks[best].point, observation)
          <= AssociationDistance * AssociationDistance
    BY <1>2, <2>3
  <2> DEFINE after == MatchByIndex(before, index, observation)
  <2>8. /\ after.tracks = [before.tracks EXCEPT ![best] = Hit(@, observation)]
        /\ after.matched = before.matched \cup {best}
    BY <2>4
  <2> HIDE DEF after
  <2> QED
    BY <2>6, <2>7, <2>8 DEF after, index
<1> QED
  BY <1>3, <1>4

\* The tracks stay tracks.
LEMMA MatchType ==
  ASSUME NEW old \in Seq(Tracks), NEW before \in Matchings, NEW observation \in Points
  PROVE  MatchByIndex(before, SpatialIndex(old), observation) \in Matchings
<1> DEFINE after == MatchByIndex(before, SpatialIndex(old), observation)
           count == Len(before.tracks)
<1>1. before.tracks \in Seq(Tracks) /\ before.matched \in SUBSET Nat
  BY DEF Matchings
<1>2. after = [tracks |-> after.tracks, matched |-> after.matched]
  BY DEF MatchByIndex, Match
<1>3. /\ NewTrack(observation) \in Tracks
      /\ \A track \in Tracks : Hit(track, observation) \in Tracks
  <2>1. \A track \in Tracks : NewTrack(observation) \in Tracks /\ Hit(track, observation) \in Tracks
    BY HitType
  <2>2. [point |-> observation, hits |-> 0, missed |-> 0, confirmed |-> FALSE] \in Tracks
    BY DEF Tracks
  <2> QED
    BY <2>1, <2>2
<1>4. \/ /\ after.tracks = Append(before.tracks, NewTrack(observation))
         /\ after.matched = before.matched \cup {count + 1}
      \/ \E i \in (1 .. count) \ before.matched :
           /\ after.tracks = [before.tracks EXCEPT ![i] = Hit(@, observation)]
           /\ after.matched = before.matched \cup {i}
  BY MatchUnfolds
<1> HIDE DEF after
<1>5. after.tracks \in Seq(Tracks) /\ after.matched \in SUBSET Nat
  <2>1. CASE /\ after.tracks = Append(before.tracks, NewTrack(observation))
             /\ after.matched = before.matched \cup {count + 1}
    BY <1>1, <1>3, <2>1
  <2>2. ASSUME NEW i \in 1 .. count,
               after.tracks = [before.tracks EXCEPT ![i] = Hit(@, observation)],
               after.matched = before.matched \cup {i}
        PROVE  after.tracks \in Seq(Tracks) /\ after.matched \in SUBSET Nat
    <3>1. before.tracks[i] \in Tracks
      BY <1>1
    <3>2. Hit(before.tracks[i], observation) \in Tracks
      BY <1>3, <3>1
    <3> QED
      BY <1>1, <2>2, <3>2
  <2> QED
    BY <1>4, <2>1, <2>2
<1>6. after \in Matchings
  BY <1>2, <1>5 DEF Matchings
<1> QED
  BY <1>6 DEF after

\* The observations are matched one after another.
LEMMA AssociationsUnfold ==
  ASSUME NEW old \in Seq(Tracks), NEW observations \in Seq(Points)
  PROVE  LET after == Associations(old, observations)
         IN  /\ after[0] = [tracks |-> old, matched |-> {}]
             /\ \A i \in 0 .. Len(observations) : after[i] \in Matchings
             /\ \A i \in 1 .. Len(observations) :
                  after[i] = MatchByIndex(after[i - 1], SpatialIndex(old), observations[i])
<1> DEFINE length == Len(observations)
           index == SpatialIndex(old)
           start == [tracks |-> old, matched |-> {}]
           Unfolded(f) ==
             [i \in 0 .. length |->
                IF i = 0 THEN [tracks |-> old, matched |-> {}]
                ELSE MatchByIndex(f[i - 1], index, observations[i])]
           after == CHOOSE f : f = Unfolded(f)
           step == [i \in 1 .. length |-> [before \in Matchings |->
                     MatchByIndex(before, index, observations[i])]]
<1>1. Associations(old, observations) = after
  BY DEF Associations
<1>2. length \in Nat /\ \A i \in 1 .. length : observations[i] \in Points
  OBVIOUS
<1>3. \A i \in 1 .. length : \A before \in Matchings :
        MatchByIndex(before, index, observations[i]) \in Matchings
  BY <1>2, MatchType
<1>4. \A i \in 1 .. length : \A before \in Matchings :
        /\ step[i][before] = MatchByIndex(before, index, observations[i])
        /\ step[i][before] \in Matchings
  BY <1>3
<1>5. start \in Matchings
  BY DEF Matchings
<1>6. start = [tracks |-> old, matched |-> {}]
  OBVIOUS
<1> HIDE DEF step, start, length, index
<1>7. PICK f : IsChain(f, Matchings, start, length, step)
  BY <1>2, <1>4, <1>5, StepsCompose
<1>8. \E g : g = Unfolded(g)
  <2>1. f = [i \in 0 .. length |-> f[i]]
    BY <1>7 DEF IsChain
  <2>2. \A i \in 0 .. length :
          f[i] = IF i = 0 THEN [tracks |-> old, matched |-> {}]
                 ELSE MatchByIndex(f[i - 1], index, observations[i])
    <3> SUFFICES ASSUME NEW i \in 0 .. length
                 PROVE  f[i] = IF i = 0 THEN [tracks |-> old, matched |-> {}]
                               ELSE MatchByIndex(f[i - 1], index, observations[i])
      OBVIOUS
    <3>1. CASE i = 0
      BY <1>6, <1>7, <3>1 DEF IsChain
    <3>2. CASE i # 0
      <4>1. i \in 1 .. length /\ i - 1 \in 0 .. length
        BY <1>2, <3>2
      <4>2. f[i - 1] \in Matchings /\ f[i] = step[i][f[i - 1]]
        BY <1>7, <4>1 DEF IsChain
      <4> QED
        BY <1>4, <3>2, <4>1, <4>2
    <3> QED
      BY <3>1, <3>2
  <2> QED
    BY <2>1, <2>2
<1>9. after = Unfolded(after)
  BY <1>8
<1> HIDE DEF after
<1>10. after[0] = start
  BY <1>2, <1>6, <1>9
<1>11. \A i \in 1 .. length : after[i] = MatchByIndex(after[i - 1], index, observations[i])
  <2>1. \A i \in 1 .. length : i \in 0 .. length /\ i # 0
    BY <1>2
  <2> QED
    BY <1>9, <2>1
<1>12. \A i \in 0 .. length : after[i] \in Matchings
  <2> DEFINE T == {i \in 0 .. length : after[i] \in Matchings}
  <2>1. 0 \in T
    BY <1>2, <1>5, <1>10
  <2>2. ASSUME NEW i \in 1 .. length, i - 1 \in T PROVE i \in T
    <3>1. i \in 0 .. length /\ after[i - 1] \in Matchings
      BY <1>2, <2>2
    <3> QED
      BY <1>3, <1>11, <3>1
  <2> HIDE DEF T
  <2>3. \A i \in 0 .. length : i \in T
    BY <1>2, <2>1, <2>2, UpTo
  <2> QED
    BY <2>3 DEF T
<1> QED
  BY <1>1, <1>6, <1>10, <1>11, <1>12 DEF length, index

\* A track that is not matched yet is where it was when the scan began.
IsUntouched(old, before) ==
  /\ \A i \in 1 .. Len(before.tracks) :
       i \notin before.matched => i \in 1 .. Len(old) /\ before.tracks[i] = old[i]
  /\ before.matched \subseteq 1 .. Len(before.tracks)

\* A track is touched by the observation that it is matched with, and then only.
LEMMA MatchTouchesOne ==
  ASSUME NEW old \in Seq(Tracks), NEW before \in Matchings, NEW observation \in Points,
         IsUntouched(old, before)
  PROVE  IsUntouched(old, MatchByIndex(before, SpatialIndex(old), observation))
<1> DEFINE after == MatchByIndex(before, SpatialIndex(old), observation)
           count == Len(before.tracks)
<1>1. before.tracks \in Seq(Tracks) /\ before.matched \in SUBSET Nat /\ count \in Nat
  BY DEF Matchings
<1>2. \/ /\ after.tracks = Append(before.tracks, NewTrack(observation))
         /\ after.matched = before.matched \cup {count + 1}
      \/ \E i \in (1 .. count) \ before.matched :
           /\ after.tracks = [before.tracks EXCEPT ![i] = Hit(@, observation)]
           /\ after.matched = before.matched \cup {i}
  BY MatchUnfolds
<1> HIDE DEF after
<1>3. CASE /\ after.tracks = Append(before.tracks, NewTrack(observation))
           /\ after.matched = before.matched \cup {count + 1}
  <2>1. Len(after.tracks) = count + 1 /\ \A i \in 1 .. count : after.tracks[i] = before.tracks[i]
    BY <1>1, <1>3
  <2>2. after.matched \subseteq 1 .. Len(after.tracks)
    BY <1>1, <1>3, <2>1 DEF IsUntouched
  <2>3. \A i \in 1 .. Len(after.tracks) : i \notin after.matched =>
          i \in 1 .. count /\ i \notin before.matched
    BY <1>1, <1>3, <2>1
  <2> QED
    BY <2>1, <2>2, <2>3 DEF IsUntouched, after
<1>4. ASSUME NEW n \in (1 .. count) \ before.matched,
             after.tracks = [before.tracks EXCEPT ![n] = Hit(@, observation)],
             after.matched = before.matched \cup {n}
      PROVE  IsUntouched(old, after)
  <2>1. Len(after.tracks) = count
    BY <1>1, <1>4
  <2>2. \A i \in 1 .. count : i # n => after.tracks[i] = before.tracks[i]
    BY <1>1, <1>4
  <2> QED
    BY <1>1, <1>4, <2>1, <2>2 DEF IsUntouched
<1> QED
  BY <1>2, <1>3, <1>4 DEF after

\* So it is after every observation.
LEMMA AssociationsTouchMatched ==
  ASSUME NEW old \in Seq(Tracks), NEW observations \in Seq(Points)
  PROVE  \A i \in 0 .. Len(observations) : IsUntouched(old, Associations(old, observations)[i])
<1> DEFINE after == Associations(old, observations)
           length == Len(observations)
           T == {i \in 0 .. length : IsUntouched(old, after[i])}
<1>1. /\ after[0] = [tracks |-> old, matched |-> {}]
      /\ \A i \in 0 .. length : after[i] \in Matchings
      /\ \A i \in 1 .. length :
           after[i] = MatchByIndex(after[i - 1], SpatialIndex(old), observations[i])
  BY AssociationsUnfold
<1>2. length \in Nat /\ \A i \in 1 .. length : observations[i] \in Points
  OBVIOUS
<1> HIDE DEF after, length
<1>3. 0 \in T
  BY <1>1, <1>2 DEF IsUntouched
<1>4. ASSUME NEW i \in 1 .. length, i - 1 \in T PROVE i \in T
  <2>1. i \in 0 .. length /\ i - 1 \in 0 .. length /\ IsUntouched(old, after[i - 1])
    BY <1>2, <1>4
  <2>2. IsUntouched(old, MatchByIndex(after[i - 1], SpatialIndex(old), observations[i]))
    BY <1>1, <1>2, <2>1, MatchTouchesOne
  <2> QED
    BY <1>1, <2>1, <2>2
<1> HIDE DEF T
<1>5. \A i \in 0 .. length : i \in T
  BY <1>2, <1>3, <1>4, UpTo
<1> QED
  BY <1>5 DEF T, after, length

\* Whatever may be matched is found in the nine cells.
LEMMA SearchIsExact ==
  ASSUME NEW old \in Seq(Tracks), NEW before \in Matchings, NEW observation \in Points,
         IsUntouched(old, before)
  PROVE  Candidates(before.tracks, SpatialIndex(old), before.matched, observation)
           = Associable(before.tracks, before.matched, observation)
<1> DEFINE index == SpatialIndex(old)
           all == Associable(before.tracks, before.matched, observation)
<1>1. before.tracks \in Seq(Tracks)
  BY DEF Matchings
<1>2. ASSUME NEW i \in all PROVE i \in DOMAIN index /\ Neighbour(ToCell(observation), index[i])
  <2>1. /\ i \in 1 .. Len(before.tracks) /\ i \notin before.matched
        /\ Squared(before.tracks[i].point, observation)
             <= AssociationDistance * AssociationDistance
    BY <1>1, <1>2 DEF Associable
  <2>2. i \in 1 .. Len(old) /\ before.tracks[i] = old[i]
    BY <2>1 DEF IsUntouched
  <2>3. i \in DOMAIN index /\ index[i] = ToCell(old[i].point) /\ old[i].point \in Points
    BY <2>2, IndexType
  <2>4. Neighbour(ToCell(observation), ToCell(old[i].point))
    BY <2>1, <2>2, <2>3, NearIsNeighbour
  <2> QED
    BY <2>3, <2>4
<1> HIDE DEF all, index
<1>3. Candidates(before.tracks, index, before.matched, observation) =
        {i \in all \cap DOMAIN index : Neighbour(ToCell(observation), index[i])}
  BY DEF Candidates, all
<1> QED
  BY <1>2, <1>3 DEF all, index

-----------------------------------------------------------------------------
(* How far points of successive scans may be apart.                        *)

\* The distance between two vectors' product and their lengths.
LEMMA ProductIsBounded ==
  ASSUME NEW x \in Int, NEW y \in Int, NEW u \in Int, NEW v \in Int,
         NEW a \in Nat, NEW b \in Nat, x * x + y * y <= a * a, u * u + v * v <= b * b
  PROVE  x * u + y * v <= a * b
<1> DEFINE s == x * x + y * y
           t == u * u + v * v
           dot == x * u + y * v
           cross == x * v - y * u
<1>1. s \in Nat /\ t \in Nat
  <2>1. x * x \in Nat /\ y * y \in Nat /\ u * u \in Nat /\ v * v \in Nat
    BY SquareIsNat
  <2> QED
    BY <2>1
<1>2. dot \in Int /\ cross \in Int
  OBVIOUS
<1>3. dot * dot + cross * cross = s * t
  OBVIOUS
<1>4. s <= a * a /\ t <= b * b /\ a * a \in Nat /\ b * b \in Nat
  OBVIOUS
<1> HIDE DEF s, t, dot, cross
<1>5. cross * cross \in Nat
  BY <1>2, SquareIsNat
<1>6. dot * dot <= s * t
  BY <1>1, <1>2, <1>3, <1>5
<1>7. s * t <= (a * a) * t
  BY <1>1, <1>4, TimesIsMonotone
<1>8. t * (a * a) <= (b * b) * (a * a)
  BY <1>1, <1>4, TimesIsMonotone
<1>9. dot * dot <= (a * b) * (a * b)
  <2>1. (a * a) * t = t * (a * a) /\ (b * b) * (a * a) = (a * b) * (a * b)
    BY <1>1
  <2>2. s * t \in Int /\ t * (a * a) \in Int /\ (a * b) * (a * b) \in Int /\ dot * dot \in Int
    BY <1>1, <1>2
  <2> HIDE <1>3
  <2> QED
    BY <1>6, <1>7, <1>8, <2>1, <2>2
<1>10. dot <= a * b
  <2>1. a * b \in Nat
    OBVIOUS
  <2> QED
    BY <1>2, <1>9, <2>1, RootIsMonotone
<1> QED
  BY <1>10 DEF dot

\* The point of a track goes on by no more than the association distance.
LEMMA OneFurther ==
  ASSUME NEW p \in Points, NEW q \in Points, NEW r \in Points, NEW n \in Nat,
         Squared(p, q) <= n * n * AssociationDistance * AssociationDistance,
         Squared(p, r) <= AssociationDistance * AssociationDistance
  PROVE  Squared(r, q) <= (n + 1) * (n + 1) * AssociationDistance * AssociationDistance
<1> DEFINE x == p[1] - q[1]
           y == p[2] - q[2]
           u == r[1] - p[1]
           v == r[2] - p[2]
           d == AssociationDistance
<1>1. /\ p[1] \in Int /\ p[2] \in Int /\ q[1] \in Int /\ q[2] \in Int
      /\ r[1] \in Int /\ r[2] \in Int
  BY DEF Points
<1>2. x \in Int /\ y \in Int /\ u \in Int /\ v \in Int /\ d \in Nat
  BY <1>1, ObstacleConfigAssumption
<1>3. /\ x * x + y * y <= n * n * d * d
      /\ u * u + v * v <= d * d
  <2>1. Squared(p, r) = Squared(r, p)
    BY SquaredType
  <2> QED
    BY <2>1 DEF Squared
<1>4. r[1] - q[1] = x + u /\ r[2] - q[2] = y + v
  BY <1>1
<1>5. Squared(r, q) = (x + u) * (x + u) + (y + v) * (y + v)
  BY <1>4 DEF Squared
<1> HIDE DEF x, y, u, v, d
<1>6. n * n * d * d = (n * d) * (n * d) /\ n * d \in Nat
  BY <1>2
<1>7. x * u + y * v <= (n * d) * d
  BY <1>2, <1>3, <1>6, ProductIsBounded
<1>8. (x + u) * (x + u) + (y + v) * (y + v)
        = (x * x + y * y) + (u * u + v * v) + 2 * (x * u + y * v)
  BY <1>2
<1>9. (n + 1) * (n + 1) * d * d = n * n * d * d + d * d + 2 * ((n * d) * d)
  BY <1>2
<1> DEFINE k1 == x * x + y * y
           k2 == u * u + v * v
           k3 == x * u + y * v
           m1 == n * n * d * d
           m2 == d * d
           m3 == (n * d) * d
<1>10. /\ k1 \in Int /\ k2 \in Int /\ k3 \in Int /\ m1 \in Int /\ m2 \in Int /\ m3 \in Int
  BY <1>2
<1>11. k1 <= m1 /\ k2 <= m2 /\ k3 <= m3
  BY <1>3, <1>7
<1>12. k1 + k2 + 2 * k3 <= m1 + m2 + 2 * m3
  <2> HIDE DEF k1, k2, k3, m1, m2, m3
  <2> QED
    BY <1>10, <1>11
<1> QED
  BY <1>5, <1>8, <1>9, <1>12 DEF d

-----------------------------------------------------------------------------
(* What the tracks have to do with the last scans.                         *)

\* The scans since a track was hit last.
Remembers(track, memory) ==
  /\ track.missed < Len(memory)
  /\ track.point \in memory[Len(memory) - track.missed]

\* A scan each for the hits of a track, with a point near enough to the next one's.
Traced(point, hits, memory) ==
  /\ hits <= Len(memory)
  /\ \A back \in 0 .. hits - 1 :
       \E q \in memory[Len(memory) - back] :
         Squared(point, q) <= back * back * AssociationDistance * AssociationDistance

\* Hits are counted until they confirm a track.
Counts(track) ==
  /\ track.hits \in 1 .. ConfirmationUpdates
  /\ track.confirmed <=> track.hits = ConfirmationUpdates

\* A track between two scans.
Sound(track, memory) ==
  /\ Counts(track)
  /\ track.missed <= PersistenceUpdates
  /\ Remembers(track, memory)
  /\ ~track.confirmed => track.missed = 0 /\ Traced(track.point, track.hits, memory)

\* A track matched in this scan; "traceable" when none was confirmed before it.
Matched(track, memory, traceable) ==
  /\ Counts(track)
  /\ track.missed = 0
  /\ Remembers(track, memory)
  /\ traceable \/ ~track.confirmed => Traced(track.point, track.hits, memory)

Memories == Seq(SUBSET Points)

\* A scan is the newest in the memory of the scans before it.
LEMMA MemoryGrows ==
  ASSUME NEW old \in Memories, NEW newest \in SUBSET Points
  PROVE  LET memory == Append(old, newest)
         IN  /\ memory \in Memories /\ Len(memory) = Len(old) + 1 /\ Len(old) \in Nat
             /\ memory[Len(memory)] = newest
             /\ \A back \in 1 .. Len(old) : memory[Len(memory) - back] = old[Len(old) - (back - 1)]
<1> DEFINE memory == Append(old, newest)
<1>1. memory \in Memories /\ Len(memory) = Len(old) + 1 /\ Len(old) \in Nat
  BY DEF Memories
<1>2. memory[Len(memory)] = newest
  BY DEF Memories
<1>3. ASSUME NEW back \in 1 .. Len(old)
      PROVE  memory[Len(memory) - back] = old[Len(old) - (back - 1)]
  <2>1. Len(memory) - back = Len(old) - (back - 1) /\ Len(memory) - back \in 1 .. Len(old)
    BY <1>1
  <2> QED
    BY <2>1 DEF Memories
<1> QED
  BY <1>1, <1>2, <1>3

\* A new track is traced to its scan.
LEMMA NewIsMatched ==
  ASSUME NEW old \in Memories, NEW newest \in SUBSET Points, NEW observation \in newest,
         NEW traceable \in BOOLEAN
  PROVE  Matched(NewTrack(observation), Append(old, newest), traceable)
<1> DEFINE memory == Append(old, newest)
           track == NewTrack(observation)
<1>1. /\ track.point = observation /\ track.hits = 1 /\ track.missed = 0
      /\ track.confirmed <=> ConfirmationUpdates = 1
  BY DEF NewTrack
<1>2. Len(memory) \in Nat /\ Len(memory) >= 1 /\ memory[Len(memory)] = newest
  BY MemoryGrows
<1> HIDE DEF memory, track
<1>3. Counts(track)
  <2>1. 1 \in 1 .. ConfirmationUpdates
    BY ObstacleConfigAssumption
  <2> QED
    BY <1>1, <2>1 DEF Counts
<1>4. Len(memory) - 0 = Len(memory)
  BY <1>2
<1>5. Remembers(track, memory)
  BY <1>1, <1>2, <1>4 DEF Remembers
<1>6. Squared(observation, observation) <= 0 * 0 * AssociationDistance * AssociationDistance
  <2>1. observation \in Points /\ AssociationDistance \in Nat
    BY ObstacleConfigAssumption
  <2>2. observation[1] \in Int /\ observation[2] \in Int
    BY <2>1 DEF Points
  <2> QED
    BY <2>1, <2>2 DEF Squared
<1>7. Traced(track.point, track.hits, memory)
  <2>1. \A back \in 0 .. 1 - 1 : back = 0
    OBVIOUS
  <2> QED
    BY <1>1, <1>2, <1>4, <1>6, <2>1 DEF Traced
<1> QED
  BY <1>1, <1>3, <1>5, <1>7 DEF Matched, memory, track

\* A track that is hit is traced one scan further.
LEMMA HitIsMatched ==
  ASSUME NEW old \in Memories, NEW newest \in SUBSET Points, NEW observation \in newest,
         NEW before \in Tracks, NEW traceable \in BOOLEAN,
         Sound(before, old), traceable => ~before.confirmed,
         Squared(before.point, observation) <= AssociationDistance * AssociationDistance
  PROVE  Matched(Hit(before, observation), Append(old, newest), traceable)
<1> DEFINE memory == Append(old, newest)
           track == Hit(before, observation)
<1>1. /\ track.point = observation /\ track.missed = 0
      /\ ~before.confirmed /\ before.hits < ConfirmationUpdates =>
           /\ track.hits = before.hits + 1
           /\ track.confirmed = (before.hits + 1 >= ConfirmationUpdates)
      /\ before.confirmed => track.hits = before.hits /\ track.confirmed
  BY DEF Hit, Tracks
<1>2. /\ before.point \in Points /\ before.hits \in Nat /\ before.confirmed \in BOOLEAN
      /\ observation \in Points
  BY DEF Tracks
<1>3. /\ Len(memory) = Len(old) + 1 /\ Len(old) \in Nat /\ memory[Len(memory)] = newest
      /\ \A back \in 1 .. Len(old) : memory[Len(memory) - back] = old[Len(old) - (back - 1)]
      /\ old \in Memories
  BY MemoryGrows
<1>4. /\ before.hits \in 1 .. ConfirmationUpdates
      /\ before.confirmed <=> before.hits = ConfirmationUpdates
      /\ ConfirmationUpdates \in Nat
  BY ObstacleConfigAssumption DEF Sound, Counts
<1> HIDE DEF memory, track
<1>5. Counts(track)
  <2>1. CASE before.confirmed
    BY <1>1, <1>4, <2>1 DEF Counts
  <2>2. CASE ~before.confirmed
    <3>1. before.hits < ConfirmationUpdates
      BY <1>4, <2>2
    <3>2. track.hits = before.hits + 1
      BY <1>1, <2>2, <3>1
    <3>3. track.confirmed <=> before.hits + 1 >= ConfirmationUpdates
      BY <1>1, <2>2, <3>1
    <3> QED
      BY <1>4, <3>1, <3>2, <3>3 DEF Counts
  <2> QED
    BY <1>2, <2>1, <2>2
<1>6. Len(memory) - 0 = Len(memory) /\ 0 < Len(memory)
  BY <1>3
<1>7. Remembers(track, memory)
  BY <1>1, <1>3, <1>6 DEF Remembers
<1>8. ASSUME ~before.confirmed PROVE Traced(track.point, track.hits, memory)
  <2>1. before.hits < ConfirmationUpdates
    BY <1>4, <1>8
  <2>2. track.hits = before.hits + 1
    BY <1>1, <1>8, <2>1
  <2>3. Traced(before.point, before.hits, old)
    BY <1>8 DEF Sound
  <2>4. before.hits <= Len(old)
    BY <2>3 DEF Traced
  <2>5. ASSUME NEW back \in 0 .. (before.hits + 1) - 1
        PROVE  \E q \in memory[Len(memory) - back] :
                 Squared(observation, q)
                   <= back * back * AssociationDistance * AssociationDistance
    <3>1. CASE back = 0
      <4>1. Squared(observation, observation)
              <= 0 * 0 * AssociationDistance * AssociationDistance
        <5>1. AssociationDistance \in Nat
          BY ObstacleConfigAssumption
        <5>2. observation[1] \in Int /\ observation[2] \in Int
          BY <1>2 DEF Points
        <5> QED
          BY <5>1, <5>2 DEF Squared
      <4> QED
        BY <1>3, <1>6, <3>1, <4>1
    <3>2. CASE back # 0
      <4>1. /\ back - 1 \in 0 .. before.hits - 1 /\ back \in 1 .. Len(old)
            /\ back - 1 \in Nat /\ (back - 1) + 1 = back
        BY <1>2, <1>3, <2>4, <3>2
      <4>2. PICK q \in old[Len(old) - (back - 1)] :
              Squared(before.point, q)
                <= (back - 1) * (back - 1) * AssociationDistance * AssociationDistance
        BY <2>3, <4>1 DEF Traced
      <4>3. q \in Points
        <5>1. Len(old) - (back - 1) \in 1 .. Len(old)
          BY <1>3, <4>1
        <5>2. old[Len(old) - (back - 1)] \in SUBSET Points
          BY <1>3, <5>1 DEF Memories
        <5> QED
          BY <5>2
      <4>4. Squared(observation, q)
              <= ((back - 1) + 1) * ((back - 1) + 1) * AssociationDistance * AssociationDistance
        <5> DEFINE n == back - 1
        <5>1. n \in Nat
          BY <4>1
        <5>2. Squared(before.point, q) <= n * n * AssociationDistance * AssociationDistance
          BY <4>2
        <5> HIDE DEF n
        <5>3. Squared(observation, q)
                <= (n + 1) * (n + 1) * AssociationDistance * AssociationDistance
          BY <1>2, <4>3, <5>1, <5>2, OneFurther
        <5> QED
          BY <5>3 DEF n
      <4>5. q \in memory[Len(memory) - back]
        BY <1>3, <4>1
      <4> QED
        BY <4>1, <4>4, <4>5
    <3> QED
      BY <3>1, <3>2
  <2>6. before.hits + 1 <= Len(memory)
    BY <1>2, <1>3, <2>4
  <2> QED
    BY <1>1, <2>2, <2>5, <2>6 DEF Traced
<1>9. traceable \/ ~track.confirmed => ~before.confirmed
  BY <1>1, <1>2
<1> QED
  BY <1>1, <1>5, <1>7, <1>8, <1>9 DEF Matched, memory, track

\* Every track that was matched in this scan.
AllMatched(before, memory, traceable) ==
  \A i \in before.matched : Matched(before.tracks[i], memory, traceable)

\* What is known of the tracks when a scan begins.
BeforeScan(old, memory, traceable) ==
  \A i \in 1 .. Len(old) : Sound(old[i], memory) /\ (traceable => ~old[i].confirmed)

\* An observation leaves one more track matched.
LEMMA MatchKeepsMatched ==
  ASSUME NEW old \in Seq(Tracks), NEW memory \in Memories, NEW newest \in SUBSET Points,
         NEW traceable \in BOOLEAN, BeforeScan(old, memory, traceable),
         NEW before \in Matchings, IsUntouched(old, before),
         AllMatched(before, Append(memory, newest), traceable),
         NEW observation \in newest
  PROVE  AllMatched(MatchByIndex(before, SpatialIndex(old), observation),
                    Append(memory, newest), traceable)
<1> DEFINE after == MatchByIndex(before, SpatialIndex(old), observation)
           count == Len(before.tracks)
           grown == Append(memory, newest)
<1>1. before.tracks \in Seq(Tracks) /\ before.matched \in SUBSET Nat /\ count \in Nat
  BY DEF Matchings
<1>2. \/ /\ after.tracks = Append(before.tracks, NewTrack(observation))
         /\ after.matched = before.matched \cup {count + 1}
      \/ \E i \in (1 .. count) \ before.matched :
           /\ Squared(before.tracks[i].point, observation)
                <= AssociationDistance * AssociationDistance
           /\ after.tracks = [before.tracks EXCEPT ![i] = Hit(@, observation)]
           /\ after.matched = before.matched \cup {i}
  BY MatchUnfolds
<1>3. /\ before.matched \subseteq 1 .. count
      /\ \A i \in before.matched : Matched(before.tracks[i], grown, traceable)
  BY DEF IsUntouched, AllMatched
<1> HIDE DEF after
<1>4. CASE /\ after.tracks = Append(before.tracks, NewTrack(observation))
           /\ after.matched = before.matched \cup {count + 1}
  <2>1. /\ after.tracks[count + 1] = NewTrack(observation)
        /\ \A i \in 1 .. count : after.tracks[i] = before.tracks[i]
    BY <1>1, <1>4
  <2>2. Matched(NewTrack(observation), grown, traceable)
    BY NewIsMatched
  <2> HIDE DEF grown
  <2>3. ASSUME NEW i \in after.matched PROVE Matched(after.tracks[i], grown, traceable)
    <3>1. CASE i = count + 1
      BY <2>1, <2>2, <3>1
    <3>2. CASE i \in before.matched
      <4>1. i \in 1 .. count /\ Matched(before.tracks[i], grown, traceable)
        BY <1>3, <3>2
      <4> QED
        BY <2>1, <4>1
    <3> QED
      BY <1>4, <3>1, <3>2
  <2> QED
    BY <2>3 DEF AllMatched, after, grown
<1>5. ASSUME NEW n \in (1 .. count) \ before.matched,
             Squared(before.tracks[n].point, observation)
               <= AssociationDistance * AssociationDistance,
             after.tracks = [before.tracks EXCEPT ![n] = Hit(@, observation)],
             after.matched = before.matched \cup {n}
      PROVE  AllMatched(after, grown, traceable)
  <2>1. /\ after.tracks[n] = Hit(before.tracks[n], observation)
        /\ \A i \in 1 .. count : i # n => after.tracks[i] = before.tracks[i]
    BY <1>1, <1>5
  <2>2. n \in 1 .. Len(old) /\ before.tracks[n] = old[n]
    BY <1>5 DEF IsUntouched
  <2>3. /\ before.tracks[n] \in Tracks /\ Sound(before.tracks[n], memory)
        /\ traceable => ~before.tracks[n].confirmed
    BY <1>1, <2>2 DEF BeforeScan
  <2>4. Matched(Hit(before.tracks[n], observation), grown, traceable)
    BY <1>5, <2>3, HitIsMatched
  <2> HIDE DEF grown
  <2>5. ASSUME NEW i \in after.matched PROVE Matched(after.tracks[i], grown, traceable)
    <3>1. CASE i = n
      BY <2>1, <2>4, <3>1
    <3>2. CASE i # n
      <4>1. i \in before.matched /\ i \in 1 .. count /\ Matched(before.tracks[i], grown, traceable)
        BY <1>3, <1>5, <3>2
      <4> QED
        BY <2>1, <3>2, <4>1
    <3> QED
      BY <3>1, <3>2
  <2> QED
    BY <2>5 DEF AllMatched
<1> QED
  BY <1>2, <1>4, <1>5 DEF after

\* In the end every matched track is traced to this scan.
LEMMA AssociateMatches ==
  ASSUME NEW old \in Seq(Tracks), NEW memory \in Memories, NEW newest \in SUBSET Points,
         NEW traceable \in BOOLEAN, BeforeScan(old, memory, traceable),
         NEW observations \in Seq(Points),
         \A i \in 1 .. Len(observations) : observations[i] \in newest
  PROVE  /\ Associate(old, observations) \in Matchings
         /\ IsUntouched(old, Associate(old, observations))
         /\ AllMatched(Associate(old, observations), Append(memory, newest), traceable)
<1> DEFINE after == Associations(old, observations)
           length == Len(observations)
           grown == Append(memory, newest)
           T == {i \in 0 .. length : AllMatched(after[i], grown, traceable)}
<1>1. /\ after[0] = [tracks |-> old, matched |-> {}]
      /\ \A i \in 0 .. length : after[i] \in Matchings
      /\ \A i \in 1 .. length :
           after[i] = MatchByIndex(after[i - 1], SpatialIndex(old), observations[i])
  BY AssociationsUnfold
<1>2. \A i \in 0 .. length : IsUntouched(old, after[i])
  BY AssociationsTouchMatched
<1>3. length \in Nat /\ \A i \in 1 .. length : observations[i] \in newest
  OBVIOUS
<1>4. Associate(old, observations) = after[length]
  BY DEF Associate
<1> HIDE DEF after, length
<1>5. 0 \in T
  BY <1>1, <1>3 DEF AllMatched
<1>6. ASSUME NEW i \in 1 .. length, i - 1 \in T PROVE i \in T
  <2>1. i \in 0 .. length /\ i - 1 \in 0 .. length /\ AllMatched(after[i - 1], grown, traceable)
    BY <1>3, <1>6
  <2>2. after[i - 1] \in Matchings /\ IsUntouched(old, after[i - 1]) /\ observations[i] \in newest
    BY <1>1, <1>2, <1>3, <2>1
  <2>3. AllMatched(MatchByIndex(after[i - 1], SpatialIndex(old), observations[i]), grown, traceable)
    BY <2>1, <2>2, MatchKeepsMatched
  <2> QED
    BY <1>1, <2>1, <2>3
<1> HIDE DEF T
<1>7. \A i \in 0 .. length : i \in T
  BY <1>3, <1>5, <1>6, UpTo
<1>8. length \in 0 .. length
  BY <1>3
<1> QED
  BY <1>1, <1>2, <1>4, <1>7, <1>8 DEF T

\* A track that was not hit is one scan further back.
LEMMA MissedIsSound ==
  ASSUME NEW memory \in Memories, NEW newest \in SUBSET Points, NEW track \in Tracks,
         Sound(track, memory), Retains(track)
  PROVE  Sound([track EXCEPT !.missed = @ + 1], Append(memory, newest))
<1> DEFINE grown == Append(memory, newest)
           after == [track EXCEPT !.missed = @ + 1]
<1>1. /\ after.point = track.point /\ after.hits = track.hits
      /\ after.confirmed = track.confirmed /\ after.missed = track.missed + 1
      /\ track.missed \in Nat
  BY DEF Tracks
<1>2. track.confirmed /\ track.missed < PersistenceUpdates /\ PersistenceUpdates \in Nat
  BY ObstacleConfigAssumption DEF Retains
<1>3. /\ Len(grown) = Len(memory) + 1 /\ Len(memory) \in Nat
      /\ \A back \in 1 .. Len(memory) : grown[Len(grown) - back] = memory[Len(memory) - (back - 1)]
  BY MemoryGrows
<1>4. Counts(track) /\ Remembers(track, memory)
  BY DEF Sound
<1> HIDE DEF grown, after
<1>5. Counts(after)
  BY <1>1, <1>4 DEF Counts
<1>6. Remembers(after, grown)
  <2>1. track.missed < Len(memory) /\ track.point \in memory[Len(memory) - track.missed]
    BY <1>4 DEF Remembers
  <2>2. after.missed \in 1 .. Len(memory) /\ after.missed - 1 = track.missed
    BY <1>1, <1>3, <2>1
  <2>3. grown[Len(grown) - after.missed] = memory[Len(memory) - track.missed]
    BY <1>3, <2>2
  <2> QED
    BY <1>1, <1>3, <2>1, <2>3 DEF Remembers
<1> QED
  BY <1>1, <1>2, <1>5, <1>6 DEF Sound, grown, after

\* What an update leaves of sound tracks is sound after the scan, and traced to its
\* confirming scans if none was confirmed before it.
LEMMA UpdateIsSound ==
  ASSUME NEW old \in Seq(Tracks), NEW memory \in Memories, NEW newest \in SUBSET Points,
         NEW traceable \in BOOLEAN, BeforeScan(old, memory, traceable),
         NEW observations \in Seq(Points),
         \A i \in 1 .. Len(observations) : observations[i] \in newest
  PROVE  /\ Update(old, observations) \in Seq(Tracks)
         /\ \A i \in 1 .. Len(Update(old, observations)) :
              LET track == Update(old, observations)[i]
              IN  /\ Sound(track, Append(memory, newest))
                  /\ traceable => Traced(track.point, track.hits, Append(memory, newest))
<1> DEFINE after == Associate(old, observations)
           grown == Append(memory, newest)
           aged == [i \in DOMAIN after.tracks |->
                      IF i \in after.matched THEN after.tracks[i]
                      ELSE IF Retains(after.tracks[i])
                             THEN [after.tracks[i] EXCEPT !.missed = @ + 1] ELSE None]
           Good(track) ==
             /\ track \in Tracks
             /\ Sound(track, grown)
             /\ traceable => Traced(track.point, track.hits, grown)
           S == {track \in Tracks : Good(track)}
<1>1. after \in Matchings /\ IsUntouched(old, after) /\ AllMatched(after, grown, traceable)
  BY AssociateMatches
<1>2. Update(old, observations) = Present(aged)
  BY DEF Update
<1>3. after.tracks \in Seq(Tracks)
  BY <1>1 DEF Matchings
<1> HIDE DEF after
<1>4. Len(after.tracks) \in Nat /\ DOMAIN after.tracks = 1 .. Len(after.tracks)
  BY <1>3
<1>5. ASSUME NEW i \in 1 .. Len(after.tracks), aged[i] # None PROVE Good(aged[i])
  <2>1. after.tracks[i] \in Tracks
    BY <1>3
  <2>2. CASE i \in after.matched
    <3>1. aged[i] = after.tracks[i]
      BY <1>4, <2>2
    <3>2. Matched(after.tracks[i], grown, traceable)
      BY <1>1, <2>2 DEF AllMatched
    <3>3. after.tracks[i].missed <= PersistenceUpdates
      BY <3>2, ObstacleConfigAssumption DEF Matched
    <3>4. Sound(after.tracks[i], grown)
      BY <3>2, <3>3 DEF Matched, Sound
    <3> QED
      BY <2>1, <3>1, <3>2, <3>4 DEF Matched
  <2>3. CASE i \notin after.matched
    <3>1. Retains(after.tracks[i])
      BY <1>4, <1>5, <2>3
    <3>2. aged[i] = [after.tracks[i] EXCEPT !.missed = @ + 1]
      BY <1>4, <2>3, <3>1
    <3>3. i \in 1 .. Len(old) /\ after.tracks[i] = old[i]
      BY <1>1, <2>3 DEF IsUntouched
    <3>4. Sound(after.tracks[i], memory) /\ (traceable => ~after.tracks[i].confirmed)
      BY <3>3 DEF BeforeScan
    <3>5. Sound(aged[i], grown)
      BY <2>1, <3>1, <3>2, <3>4, MissedIsSound
    <3>6. aged[i] \in Tracks
      <4>1. \A track \in Tracks : [track EXCEPT !.missed = @ + 1] \in Tracks
        BY DEF Tracks
      <4> HIDE DEF aged
      <4> QED
        BY <2>1, <3>2, <4>1
    <3>7. ~traceable
      BY <3>1, <3>4 DEF Retains
    <3> QED
      BY <3>5, <3>6, <3>7
  <2> QED
    BY <2>2, <2>3
<1>6. aged \in Seq(S \cup {None})
  <2>1. \A i \in 1 .. Len(after.tracks) : aged[i] \in S \cup {None}
    BY <1>5
  <2> DEFINE n == Len(after.tracks)
             X == S \cup {None}
  <2>2. aged = [i \in 1 .. n |-> aged[i]] /\ n \in Nat
    BY <1>4
  <2>3. \A i \in 1 .. n : aged[i] \in X
    BY <2>1
  <2> HIDE DEF X, aged, n
  <2>4. aged \in [1 .. n -> X]
    BY <2>2, <2>3
  <2>5. aged \in Seq(X)
    BY <2>2, <2>4
  <2> QED
    BY <2>5 DEF X
<1> DEFINE left == Present(aged)
<1>7. left \in Seq(S)
  <2> HIDE DEF S, aged
  <2> QED
    BY <1>6, PresentUnfolds
<1>8. \A i \in 1 .. Len(left) : left[i] \in S
  <2> HIDE DEF S, left
  <2> QED
    BY <1>7
<1>9. left \in Seq(Tracks)
  <2>1. S \subseteq Tracks
    OBVIOUS
  <2> HIDE DEF S, left
  <2> QED
    BY <1>7, <2>1
<1> HIDE DEF left, aged
<1> QED
  BY <1>2, <1>8, <1>9 DEF left

\* A memory is cut to the scans that can bear on a track.
LEMMA CutMemory ==
  ASSUME NEW all \in Memories, all # <<>>
  PROVE  LET bound == Max({ConfirmationUpdates, PersistenceUpdates + 1})
             memory == SubSeq(all, Max({1, Len(all) - bound + 1}), Len(all))
         IN  /\ memory \in Memories
             /\ Len(memory) = IF Len(all) <= bound THEN Len(all) ELSE bound
             /\ bound \in Nat /\ ConfirmationUpdates <= bound /\ PersistenceUpdates < bound
             /\ \A back \in 0 .. Len(memory) - 1 :
                  memory[Len(memory) - back] = all[Len(all) - back]
<1> DEFINE bound == Max({ConfirmationUpdates, PersistenceUpdates + 1})
           first == Max({1, Len(all) - bound + 1})
           memory == SubSeq(all, first, Len(all))
           length == Len(all)
<1>1. length \in Nat \ {0} /\ all \in Seq(SUBSET Points)
  BY DEF Memories
<1>2. \A a \in Int, b \in Int : Max({a, b}) = IF a >= b THEN a ELSE b
  BY DEF Max
<1>3. ConfirmationUpdates \in Nat \ {0} /\ PersistenceUpdates \in Nat
  BY ObstacleConfigAssumption
<1>4. bound \in Nat \ {0} /\ ConfirmationUpdates <= bound /\ PersistenceUpdates < bound
  BY <1>2, <1>3
<1> HIDE DEF bound
<1>5. first = IF length <= bound THEN 1 ELSE length - bound + 1
  BY <1>1, <1>2, <1>4
<1> HIDE DEF first
<1>6. first \in 1 .. length
  BY <1>1, <1>4, <1>5
<1>7. memory \in Seq(SUBSET Points) /\ Len(memory) = length - first + 1
  BY <1>1, <1>6
<1>8. \A i \in 1 .. Len(memory) : memory[i] = all[i + first - 1]
  BY <1>1, <1>6
<1> HIDE DEF memory
<1>9. Len(memory) = IF length <= bound THEN length ELSE bound
  BY <1>1, <1>4, <1>5, <1>7
<1>10. ASSUME NEW back \in 0 .. Len(memory) - 1
       PROVE  memory[Len(memory) - back] = all[length - back]
  <2>1. Len(memory) - back \in 1 .. Len(memory) /\ (Len(memory) - back) + first - 1 = length - back
    BY <1>1, <1>6, <1>7
  <2> QED
    BY <1>8, <2>1
<1>11. memory \in Memories
  BY <1>7 DEF Memories
<1> HIDE DEF length
<1> QED
  BY <1>4, <1>9, <1>10, <1>11 DEF bound, first, memory, length

\* Nothing that bears on a sound track is cut.
LEMMA CutKeepsSound ==
  ASSUME NEW all \in Memories, all # <<>>, NEW track \in Tracks, Sound(track, all)
  PROVE  LET bound == Max({ConfirmationUpdates, PersistenceUpdates + 1})
             memory == SubSeq(all, Max({1, Len(all) - bound + 1}), Len(all))
         IN  /\ Sound(track, memory)
             /\ Traced(track.point, track.hits, all) => Traced(track.point, track.hits, memory)
<1> DEFINE bound == Max({ConfirmationUpdates, PersistenceUpdates + 1})
           memory == SubSeq(all, Max({1, Len(all) - bound + 1}), Len(all))
<1>1. /\ Len(memory) = IF Len(all) <= bound THEN Len(all) ELSE bound
      /\ bound \in Nat /\ ConfirmationUpdates <= bound /\ PersistenceUpdates < bound
      /\ \A back \in 0 .. Len(memory) - 1 : memory[Len(memory) - back] = all[Len(all) - back]
      /\ Len(all) \in Nat
  <2>1. Len(all) \in Nat
    BY DEF Memories
  <2> QED
    BY <2>1, CutMemory
<1>2. track.missed \in Nat /\ track.hits \in Nat
  BY DEF Tracks
<1>3. /\ Counts(track) /\ track.missed <= PersistenceUpdates /\ Remembers(track, all)
      /\ ~track.confirmed => track.missed = 0 /\ Traced(track.point, track.hits, all)
      /\ PersistenceUpdates \in Nat /\ ConfirmationUpdates \in Nat
  BY ObstacleConfigAssumption DEF Sound
<1> HIDE DEF memory, bound
<1>4. Remembers(track, memory)
  <2>1. track.missed < Len(all) /\ track.point \in all[Len(all) - track.missed]
    BY <1>3 DEF Remembers
  <2>2. track.missed < Len(memory)
    BY <1>1, <1>2, <1>3, <2>1
  <2>3. track.missed \in 0 .. Len(memory) - 1
    BY <1>1, <1>2, <2>2
  <2> QED
    BY <1>1, <2>1, <2>2, <2>3 DEF Remembers
<1>5. ASSUME Traced(track.point, track.hits, all) PROVE Traced(track.point, track.hits, memory)
  <2>1. track.hits <= Len(all) /\ track.hits <= ConfirmationUpdates
    BY <1>3, <1>5 DEF Traced, Counts
  <2>2. track.hits <= Len(memory)
    BY <1>1, <1>2, <1>3, <2>1
  <2>3. \A back \in 0 .. track.hits - 1 : back \in 0 .. Len(memory) - 1
    BY <1>1, <1>2, <2>2
  <2> QED
    BY <1>1, <1>5, <2>2, <2>3 DEF Traced
<1> QED
  BY <1>3, <1>4, <1>5 DEF Sound, memory, bound

-----------------------------------------------------------------------------
(* The pose history.                                                       *)

Poses == [stamp : Int, east : Int, speed : Int]

\* From a pose on the car goes at its speed until "last".
Straight(pose, way, last) ==
  \A t \in pose.stamp .. last : way[t] = pose.east + (t - pose.stamp) * pose.speed

\* Poses in the order of their stamps, each where the car was and on which way.
History(s, way, now) ==
  /\ s \in Seq(Poses)
  /\ \A i \in 1 .. Len(s) : s[i].stamp \in 1 .. now /\ s[i].east = way[s[i].stamp]
  /\ \A i \in 1 .. Len(s) : \A j \in i + 1 .. Len(s) : s[i].stamp < s[j].stamp
  /\ \A i \in 1 .. Len(s) - 1 : Straight(s[i], way, s[i + 1].stamp)
  /\ s # <<>> => Straight(s[Len(s)], way, now)

\* The fields of the poses of a history are numbers.
LEMMA HistoryTypes ==
  ASSUME NEW s, NEW way, NEW now, History(s, way, now)
  PROVE  /\ Len(s) \in Nat /\ DOMAIN s = 1 .. Len(s)
         /\ s # <<>> => Len(s) \in 1 .. Len(s) /\ 1 \in 1 .. Len(s)
         /\ \A i \in 1 .. Len(s) :
              s[i] \in Poses /\ s[i].stamp \in Int /\ s[i].east \in Int /\ s[i].speed \in Int
<1>1. s \in Seq(Poses)
  BY DEF History
<1>2. \A i \in 1 .. Len(s) : s[i] \in Poses
  BY <1>1
<1> QED
  BY <1>1, <1>2 DEF Poses

\* The pose the search finds, and the one before it, enclose the stamp.
LEMMA UpperEncloses ==
  ASSUME NEW s, NEW way, NEW now, History(s, way, now), NEW stamp \in Int,
         s # <<>>, stamp >= s[1].stamp, stamp <= s[Len(s)].stamp
  PROVE  LET upper == Min({i \in DOMAIN s : s[i].stamp >= stamp})
         IN  /\ upper \in 1 .. Len(s) /\ s[upper].stamp >= stamp
             /\ upper = 1 => s[1].stamp = stamp
             /\ upper # 1 =>
                  /\ upper - 1 \in 1 .. Len(s) - 1 /\ (upper - 1) + 1 = upper
                  /\ s[upper - 1].stamp < stamp
<1> DEFINE T == {i \in DOMAIN s : s[i].stamp >= stamp}
           upper == Min(T)
<1>1. /\ Len(s) \in Nat /\ DOMAIN s = 1 .. Len(s) /\ Len(s) \in 1 .. Len(s)
      /\ \A i \in 1 .. Len(s) : s[i].stamp \in Int
  BY HistoryTypes
<1>2. T \subseteq Nat /\ T # {}
  BY <1>1
<1>3. upper \in T /\ \A i \in T : upper <= i
  <2> HIDE DEF T
  <2> QED
    BY <1>2, MinIsLeast
<1> HIDE DEF upper
<1>4. upper \in 1 .. Len(s) /\ s[upper].stamp >= stamp
  BY <1>1, <1>3
<1>5. ASSUME upper # 1 PROVE upper - 1 \in 1 .. Len(s) - 1 /\ s[upper - 1].stamp < stamp
  <2>1. upper - 1 \in 1 .. Len(s) - 1 /\ upper - 1 \in 1 .. Len(s) /\ ~ (upper <= upper - 1)
    BY <1>1, <1>4, <1>5
  <2>2. upper - 1 \notin T
    BY <1>3, <2>1
  <2> QED
    BY <1>1, <2>1, <2>2
<1>6. upper = 1 => s[1].stamp = stamp
  BY <1>1, <1>4
<1> QED
  BY <1>1, <1>4, <1>5, <1>6 DEF upper

\* What PoseAt comes to inside the history.
LEMMA PoseAtUnfolds ==
  ASSUME NEW s, NEW way, NEW now, History(s, way, now), NEW stamp \in Int, s # <<>>
  PROVE  LET upper == Min({i \in DOMAIN s : s[i].stamp >= stamp})
         IN  /\ stamp < s[1].stamp =>
                  PoseAt(s, stamp) = IF s[1].stamp - stamp > MaximumExtrapolation THEN None
                                     ELSE Extrapolate(s[1], stamp - s[1].stamp)
             /\ stamp > s[Len(s)].stamp =>
                  PoseAt(s, stamp) =
                    IF stamp - s[Len(s)].stamp > MaximumExtrapolation THEN None
                    ELSE Extrapolate(s[Len(s)], stamp - s[Len(s)].stamp)
             /\ stamp >= s[1].stamp /\ stamp <= s[Len(s)].stamp =>
                  PoseAt(s, stamp) =
                    IF upper = 1 \/ s[upper].stamp = stamp THEN s[upper].east
                    ELSE s[upper - 1].east
                           + ((stamp - s[upper - 1].stamp) * (s[upper].east - s[upper - 1].east))
                               \div (s[upper].stamp - s[upper - 1].stamp)
<1>1. /\ Len(s) \in 1 .. Len(s) /\ 1 \in 1 .. Len(s) /\ Len(s) \in Nat
      /\ s[1].stamp \in Int /\ s[Len(s)].stamp \in Int
  BY HistoryTypes
<1>2. s[1].stamp <= s[Len(s)].stamp
  <2>1. CASE Len(s) = 1
    BY <1>1, <2>1
  <2>2. CASE Len(s) # 1
    <3> DEFINE n == Len(s)
    <3>1. n \in Nat /\ n \in 1 .. n /\ n # 1
      BY <1>1, <2>2
    <3>2. n \in 1 + 1 .. n
      <4> HIDE DEF n
      <4> QED
        BY <3>1
    <3> QED
      BY <1>1, <3>2 DEF History
  <2> QED
    BY <2>1, <2>2
<1>3. Head(s) = s[1] /\ Last(s) = s[Len(s)]
  BY DEF History, Last
<1>4. CASE stamp < s[1].stamp
  BY <1>1, <1>2, <1>3, <1>4 DEF PoseAt
<1>5. CASE stamp > s[Len(s)].stamp
  BY <1>1, <1>2, <1>3, <1>5 DEF PoseAt
<1>6. CASE stamp >= s[1].stamp /\ stamp <= s[Len(s)].stamp
  BY <1>1, <1>2, <1>3, <1>6 DEF PoseAt
<1> QED
  BY <1>1, <1>2, <1>4, <1>5, <1>6

\* A pose is a number or none.
LEMMA PoseAtType ==
  ASSUME NEW s, NEW way, NEW now, History(s, way, now), NEW stamp \in Int
  PROVE  PoseAt(s, stamp) \in Int \cup {None}
<1>1. CASE s = <<>>
  BY <1>1 DEF PoseAt
<1>2. CASE s # <<>>
  <2> DEFINE upper == Min({i \in DOMAIN s : s[i].stamp >= stamp})
  <2>1. /\ Len(s) \in 1 .. Len(s) /\ 1 \in 1 .. Len(s)
        /\ \A i \in 1 .. Len(s) :
             s[i].stamp \in Int /\ s[i].east \in Int /\ s[i].speed \in Int
    BY <1>2, HistoryTypes
  <2>2. \A i \in 1 .. Len(s) : \A elapsed \in Int : Extrapolate(s[i], elapsed) \in Int
    BY <2>1 DEF Extrapolate
  <2>3. CASE stamp < s[1].stamp
    <3>1. PoseAt(s, stamp) = IF s[1].stamp - stamp > MaximumExtrapolation THEN None
                             ELSE Extrapolate(s[1], stamp - s[1].stamp)
      BY <1>2, <2>3, PoseAtUnfolds
    <3>2. stamp - s[1].stamp \in Int
      BY <2>1
    <3> QED
      BY <2>1, <2>2, <3>1, <3>2
  <2>4. CASE stamp > s[Len(s)].stamp
    <3>1. PoseAt(s, stamp) =
            IF stamp - s[Len(s)].stamp > MaximumExtrapolation THEN None
            ELSE Extrapolate(s[Len(s)], stamp - s[Len(s)].stamp)
      BY <1>2, <2>4, PoseAtUnfolds
    <3>2. stamp - s[Len(s)].stamp \in Int
      BY <2>1
    <3> QED
      BY <2>1, <2>2, <3>1, <3>2
  <2>5. CASE stamp >= s[1].stamp /\ stamp <= s[Len(s)].stamp
    <3>1. PoseAt(s, stamp) =
            IF upper = 1 \/ s[upper].stamp = stamp THEN s[upper].east
            ELSE s[upper - 1].east
                   + ((stamp - s[upper - 1].stamp) * (s[upper].east - s[upper - 1].east))
                       \div (s[upper].stamp - s[upper - 1].stamp)
      BY <1>2, <2>5, PoseAtUnfolds
    <3>2. /\ upper \in 1 .. Len(s) /\ s[upper].stamp >= stamp
          /\ upper # 1 => upper - 1 \in 1 .. Len(s) - 1 /\ s[upper - 1].stamp < stamp
      BY <1>2, <2>5, UpperEncloses
    <3> HIDE DEF upper
    <3>3. CASE upper = 1 \/ s[upper].stamp = stamp
      BY <2>1, <3>1, <3>2, <3>3
    <3>4. CASE upper # 1 /\ s[upper].stamp # stamp
      <4> DEFINE product == (stamp - s[upper - 1].stamp) * (s[upper].east - s[upper - 1].east)
                 span == s[upper].stamp - s[upper - 1].stamp
      <4>1. upper - 1 \in 1 .. Len(s)
        BY <2>1, <3>2, <3>4
      <4>2. product \in Int /\ span \in Nat \ {0} /\ s[upper - 1].east \in Int
        BY <2>1, <3>2, <3>4, <4>1
      <4> HIDE DEF product, span
      <4>3. s[upper - 1].east + product \div span \in Int
        BY <4>2
      <4> QED
        BY <3>1, <3>4, <4>3 DEF product, span
    <3> QED
      BY <3>3, <3>4
  <2> QED
    BY <2>1, <2>3, <2>4, <2>5
<1> QED
  BY <1>1, <1>2

\* Interpolating on a straight way is exact.
LEMMA InterpolationIsExact ==
  ASSUME NEW a \in Nat, NEW b \in Nat \ {0}, NEW v \in Int
  PROVE  (a * (b * v)) \div b = a * v
<1> DEFINE product == a * v
<1>1. product \in Int /\ a * (b * v) = b * product
  OBVIOUS
<1> HIDE DEF product
<1>2. (b * product) \div b = product
  BY <1>1
<1> QED
  BY <1>1, <1>2 DEF product

\* Where the history reaches, a pose is where the car was.
LEMMA PoseAtIsWay ==
  ASSUME NEW s, NEW way, NEW now \in Nat, History(s, way, now), NEW stamp \in Int, s # <<>>,
         s[1].stamp <= stamp, stamp <= now,
         stamp <= s[Len(s)].stamp + MaximumExtrapolation
  PROVE  PoseAt(s, stamp) = way[stamp]
<1> DEFINE upper == Min({i \in DOMAIN s : s[i].stamp >= stamp})
<1>1. /\ Len(s) \in 1 .. Len(s) /\ 1 \in 1 .. Len(s)
      /\ \A i \in 1 .. Len(s) :
           s[i].stamp \in Int /\ s[i].east \in Int /\ s[i].speed \in Int
  BY HistoryTypes
<1>2. MaximumExtrapolation \in Nat
  BY ObstacleConfigAssumption
<1>3. CASE stamp > s[Len(s)].stamp
  <2>1. PoseAt(s, stamp) = Extrapolate(s[Len(s)], stamp - s[Len(s)].stamp)
    <3>1. ~ (stamp - s[Len(s)].stamp > MaximumExtrapolation)
      BY <1>1, <1>2
    <3> QED
      BY <1>3, <3>1, PoseAtUnfolds
  <2>2. stamp \in s[Len(s)].stamp .. now /\ Straight(s[Len(s)], way, now)
    BY <1>1, <1>3 DEF History
  <2> QED
    BY <2>1, <2>2 DEF Straight, Extrapolate
<1>4. CASE stamp <= s[Len(s)].stamp
  <2>1. PoseAt(s, stamp) =
          IF upper = 1 \/ s[upper].stamp = stamp THEN s[upper].east
          ELSE s[upper - 1].east
                 + ((stamp - s[upper - 1].stamp) * (s[upper].east - s[upper - 1].east))
                     \div (s[upper].stamp - s[upper - 1].stamp)
    BY <1>4, PoseAtUnfolds
  <2>2. /\ upper \in 1 .. Len(s) /\ s[upper].stamp >= stamp
        /\ upper = 1 => s[1].stamp = stamp
        /\ upper # 1 =>
             /\ upper - 1 \in 1 .. Len(s) - 1 /\ (upper - 1) + 1 = upper
             /\ s[upper - 1].stamp < stamp
    BY <1>4, UpperEncloses
  <2> HIDE DEF upper
  <2>3. s[upper].east = way[s[upper].stamp]
    BY <2>2 DEF History
  <2>4. CASE upper = 1 \/ s[upper].stamp = stamp
    BY <2>1, <2>2, <2>3, <2>4
  <2>5. CASE upper # 1 /\ s[upper].stamp # stamp
    <3> DEFINE before == s[upper - 1]
               after == s[upper]
    <3>1. Straight(before, way, after.stamp)
      <4>1. \A i \in 1 .. Len(s) - 1 : Straight(s[i], way, s[i + 1].stamp)
        BY DEF History
      <4> QED
        BY <2>2, <2>5, <4>1
    <3>2. upper - 1 \in 1 .. Len(s)
      BY <1>1, <2>2, <2>5
    <3>3. /\ before.stamp \in Int /\ before.east \in Int /\ before.speed \in Int
          /\ after.stamp \in Int /\ after.east \in Int
          /\ before.stamp < stamp /\ stamp < after.stamp
      BY <1>1, <2>2, <2>5, <3>2
    <3>4. PoseAt(s, stamp) =
            before.east + ((stamp - before.stamp) * (after.east - before.east))
                            \div (after.stamp - before.stamp)
      BY <2>1, <2>5
    <3>5. after.east = way[after.stamp]
      BY <2>3
    <3> HIDE DEF before, after
    <3>6. after.stamp \in before.stamp .. after.stamp /\ stamp \in before.stamp .. after.stamp
      BY <3>3
    <3>7. /\ after.east = before.east + (after.stamp - before.stamp) * before.speed
          /\ way[stamp] = before.east + (stamp - before.stamp) * before.speed
      BY <3>1, <3>5, <3>6 DEF Straight
    <3> DEFINE a == stamp - before.stamp
               b == after.stamp - before.stamp
               v == before.speed
    <3>8. a \in Nat /\ b \in Nat \ {0} /\ v \in Int
      BY <3>3
    <3>9. after.east - before.east = b * v
      BY <3>3, <3>7
    <3>10. PoseAt(s, stamp) = before.east + (a * (b * v)) \div b
      BY <3>4, <3>9
    <3>11. way[stamp] = before.east + a * v
      BY <3>7
    <3> HIDE DEF a, b, v
    <3> QED
      BY <3>8, <3>10, <3>11, InterpolationIsExact
  <2> QED
    BY <2>4, <2>5
<1> QED
  BY <1>1, <1>3, <1>4

\* The car drives on as the newest pose says.
LEMMA DrivingKeepsHistory ==
  ASSUME NEW s, NEW now \in Nat, NEW way \in Seq(Int), Len(way) = now,
         History(s, way, now), NEW v \in Int, now # 0, s # <<>> => s[Len(s)].speed = v
  PROVE  History(s, Append(way, way[now] + v), now + 1)
<1> DEFINE onward == Append(way, way[now] + v)
<1>1. /\ Len(s) \in Nat
      /\ s # <<>> => Len(s) \in 1 .. Len(s)
      /\ \A i \in 1 .. Len(s) : s[i].stamp \in Int /\ s[i].east \in Int /\ s[i].speed \in Int
  BY HistoryTypes
<1>2. /\ \A t \in 1 .. now : onward[t] = way[t]
      /\ onward[now + 1] = way[now] + v
      /\ now \in 1 .. now /\ now + 1 \in Nat /\ \A t \in 1 .. now : t \in 1 .. now + 1
  OBVIOUS
<1> HIDE DEF onward
<1>3. \A i \in 1 .. Len(s) : s[i].stamp \in 1 .. now + 1 /\ s[i].east = onward[s[i].stamp]
  <2>1. \A i \in 1 .. Len(s) : s[i].stamp \in 1 .. now /\ s[i].east = way[s[i].stamp]
    BY DEF History
  <2> QED
    BY <1>2, <2>1
<1>4. ASSUME NEW i \in 1 .. Len(s) - 1 PROVE Straight(s[i], onward, s[i + 1].stamp)
  <2>1. i \in 1 .. Len(s) /\ i + 1 \in 1 .. Len(s)
    BY <1>1
  <2>2. s[i].stamp \in 1 .. now /\ s[i + 1].stamp \in 1 .. now
    BY <2>1 DEF History
  <2>3. Straight(s[i], way, s[i + 1].stamp)
    BY DEF History
  <2>4. \A t \in s[i].stamp .. s[i + 1].stamp : t \in 1 .. now
    BY <2>2
  <2> QED
    BY <1>2, <2>3, <2>4 DEF Straight
<1>5. ASSUME s # <<>> PROVE Straight(s[Len(s)], onward, now + 1)
  <2> DEFINE last == s[Len(s)]
  <2>1. Straight(last, way, now) /\ last.stamp \in 1 .. now
    BY <1>1, <1>5 DEF History
  <2>2. last.stamp \in Int /\ last.east \in Int /\ last.speed = v
    BY <1>1, <1>5
  <2> HIDE DEF last
  <2>3. ASSUME NEW t \in last.stamp .. now
        PROVE  onward[t] = last.east + (t - last.stamp) * last.speed
    <3>1. t \in 1 .. now
      BY <2>1
    <3> QED
      BY <1>2, <2>1, <3>1 DEF Straight
  <2>4. onward[now + 1] = last.east + (now + 1 - last.stamp) * last.speed
    <3>1. now \in last.stamp .. now
      BY <2>1
    <3>2. way[now] = last.east + (now - last.stamp) * v
      BY <2>1, <2>2, <3>1 DEF Straight
    <3>3. (now + 1 - last.stamp) * v = (now - last.stamp) * v + v
      BY <2>2
    <3> DEFINE product == (now - last.stamp) * v
    <3>4. product \in Int
      BY <2>2
    <3>5. way[now] + v = last.east + (product + v)
      <4> HIDE DEF product
      <4> QED
        BY <2>2, <3>2, <3>4 DEF product
    <3> QED
      BY <1>2, <2>2, <3>3, <3>5
  <2>5. \A t \in last.stamp .. now + 1 : t = now + 1 \/ t \in last.stamp .. now
    BY <2>2
  <2>6. \A t \in last.stamp .. now + 1 : onward[t] = last.east + (t - last.stamp) * last.speed
    <3> SUFFICES ASSUME NEW t \in last.stamp .. now + 1
                 PROVE  onward[t] = last.east + (t - last.stamp) * last.speed
      OBVIOUS
    <3>1. CASE t = now + 1
      <4>1. onward[t] = onward[now + 1]
        BY <3>1
      <4>2. t - last.stamp = now + 1 - last.stamp
        BY <2>2, <3>1
      <4> QED
        BY <2>4, <4>1, <4>2
    <3>2. CASE t # now + 1
      BY <2>3, <2>5, <3>2
    <3> QED
      BY <3>1, <3>2
  <2>7. Straight(last, onward, now + 1)
    BY <2>6 DEF Straight
  <2> QED
    BY <2>7 DEF last
<1>6. s \in Seq(Poses) /\ \A i \in 1 .. Len(s) : \A j \in i + 1 .. Len(s) : s[i].stamp < s[j].stamp
  BY DEF History
<1> QED
  BY <1>3, <1>4, <1>5, <1>6 DEF History, onward

\* A pose of now goes to the end of the history.
LEMMA AppendKeepsHistory ==
  ASSUME NEW s, NEW way, NEW now \in Nat \ {0}, History(s, way, now), NEW sample \in Poses,
         sample.stamp = now, sample.east = way[now], s # <<>> => s[Len(s)].stamp < now
  PROVE  LET longer == Append(s, sample)
         IN  /\ History(longer, way, now)
             /\ Len(longer) = Len(s) + 1 /\ longer[Len(s) + 1] = sample
             /\ \A i \in 1 .. Len(s) : longer[i] = s[i]
<1> DEFINE longer == Append(s, sample)
           n == Len(s)
<1>1. /\ n \in Nat
      /\ s # <<>> => n \in 1 .. n
      /\ s = <<>> <=> n = 0
      /\ \A i \in 1 .. n : s[i].stamp \in Int /\ s[i].east \in Int /\ s[i].speed \in Int
  <2>1. s \in Seq(Poses)
    BY DEF History
  <2> QED
    BY <2>1, HistoryTypes
<1>2. /\ longer \in Seq(Poses) /\ Len(longer) = n + 1 /\ longer[n + 1] = sample
      /\ \A i \in 1 .. n : longer[i] = s[i]
      /\ \A i \in 1 .. n + 1 : i = n + 1 \/ i \in 1 .. n
  <2>1. s \in Seq(Poses)
    BY DEF History
  <2> QED
    BY <1>1, <2>1
<1>3. /\ \A i \in 1 .. n : s[i].stamp \in 1 .. now /\ s[i].east = way[s[i].stamp]
      /\ \A i \in 1 .. n : \A j \in i + 1 .. n : s[i].stamp < s[j].stamp
      /\ \A i \in 1 .. n - 1 : Straight(s[i], way, s[i + 1].stamp)
      /\ s # <<>> => Straight(s[n], way, now)
  BY DEF History
<1> HIDE DEF longer, n
<1>4. longer # <<>>
  BY <1>1, <1>2
<1>5. \A i \in 1 .. n + 1 : longer[i].stamp \in 1 .. now /\ longer[i].east = way[longer[i].stamp]
  BY <1>2, <1>3
<1>6. ASSUME NEW i \in 1 .. n PROVE s[i].stamp < now
  <2>1. s # <<>> /\ s[n].stamp < now
    BY <1>1 DEF n
  <2>2. CASE i = n
    BY <2>1, <2>2
  <2>3. CASE i # n
    <3>1. n \in i + 1 .. n
      BY <1>1, <2>3
    <3>2. s[i].stamp < s[n].stamp
      BY <1>3, <3>1
    <3> QED
      BY <1>1, <2>1, <3>2
  <2> QED
    BY <2>2, <2>3
<1>7. ASSUME NEW i \in 1 .. n + 1, NEW j \in i + 1 .. n + 1
      PROVE  longer[i].stamp < longer[j].stamp
  <2>1. i \in 1 .. n /\ j \in 1 .. n + 1 /\ (j = n + 1 \/ j \in i + 1 .. n)
    BY <1>1
  <2>2. CASE j = n + 1
    BY <1>2, <1>6, <2>1, <2>2
  <2>3. CASE j \in i + 1 .. n
    <3>1. j \in 1 .. n
      BY <1>1, <2>1, <2>3
    <3> QED
      BY <1>2, <1>3, <2>1, <2>3, <3>1
  <2> QED
    BY <2>1, <2>2, <2>3
<1>8. ASSUME NEW i \in 1 .. (n + 1) - 1 PROVE Straight(longer[i], way, longer[i + 1].stamp)
  <2>1. i \in 1 .. n /\ (i = n \/ (i \in 1 .. n - 1 /\ i + 1 \in 1 .. n))
    BY <1>1
  <2>2. CASE i = n
    <3>1. s # <<>> /\ longer[i] = s[n] /\ longer[i + 1] = sample
      BY <1>1, <1>2, <2>1, <2>2
    <3> QED
      BY <1>3, <3>1
  <2>3. CASE i \in 1 .. n - 1 /\ i + 1 \in 1 .. n
    BY <1>2, <1>3, <2>1, <2>3
  <2> QED
    BY <2>1, <2>2, <2>3
<1>9. Straight(sample, way, now)
  <2>1. \A t \in now .. now : t = now
    OBVIOUS
  <2>2. sample.east \in Int /\ sample.speed \in Int
    BY DEF Poses
  <2>3. sample.east = sample.east + (now - now) * sample.speed
    BY <2>2
  <2> QED
    BY <2>1, <2>3 DEF Straight
<1>10. History(longer, way, now)
  BY <1>2, <1>5, <1>7, <1>8, <1>9 DEF History
<1> QED
  BY <1>2, <1>10 DEF longer, n

\* The end of a history is a history.
LEMMA SuffixIsHistory ==
  ASSUME NEW s, NEW way, NEW now, History(s, way, now), NEW first \in 1 .. Len(s)
  PROVE  LET rest == SubSeq(s, first, Len(s))
         IN  /\ History(rest, way, now)
             /\ rest # <<>> /\ rest[1] = s[first] /\ rest[Len(rest)] = s[Len(s)]
<1> DEFINE rest == SubSeq(s, first, Len(s))
           n == Len(s)
           m == n - first + 1
<1>1. s \in Seq(Poses) /\ n \in Nat /\ first \in 1 .. n /\ m \in Nat /\ m >= 1
  BY DEF History
<1>2. /\ rest \in Seq(Poses) /\ Len(rest) = m
      /\ \A i \in 1 .. m : rest[i] = s[i + first - 1]
  BY <1>1
<1>3. /\ \A i \in 1 .. n : s[i].stamp \in 1 .. now /\ s[i].east = way[s[i].stamp]
      /\ \A i \in 1 .. n : \A j \in i + 1 .. n : s[i].stamp < s[j].stamp
      /\ \A i \in 1 .. n - 1 : Straight(s[i], way, s[i + 1].stamp)
      /\ s # <<>> => Straight(s[n], way, now)
  BY DEF History
<1>4. s # <<>>
  BY <1>1
<1>5. /\ \A i \in 1 .. m : i + first - 1 \in 1 .. n
      /\ \A i \in 1 .. m : \A j \in i + 1 .. m :
           j \in 1 .. m /\ j + first - 1 \in (i + first - 1) + 1 .. n
      /\ \A i \in 1 .. m - 1 :
           /\ i \in 1 .. m /\ i + 1 \in 1 .. m
           /\ i + first - 1 \in 1 .. n - 1 /\ (i + 1) + first - 1 = (i + first - 1) + 1
      /\ m \in 1 .. m /\ m + first - 1 = n
      /\ 1 \in 1 .. m /\ 1 + first - 1 = first
  <2> HIDE DEF n
  <2> QED
    BY <1>1
<1> HIDE DEF rest, m, n
<1>6. rest # <<>>
  BY <1>1, <1>2
<1>7. rest[m] = s[n] /\ rest[1] = s[first]
  BY <1>2, <1>5
<1>8. \A i \in 1 .. m : rest[i].stamp \in 1 .. now /\ rest[i].east = way[rest[i].stamp]
  BY <1>2, <1>3, <1>5
<1>9. \A i \in 1 .. m : \A j \in i + 1 .. m : rest[i].stamp < rest[j].stamp
  BY <1>2, <1>3, <1>5
<1>10. \A i \in 1 .. m - 1 : Straight(rest[i], way, rest[i + 1].stamp)
  BY <1>2, <1>3, <1>5
<1>11. Straight(rest[m], way, now)
  BY <1>3, <1>4, <1>7
<1>12. History(rest, way, now)
  BY <1>2, <1>8, <1>9, <1>10, <1>11 DEF History
<1> QED
  BY <1>2, <1>6, <1>7, <1>12 DEF rest, n

\* The history reaches back to the first pose, or beyond the retention.
Reaches(s, first) ==
  s[1].stamp = first \/ s[1].stamp < s[Len(s)].stamp - Retention

\* Old poses are dropped, but never one that a scan within the retention needs.
LEMMA AddKeepsHistory ==
  ASSUME NEW s, NEW way, NEW now \in Nat \ {0}, History(s, way, now), NEW sample \in Poses,
         sample.stamp = now, sample.east = way[now], NEW first,
         s # <<>> => s[Len(s)].stamp < now /\ Reaches(s, first),
         s = <<>> => first = now
  PROVE  /\ History(Add(s, sample), way, now)
         /\ Add(s, sample) # <<>>
         /\ Add(s, sample)[Len(Add(s, sample))] = sample
         /\ Reaches(Add(s, sample), first)
<1> DEFINE longer == Append(s, sample)
           n == Len(longer)
           cutoff == sample.stamp - Retention
           keep == {i \in 2 .. n - 1 : longer[i].stamp < cutoff}
<1>1. /\ History(longer, way, now) /\ n = Len(s) + 1 /\ longer[n] = sample
      /\ \A i \in 1 .. Len(s) : longer[i] = s[i]
  BY AppendKeepsHistory
<1>2. /\ Len(s) \in Nat /\ s # <<>> => 1 \in 1 .. Len(s) /\ Len(s) \in 1 .. Len(s)
      /\ \A i \in 1 .. Len(s) : s[i].stamp \in Int
  BY HistoryTypes
<1>3. s = <<>> => Len(s) = 0
  OBVIOUS
<1>4. Retention \in Nat
  BY ObstacleConfigAssumption
<1>5. Add(s, sample) = IF keep = {} THEN longer ELSE SubSeq(longer, Max(keep), n)
  BY DEF Add, Trim
<1>6. CASE keep = {}
  <2>1. Add(s, sample) = longer
    BY <1>5, <1>6
  <2> HIDE DEF longer, keep
  <2>2. longer # <<>>
    BY <1>1, <1>2
  <2>3. Reaches(longer, first)
    <3>1. CASE s = <<>>
      <4>1. longer[1] = sample
        BY <1>1, <1>3, <3>1
      <4> QED
        BY <3>1, <4>1 DEF Reaches
    <3>2. CASE s # <<>>
      <4>1. /\ longer[1] = s[1] /\ s[Len(s)].stamp < now
            /\ s[1].stamp = first \/ s[1].stamp < s[Len(s)].stamp - Retention
            /\ s[1].stamp \in Int /\ s[Len(s)].stamp \in Int
        BY <1>1, <1>2, <3>2 DEF Reaches
      <4>2. s[1].stamp = first \/ s[1].stamp < now - Retention
        BY <1>4, <4>1
      <4> QED
        BY <1>1, <4>1, <4>2 DEF Reaches
    <3> QED
      BY <3>1, <3>2
  <2> QED
    BY <1>1, <2>1, <2>2, <2>3
<1>7. CASE keep # {}
  <2> DEFINE start == Max(keep)
  <2>1. n \in Nat /\ keep \subseteq 0 .. n
    <3>1. n \in Nat
      BY <1>1, <1>2
    <3>2. \A i \in 2 .. n - 1 : i \in 0 .. n
      <4> HIDE DEF n
      <4> QED
        BY <3>1
    <3> HIDE DEF n
    <3> QED
      BY <3>1, <3>2
  <2>2. start \in keep
    <3> HIDE DEF keep, n
    <3> QED
      BY <1>7, <2>1, MaxIsGreatest
  <2>3. start \in 1 .. n /\ longer[start].stamp < cutoff
    <3>1. start \in 2 .. n - 1 /\ longer[start].stamp < cutoff
      <4> HIDE DEF start
      <4> QED
        BY <2>2
    <3> HIDE DEF start, n, longer
    <3> QED
      BY <2>1, <3>1
  <2> DEFINE rest == SubSeq(longer, start, n)
  <2>4. /\ History(rest, way, now)
        /\ rest # <<>> /\ rest[1] = longer[start] /\ rest[Len(rest)] = longer[n]
    <3> HIDE DEF start, longer
    <3> QED
      BY <1>1, <2>3, SuffixIsHistory
  <2>5. Add(s, sample) = rest
    BY <1>5, <1>7
  <2> HIDE DEF rest
  <2>6. Reaches(rest, first)
    BY <1>1, <2>3, <2>4 DEF Reaches
  <2> QED
    BY <1>1, <2>4, <2>5, <2>6
<1> QED
  BY <1>6, <1>7

-----------------------------------------------------------------------------
(* The inductive invariant.                                                *)

\* The history tells the way of the car, back to the first pose or far enough.
PosesInv ==
  /\ clock \in Nat \ {0}
  /\ journey \in Seq(Int) /\ Len(journey) = clock
  /\ speed \in Int
  /\ History(samples, journey, clock)
  /\ samples # <<>> => samples[Len(samples)].speed = speed /\ Reaches(samples, first_pose)

\* Every track is one the last scans account for.
TracksInv ==
  /\ tracks \in Seq(Tracks)
  /\ recent \in Memories
  /\ \A i \in 1 .. Len(tracks) : Sound(tracks[i], recent)

PerceptionInv == PosesInv /\ TracksInv

\* Where the history reaches, the poses of a scan are known.
LEMMA ScanIsTimed ==
  ASSUME NEW first \in Int, NEW increment \in {0, 1}, NEW hit
  PROVE  LET scan == Scan(first, increment, hit)
         IN  /\ Len(scan.ranges) = RayCount
             /\ DOMAIN scan.ranges = 1 .. RayCount
             /\ \A i \in 1 .. RayCount :
                  /\ scan.ranges[i] =
                       IF hit[i] = None THEN None
                       ELSE <<hit[i][1] - journey[first + i - 1], hit[i][2]>>
                  /\ RayStamp(scan, i) = first + i - 1
<1> DEFINE scan == Scan(first, increment, hit)
<1>1. RayCount \in Nat \ {0, 1}
  BY DriveAssumption
<1>2. /\ scan.first_ray_stamp = first /\ scan.time_increment = increment
      /\ scan.scan_time = RayCount - 1
      /\ scan.ranges = [i \in 1 .. RayCount |->
                          IF hit[i] = None THEN None
                          ELSE <<hit[i][1] - journey[first + i - 1], hit[i][2]>>]
  BY DEF Scan
<1> HIDE DEF scan
<1>3. Len(scan.ranges) = RayCount /\ DOMAIN scan.ranges = 1 .. RayCount
  BY <1>1, <1>2
<1>4. TimeIncrement(scan) = 1
  <2>1. (RayCount - 1) \div (RayCount - 1) = 1
    BY <1>1
  <2>2. RayCount > 1
    BY <1>1
  <2>3. CASE increment = 0
    BY <1>2, <1>3, <2>1, <2>2, <2>3 DEF TimeIncrement
  <2>4. CASE increment = 1
    BY <1>2, <2>4 DEF TimeIncrement
  <2> QED
    BY <2>3, <2>4
<1>5. \A i \in 1 .. RayCount : RayStamp(scan, i) = first + i - 1
  <2> SUFFICES ASSUME NEW i \in 1 .. RayCount PROVE RayStamp(scan, i) = first + i - 1
    OBVIOUS
  <2>1. RayStamp(scan, i) = first + 1 * (i - 1)
    BY <1>2, <1>4 DEF RayStamp
  <2> QED
    BY <1>1, <2>1
<1> QED
  BY <1>2, <1>3, <1>5 DEF scan

\* A scan is deskewed to points; to where the hit places are, if the poses are known.
LEMMA ScanIsDeskewed ==
  ASSUME PosesInv, NEW first \in FirstRays, NEW increment \in {0, 1}, NEW hit \in Hits
  PROVE  LET result == DeskewLaserScan(samples, Scan(first, increment, hit))
         IN  /\ result \in Seq(Points) \cup {None}
             /\ Present(hit) \in Seq(Points)
             /\ (\A i \in 1 .. RayCount :
                   PoseAt(samples, first + i - 1) = journey[first + i - 1])
                  => result = Present(hit)
<1> DEFINE scan == Scan(first, increment, hit)
           pose == [i \in DOMAIN scan.ranges |-> PoseAt(samples, RayStamp(scan, i))]
           hits == {i \in DOMAIN scan.ranges : scan.ranges[i] # None}
           points == [i \in DOMAIN scan.ranges |->
                        IF i \in hits THEN <<pose[i] + scan.ranges[i][1], scan.ranges[i][2]>>
                                      ELSE None]
           result == DeskewLaserScan(samples, scan)
<1>1. RayCount \in Nat \ {0, 1} /\ RayCount \in 1 .. RayCount
  BY DriveAssumption
<1>2. first \in 1 .. clock /\ first + RayCount - 1 <= clock /\ clock \in Nat
  BY DEF FirstRays, PosesInv
<1>3. \A i \in 1 .. RayCount : first + i - 1 \in 1 .. clock
  BY <1>1, <1>2
<1>4. \A t \in 1 .. clock : journey[t] \in Int
  BY DEF PosesInv
<1>5. /\ Len(scan.ranges) = RayCount
      /\ DOMAIN scan.ranges = 1 .. RayCount
      /\ \A i \in 1 .. RayCount :
           /\ scan.ranges[i] = IF hit[i] = None THEN None
                               ELSE <<hit[i][1] - journey[first + i - 1], hit[i][2]>>
           /\ RayStamp(scan, i) = first + i - 1
  <2>1. first \in Int
    BY <1>2
  <2> QED
    BY <2>1, ScanIsTimed
<1>6. result = IF PoseAt(samples, RayStamp(scan, Len(scan.ranges))) = None
                    \/ \E i \in hits : pose[i] = None
                 THEN None ELSE Present(points)
  BY DEF DeskewLaserScan, ReferencePose
<1> HIDE DEF scan, result
<1>7. \A i \in 1 .. RayCount : pose[i] = PoseAt(samples, first + i - 1)
  BY <1>5
<1>8. \A i \in 1 .. RayCount : pose[i] \in Int \cup {None}
  <2>1. History(samples, journey, clock)
    BY DEF PosesInv
  <2>2. \A i \in 1 .. RayCount : first + i - 1 \in Int
    BY <1>2
  <2>3. \A i \in 1 .. RayCount : PoseAt(samples, first + i - 1) \in Int \cup {None}
    BY <2>1, <2>2, PoseAtType
  <2> QED
    BY <1>7, <2>3
<1> HIDE DEF pose
<1>9. /\ hit \in Seq(Points \cup {None})
      /\ \A i \in 1 .. RayCount :
           /\ hit[i] \in Points \cup {None}
           /\ hit[i] # None => hit[i][1] \in Int /\ hit[i][2] \in Int
  <2>1. Places \subseteq Points
    BY DriveAssumption DEF Points
  <2> DEFINE X == Points \cup {None}
  <2>2. hit \in [1 .. RayCount -> X]
    BY <2>1 DEF Hits
  <2>3. hit \in Seq(X) /\ \A i \in 1 .. RayCount : hit[i] \in X
    <3> HIDE DEF X
    <3> QED
      BY <1>1, <2>2
  <2>4. \A i \in 1 .. RayCount : hit[i] # None => hit[i] \in Points
    BY <2>3
  <2> QED
    BY <2>3, <2>4 DEF Points
<1>10. \A i \in 1 .. RayCount : i \in hits <=> hit[i] # None
  <2> SUFFICES ASSUME NEW i \in 1 .. RayCount, hit[i] # None PROVE scan.ranges[i] # None
    BY <1>5
  <2>1. hit[i][1] - journey[first + i - 1] \in Int /\ hit[i][2] \in Int
    BY <1>3, <1>4, <1>9
  <2> DEFINE x == hit[i][1] - journey[first + i - 1]
             y == hit[i][2]
  <2>2. scan.ranges[i] = <<x, y>>
    BY <1>5
  <2> HIDE DEF x, y
  <2>3. <<x, y>> \in Int \X Int
    BY <2>1 DEF x, y
  <2> QED
    BY <2>2, <2>3, NoneAssumption
<1>11. \A i \in 1 .. RayCount :
         /\ hit[i] = None => points[i] = None
         /\ hit[i] # None =>
              points[i] = <<pose[i] + (hit[i][1] - journey[first + i - 1]), hit[i][2]>>
  <2>1. ASSUME NEW i \in 1 .. RayCount, hit[i] # None
        PROVE  /\ scan.ranges[i][1] = hit[i][1] - journey[first + i - 1]
               /\ scan.ranges[i][2] = hit[i][2]
    <3> DEFINE x == hit[i][1] - journey[first + i - 1]
               y == hit[i][2]
    <3>1. scan.ranges[i] = <<x, y>>
      BY <1>5, <2>1
    <3> HIDE DEF x, y
    <3>2. scan.ranges[i][1] = x /\ scan.ranges[i][2] = y
      BY <3>1
    <3> QED
      BY <3>2 DEF x, y
  <2> HIDE DEF hits
  <2> QED
    BY <1>5, <1>10, <2>1
<1>12. points = [i \in 1 .. RayCount |-> points[i]]
  BY <1>5
<1>13. Present(hit) \in Seq(Points)
  BY <1>9, PresentUnfolds
<1>14. ASSUME result # None PROVE result \in Seq(Points)
  <2>1. result = Present(points) /\ \A i \in hits : pose[i] # None
    BY <1>6, <1>14
  <2>2. \A i \in 1 .. RayCount : points[i] \in Points \cup {None}
    <3> SUFFICES ASSUME NEW i \in 1 .. RayCount, hit[i] # None PROVE points[i] \in Points
      BY <1>11
    <3>1. pose[i] \in Int
      <4> HIDE DEF hits
      <4> QED
        BY <1>8, <1>10, <2>1
    <3>2. pose[i] + (hit[i][1] - journey[first + i - 1]) \in Int /\ hit[i][2] \in Int
      BY <1>3, <1>4, <1>9, <3>1
    <3> HIDE DEF points
    <3> QED
      BY <1>11, <3>2 DEF Points
  <2> DEFINE X == Points \cup {None}
  <2>3. points \in Seq(X)
    <3> HIDE DEF points
    <3>1. \A i \in 1 .. RayCount : points[i] \in X
      BY <2>2
    <3> HIDE DEF X
    <3>2. points \in [1 .. RayCount -> X]
      BY <1>12, <3>1
    <3> QED
      BY <1>1, <3>2
  <2> HIDE DEF points
  <2> QED
    BY <2>1, <2>3, PresentUnfolds
<1>15. ASSUME \A i \in 1 .. RayCount :
                PoseAt(samples, first + i - 1) = journey[first + i - 1]
       PROVE  result = Present(hit)
  <2>1. \A i \in 1 .. RayCount :
          pose[i] = journey[first + i - 1] /\ pose[i] \in Int /\ pose[i] # None
    BY <1>3, <1>4, <1>7, <1>15, NoneAssumption
  <2>2. PoseAt(samples, RayStamp(scan, Len(scan.ranges))) # None
    BY <1>1, <1>5, <1>7, <2>1
  <2>3. \A i \in hits : pose[i] # None
    BY <1>5, <2>1
  <2>4. result = Present(points)
    <3> HIDE DEF hits, points
    <3> QED
      BY <1>6, <2>2, <2>3
  <2>5. \A i \in 1 .. RayCount : points[i] = hit[i]
    <3> SUFFICES ASSUME NEW i \in 1 .. RayCount, hit[i] # None PROVE points[i] = hit[i]
      BY <1>11
    <3>1. pose[i] + (hit[i][1] - journey[first + i - 1]) = hit[i][1]
      BY <1>9, <2>1
    <3>2. points[i] = <<hit[i][1], hit[i][2]>>
      <4> HIDE DEF points
      <4> QED
        BY <1>11, <3>1
    <3>3. hit[i] \in Int \X Int
      BY <1>9 DEF Points
    <3> HIDE DEF points
    <3> QED
      BY <3>2, <3>3
  <2>6. hit = [i \in 1 .. RayCount |-> hit[i]]
    BY DEF Hits
  <2>7. points = hit
    <3> HIDE DEF points
    <3> QED
      BY <1>12, <2>5, <2>6
  <2> QED
    BY <2>4, <2>7
<1> QED
  BY <1>13, <1>14, <1>15 DEF result, scan

\* A scan leaves sound tracks, traced to their confirming scans if none was
\* confirmed before.
LEMMA ScanIsSound ==
  ASSUME TracksInv, NEW points \in Seq(Points), NEW traceable \in BOOLEAN,
         traceable => FieldPoints = {} \/ Stale
  PROVE  LET result == Update(Cleared, points)
             memory == Remember(points)
         IN  /\ result \in Seq(Tracks)
             /\ memory \in Memories
             /\ \A i \in 1 .. Len(result) :
                  /\ Sound(result[i], memory)
                  /\ traceable => Traced(result[i].point, result[i].hits, memory)
<1> DEFINE old == IF Stale THEN <<>> ELSE recent
           newest == ToSet(points)
           all == Append(old, newest)
           result == Update(Cleared, points)
           memory == Remember(points)
<1>1. old \in Memories
  BY DEF TracksInv, Memories
<1>2. newest \in SUBSET Points /\ \A i \in 1 .. Len(points) : points[i] \in newest
  BY DEF ToSet
<1>3. Cleared \in Seq(Tracks)
  BY DEF Cleared, TracksInv
<1>4. BeforeScan(Cleared, old, traceable)
  <2>1. CASE Stale
    BY <2>1 DEF Cleared, BeforeScan
  <2>2. CASE ~Stale
    <3>1. Cleared = tracks /\ old = recent
      BY <2>2 DEF Cleared
    <3>2. ASSUME traceable, NEW i \in 1 .. Len(tracks) PROVE ~tracks[i].confirmed
      <4>1. ConfirmedPoints(tracks) = {}
        BY <2>2, <3>2 DEF FieldPoints
      <4>2. i \in DOMAIN tracks
        BY DEF TracksInv
      <4> QED
        BY <4>1, <4>2 DEF ConfirmedPoints
    <3> QED
      BY <3>1, <3>2 DEF BeforeScan, TracksInv
  <2> QED
    BY <2>1, <2>2
<1>5. memory = SubSeq(all, Max({1, Len(all)
                                     - Max({ConfirmationUpdates, PersistenceUpdates + 1}) + 1}),
                      Len(all))
  BY DEF Remember
<1>6. all \in Memories /\ all # <<>>
  <2> HIDE DEF old, newest
  <2>1. all \in Memories /\ Len(all) = Len(old) + 1 /\ Len(old) \in Nat
    BY <1>1, <1>2, MemoryGrows
  <2> QED
    BY <2>1
<1> HIDE DEF old, newest
<1>7. /\ result \in Seq(Tracks)
      /\ \A i \in 1 .. Len(result) :
           /\ Sound(result[i], all)
           /\ traceable => Traced(result[i].point, result[i].hits, all)
  BY <1>1, <1>2, <1>3, <1>4, UpdateIsSound
<1> HIDE DEF all, result, memory
<1>8. memory \in Memories
  BY <1>5, <1>6, CutMemory
<1>9. ASSUME NEW i \in 1 .. Len(result)
      PROVE  /\ Sound(result[i], memory)
             /\ traceable => Traced(result[i].point, result[i].hits, memory)
  <2>1. result[i] \in Tracks
    BY <1>7
  <2>2. /\ Sound(result[i], memory)
        /\ Traced(result[i].point, result[i].hits, all)
             => Traced(result[i].point, result[i].hits, memory)
    BY <1>5, <1>6, <1>7, <2>1, CutKeepsSound
  <2> QED
    BY <1>7, <2>2
<1> QED
  BY <1>7, <1>8, <1>9 DEF result, memory

-----------------------------------------------------------------------------
(* The steps.                                                              *)

\* A new pose goes to the end of a history that is empty or ends before now.
LEMMA PoseIsAdded ==
  ASSUME PosesInv, NEW v \in Speeds, NEW s, NEW first, History(s, journey, clock),
         s # <<>> => s[Len(s)].stamp < clock /\ Reaches(s, first),
         s = <<>> => first = clock
  PROVE  LET longer == Add(s, [stamp |-> clock, east |-> journey[clock], speed |-> v])
         IN  /\ History(longer, journey, clock)
             /\ longer # <<>> => longer[Len(longer)].speed = v /\ Reaches(longer, first)
             /\ v \in Int
<1> DEFINE sample == [stamp |-> clock, east |-> journey[clock], speed |-> v]
<1>1. clock \in Nat \ {0} /\ journey[clock] \in Int /\ v \in Int
  BY DriveAssumption DEF PosesInv
<1>2. sample \in Poses /\ sample.stamp = clock /\ sample.east = journey[clock] /\ sample.speed = v
  BY <1>1 DEF Poses
<1> HIDE DEF sample
<1>3. /\ History(Add(s, sample), journey, clock)
      /\ Add(s, sample)[Len(Add(s, sample))] = sample
      /\ Reaches(Add(s, sample), first)
  BY <1>1, <1>2, AddKeepsHistory
<1> QED
  BY <1>1, <1>2, <1>3 DEF sample

\* The car starts, and nothing is known of it.
LEMMA InitPerceptionInv == Init => PerceptionInv
<1> SUFFICES ASSUME Init PROVE PerceptionInv
  OBVIOUS
<1>1. speed \in Int
  <2>1. PICK top \in Speeds : \A v \in Speeds : v <= top
    BY DriveAssumption
  <2>2. Max(Speeds) \in Speeds
    <3>1. \A v \in Speeds : top >= v
      BY <2>1, DriveAssumption
    <3> QED
      BY <2>1, <3>1 DEF Max
  <2> QED
    BY <2>2, DriveAssumption DEF Init
<1>2. clock = 1 /\ journey \in Seq(Int) /\ Len(journey) = 1 /\ samples = <<>>
  BY DEF Init
<1>3. History(samples, journey, clock)
  <2>1. samples \in Seq(Poses) /\ Len(samples) = 0
    BY <1>2
  <2>2. 1 .. Len(samples) = {} /\ 1 .. Len(samples) - 1 = {}
    BY <2>1
  <2> QED
    BY <1>2, <2>1, <2>2 DEF History
<1>4. PosesInv
  BY <1>1, <1>2, <1>3 DEF PosesInv
<1>5. TracksInv
  BY DEF Init, TracksInv, Memories
<1> QED
  BY <1>4, <1>5 DEF PerceptionInv

\* A tick.
LEMMA DriveKeeps == ASSUME PerceptionInv, Drive PROVE PerceptionInv'
<1> DEFINE onward == Append(journey, journey[clock] + speed)
<1>1. /\ clock \in Nat /\ clock # 0 /\ journey \in Seq(Int) /\ Len(journey) = clock
      /\ speed \in Int /\ History(samples, journey, clock)
      /\ samples # <<>> => samples[Len(samples)].speed = speed /\ Reaches(samples, first_pose)
  BY DEF PerceptionInv, PosesInv
<1>2. History(samples, onward, clock + 1)
  BY <1>1, DrivingKeepsHistory
<1>3. onward \in Seq(Int) /\ Len(onward) = clock + 1
  BY <1>1
<1>4. /\ clock' = clock + 1 /\ journey' = onward /\ speed' = speed
      /\ samples' = samples /\ first_pose' = first_pose /\ tracks' = tracks /\ recent' = recent
  BY DEF Drive, poseVars, trackVars
<1> HIDE DEF onward
<1>5. PosesInv'
  BY <1>1, <1>2, <1>3, <1>4 DEF PosesInv
<1>6. TracksInv'
  BY <1>4 DEF PerceptionInv, TracksInv
<1> QED
  BY <1>5, <1>6 DEF PerceptionInv

\* A pose is accepted.
LEMMA AddPoseKeeps == ASSUME PerceptionInv, AddPose PROVE PerceptionInv'
<1>1. PosesInv /\ TracksInv
  BY DEF PerceptionInv
<1>2. PICK v \in Speeds : speed' = v
  BY DEF AddPose
<1> DEFINE first == IF samples = <<>> THEN clock ELSE first_pose
           longer == Add(samples, [stamp |-> clock, east |-> journey[clock], speed |-> v])
<1>3. /\ samples' = longer /\ first_pose' = first
      /\ clock' = clock /\ journey' = journey /\ tracks' = tracks /\ recent' = recent
  BY <1>2 DEF AddPose, trackVars
<1>4. History(samples, journey, clock)
  BY <1>1 DEF PosesInv
<1>5. samples # <<>> => samples[Len(samples)].stamp < clock /\ Reaches(samples, first)
  BY <1>1 DEF AddPose, Last, PosesInv
<1>6. samples = <<>> => first = clock
  OBVIOUS
<1> HIDE DEF first
<1>7. /\ History(longer, journey, clock)
      /\ longer # <<>> => longer[Len(longer)].speed = v /\ Reaches(longer, first)
      /\ v \in Int
  BY <1>1, <1>4, <1>5, <1>6, PoseIsAdded
<1> HIDE DEF longer
<1>8. PosesInv'
  BY <1>1, <1>2, <1>3, <1>7 DEF PosesInv
<1>9. TracksInv'
  BY <1>1, <1>3 DEF TracksInv
<1> QED
  BY <1>8, <1>9 DEF PerceptionInv

\* A pose of the next epoch is accepted.
LEMMA ResetAndAddPoseKeeps == ASSUME PerceptionInv, ResetAndAddPose PROVE PerceptionInv'
<1>1. PosesInv /\ TracksInv
  BY DEF PerceptionInv
<1>2. PICK v \in Speeds : speed' = v
  BY DEF ResetAndAddPose
<1> DEFINE none == <<>>
           longer == Add(none, [stamp |-> clock, east |-> journey[clock], speed |-> v])
<1>3. /\ samples' = longer /\ first_pose' = clock
      /\ clock' = clock /\ journey' = journey /\ tracks' = tracks /\ recent' = recent
  BY <1>2 DEF ResetAndAddPose, trackVars
<1>4. History(none, journey, clock)
  <2>1. none \in Seq(Poses) /\ Len(none) = 0
    OBVIOUS
  <2>2. 1 .. Len(none) = {} /\ 1 .. Len(none) - 1 = {}
    BY <2>1
  <2> QED
    BY <2>1, <2>2 DEF History
<1>5. none = <<>>
  OBVIOUS
<1> HIDE DEF none
<1>6. /\ History(longer, journey, clock)
      /\ longer # <<>> => longer[Len(longer)].speed = v /\ Reaches(longer, clock)
      /\ v \in Int
  BY <1>1, <1>4, <1>5, PoseIsAdded
<1> HIDE DEF longer
<1>7. PosesInv'
  BY <1>1, <1>2, <1>3, <1>6 DEF PosesInv
<1>8. TracksInv'
  BY <1>1, <1>3 DEF TracksInv
<1> QED
  BY <1>7, <1>8 DEF PerceptionInv

\* What is deskewed are points.
LEMMA DeskewedType ==
  ASSUME PosesInv, NEW points \in Deskewed \ {None}
  PROVE  points \in Seq(Points)
<1>1. PICK first \in FirstRays, hit \in Hits :
             points = DeskewLaserScan(samples, Scan(first, 0, hit))
  BY DEF Deskewed
<1>2. 0 \in {0, 1}
  OBVIOUS
<1>3. points \in Seq(Points) \cup {None}
  BY <1>1, <1>2, ScanIsDeskewed
<1> QED
  BY <1>3

\* A scan is processed.
LEMMA ProcessScanKeeps == ASSUME PerceptionInv, ProcessScan PROVE PerceptionInv'
<1>1. PosesInv /\ TracksInv
  BY DEF PerceptionInv
<1>2. PICK points \in Deskewed \ {None} :
             tracks' = Update(Cleared, points) /\ recent' = Remember(points)
  BY DEF ProcessScan
<1>3. points \in Seq(Points) /\ FALSE \in BOOLEAN
  BY <1>1, DeskewedType
<1> DEFINE result == Update(Cleared, points)
           memory == Remember(points)
<1>4. /\ result \in Seq(Tracks) /\ memory \in Memories
      /\ \A i \in 1 .. Len(result) : Sound(result[i], memory)
  BY <1>1, <1>3, ScanIsSound
<1>5. tracks' = result /\ recent' = memory
  BY <1>2
<1> HIDE DEF result, memory
<1>6. TracksInv'
  BY <1>4, <1>5 DEF TracksInv
<1>7. PosesInv'
  <2>1. UNCHANGED <<clock, journey, speed, samples, first_pose>>
    BY DEF ProcessScan, driveVars, poseVars
  <2> QED
    BY <1>1, <2>1 DEF PosesInv
<1> QED
  BY <1>6, <1>7 DEF PerceptionInv

\* Nothing happens.
LEMMA StutterKeeps == ASSUME PerceptionInv, UNCHANGED vars PROVE PerceptionInv'
<1>1. UNCHANGED <<clock, journey, speed, samples, first_pose, tracks, recent>>
  BY DEF vars, driveVars, poseVars, trackVars
<1> QED
  BY <1>1 DEF PerceptionInv, PosesInv, TracksInv

\* The invariant holds of every state.
THEOREM PerceptionInvariance == Spec => []PerceptionInv
<1>1. PerceptionInv /\ [Next]_vars => PerceptionInv'
  <2> SUFFICES ASSUME PerceptionInv, [Next]_vars PROVE PerceptionInv'
    OBVIOUS
  <2>1. CASE Drive
    BY <2>1, DriveKeeps
  <2>2. CASE AddPose
    BY <2>2, AddPoseKeeps
  <2>3. CASE ResetAndAddPose
    BY <2>3, ResetAndAddPoseKeeps
  <2>4. CASE ProcessScan
    BY <2>4, ProcessScanKeeps
  <2>5. CASE DropScan
    BY <2>5, StutterKeeps DEF DropScan
  <2>6. CASE UNCHANGED vars
    BY <2>6, StutterKeeps
  <2> QED
    BY <2>1, <2>2, <2>3, <2>4, <2>5, <2>6 DEF Next
<1> QED
  BY <1>1, InitPerceptionInv, PTL DEF Spec

-----------------------------------------------------------------------------
(* The properties.                                                         *)

\* Scans are put where the places stand, and none within the retention is lost:
\* dropping old poses (PoseHistory::Add) keeps every pose the interpolation needs.
THEOREM DeskewCorrect == Spec => []StandingPlacesStand
<1>1. PerceptionInv => StandingPlacesStand
  <2> SUFFICES ASSUME PerceptionInv, NEW first \in FirstRays, NEW increment \in {0, 1},
                      NEW hit \in Hits, Covered(first)
               PROVE  DeskewLaserScan(samples, Scan(first, increment, hit)) = Present(hit)
    BY DEF StandingPlacesStand
  <2>1. PosesInv
    BY DEF PerceptionInv
  <2>2. /\ samples # <<>> /\ History(samples, journey, clock) /\ clock \in Nat
        /\ Reaches(samples, first_pose)
    BY <2>1 DEF Covered, PosesInv
  <2>3. samples[1].stamp \in Int /\ samples[Len(samples)].stamp \in Int
    BY <2>2, HistoryTypes
  <2>4. /\ first >= first_pose
        /\ first >= samples[Len(samples)].stamp - Retention
        /\ first + RayCount - 1 <= samples[Len(samples)].stamp + MaximumExtrapolation
    BY DEF Covered, Last
  <2>5. first \in Int /\ first + RayCount - 1 <= clock
    BY <2>2 DEF FirstRays
  <2>6. RayCount \in Nat /\ Retention \in Nat /\ MaximumExtrapolation \in Nat
    BY DriveAssumption, ObstacleConfigAssumption
  <2>7. samples[1].stamp <= first
    BY <2>2, <2>3, <2>4, <2>5, <2>6 DEF Reaches
  <2>8. ASSUME NEW i \in 1 .. RayCount
        PROVE  PoseAt(samples, first + i - 1) = journey[first + i - 1]
    <3> DEFINE stamp == first + i - 1
    <3>1. /\ stamp \in Int /\ samples[1].stamp <= stamp /\ stamp <= clock
          /\ stamp <= samples[Len(samples)].stamp + MaximumExtrapolation
      <4>1. i \in Nat /\ 1 <= i /\ i <= RayCount /\ RayCount \in Nat
        BY <2>6
      <4>2. stamp \in Int /\ first <= stamp /\ stamp <= first + RayCount - 1
        BY <2>5, <4>1
      <4> DEFINE oldest == samples[1].stamp
                 newest == samples[Len(samples)].stamp
      <4>3. /\ oldest \in Int /\ newest \in Int /\ oldest <= first
            /\ first + RayCount - 1 <= newest + MaximumExtrapolation
            /\ clock \in Nat
        BY <2>2, <2>3, <2>4, <2>7
      <4> HIDE DEF oldest, newest, stamp
      <4>4. /\ oldest <= stamp /\ stamp <= clock
            /\ stamp <= newest + MaximumExtrapolation
        BY <2>5, <2>6, <4>2, <4>3
      <4> QED
        BY <4>2, <4>4 DEF oldest, newest
    <3> HIDE DEF stamp
    <3>2. PoseAt(samples, stamp) = journey[stamp]
      BY <2>2, <3>1, PoseAtIsWay
    <3> QED
      BY <3>2 DEF stamp
  <2> QED
    BY <2>1, <2>8, ScanIsDeskewed
<1> QED
  BY <1>1, PerceptionInvariance, PTL

\* The search of nine cells with the cells the tracks had when the scan began finds
\* what a search of all tracks would (TemporalObstacleFilter::Update).
THEOREM SearchCorrect == Spec => []SpatialIndexIsExact
<1>1. PerceptionInv => SpatialIndexIsExact
  <2> SUFFICES ASSUME PerceptionInv, NEW hit \in Hits, NEW i \in DOMAIN Present(hit)
               PROVE  LET observations == Present(hit)
                          after == Associations(tracks, observations)
                      IN  Candidates(after[i - 1].tracks, SpatialIndex(tracks),
                                     after[i - 1].matched, observations[i])
                            = Associable(after[i - 1].tracks, after[i - 1].matched,
                                         observations[i])
    BY DEF SpatialIndexIsExact
  <2> DEFINE observations == Present(hit)
             before == Associations(tracks, observations)[i - 1]
  <2>1. tracks \in Seq(Tracks)
    BY DEF PerceptionInv, TracksInv
  <2>2. observations \in Seq(Points)
    <3> DEFINE X == Points \cup {None}
    <3>1. hit \in [1 .. RayCount -> X]
      BY DriveAssumption DEF Hits, Points
    <3>2. hit \in Seq(X)
      <4> HIDE DEF X
      <4> QED
        BY <3>1, DriveAssumption
    <3> QED
      BY <3>2, PresentUnfolds
  <2> HIDE DEF observations
  <2>3. i \in 1 .. Len(observations)
    BY <2>2 DEF observations
  <2>4. i - 1 \in 0 .. Len(observations) /\ observations[i] \in Points
    BY <2>2, <2>3
  <2>5. before \in Matchings
    BY <2>1, <2>2, <2>4, AssociationsUnfold
  <2>6. IsUntouched(tracks, before)
    BY <2>1, <2>2, <2>4, AssociationsTouchMatched
  <2> HIDE DEF before
  <2>7. Candidates(before.tracks, SpatialIndex(tracks), before.matched, observations[i])
          = Associable(before.tracks, before.matched, observations[i])
    BY <2>1, <2>4, <2>5, <2>6, SearchIsExact
  <2> QED
    BY <2>7 DEF before, observations
<1> QED
  BY <1>1, PerceptionInvariance, PTL

\* A point of the field was hit by a scan of this epoch no longer ago than
\* persistence_updates (TemporalObstacleFilter::Update, and its clear on a reset).
THEOREM FieldIsRecent == Spec => []FieldPointsAreRecent
<1>1. PerceptionInv => FieldPointsAreRecent
  <2> SUFFICES ASSUME PerceptionInv, NEW p \in FieldPoints
               PROVE  \E i \in DOMAIN recent :
                        p \in recent[i] /\ Len(recent) - i <= PersistenceUpdates
    BY DEF FieldPointsAreRecent
  <2>1. tracks \in Seq(Tracks) /\ recent \in Memories
    BY DEF PerceptionInv, TracksInv
  <2>2. PICK j \in 1 .. Len(tracks) : p = tracks[j].point
    BY <2>1 DEF FieldPoints, ConfirmedPoints
  <2>3. tracks[j] \in Tracks /\ Sound(tracks[j], recent)
    BY <2>1 DEF PerceptionInv, TracksInv
  <2>4. tracks[j].missed \in Nat /\ tracks[j].missed <= PersistenceUpdates
    BY <2>3 DEF Tracks, Sound
  <2>5. tracks[j].missed < Len(recent) /\ p \in recent[Len(recent) - tracks[j].missed]
    BY <2>2, <2>3 DEF Sound, Remembers
  <2>6. Len(recent) \in Nat /\ DOMAIN recent = 1 .. Len(recent)
    BY <2>1 DEF Memories
  <2> DEFINE i == Len(recent) - tracks[j].missed
  <2>7. i \in 1 .. Len(recent) /\ Len(recent) - i = tracks[j].missed
    BY <2>4, <2>5, <2>6
  <2> QED
    BY <2>4, <2>5, <2>6, <2>7
<1> QED
  BY <1>1, PerceptionInvariance, PTL

\* A track enters the field only after confirmation_updates consecutive scans, each
\* within the association distance of the next (TemporalObstacleFilter::Update).
THEOREM ConfirmationCorrect == Spec => ConfirmedByConsecutiveScans
<1> DEFINE Confirmed(points, memory) ==
             \A p \in points :
               /\ Len(memory) >= ConfirmationUpdates
               /\ \A back \in 0 .. ConfirmationUpdates - 1 :
                    \E q \in memory[Len(memory) - back] :
                      Squared(p, q) <= back * back * AssociationDistance * AssociationDistance
<1>1. ASSUME PerceptionInv, [Next]_vars, FieldPoints = {} \/ Stale
      PROVE  Confirmed(FieldPoints', recent') \/ UNCHANGED trackVars
  <2>1. CASE ProcessScan
    <3>1. PosesInv /\ TracksInv
      BY <1>1 DEF PerceptionInv
    <3>2. PICK points \in Deskewed \ {None} :
                 tracks' = Update(Cleared, points) /\ recent' = Remember(points)
      BY <2>1 DEF ProcessScan
    <3>3. points \in Seq(Points)
      BY <3>1, DeskewedType
    <3> DEFINE result == Update(Cleared, points)
               memory == Remember(points)
               traceable == TRUE
    <3>4. traceable \in BOOLEAN /\ (traceable => FieldPoints = {} \/ Stale)
      BY <1>1
    <3> HIDE DEF traceable
    <3>5. /\ result \in Seq(Tracks) /\ memory \in Memories
          /\ \A i \in 1 .. Len(result) :
               /\ Sound(result[i], memory)
               /\ traceable => Traced(result[i].point, result[i].hits, memory)
      BY <3>1, <3>3, <3>4, ScanIsSound
    <3> HIDE DEF result, memory
    <3>6. ASSUME NEW i \in 1 .. Len(result), result[i].confirmed
          PROVE  Traced(result[i].point, ConfirmationUpdates, memory)
      BY <3>5, <3>6 DEF Sound, Counts, traceable
    <3>7. Len(memory) \in Nat /\ ConfirmationUpdates \in Nat
      BY <3>5, ObstacleConfigAssumption DEF Memories
    <3>8. Confirmed(ConfirmedPoints(result), memory)
      <4> SUFFICES ASSUME NEW p \in ConfirmedPoints(result)
                   PROVE  Traced(p, ConfirmationUpdates, memory)
        BY <3>7 DEF Traced
      <4>1. PICK i \in 1 .. Len(result) : result[i].confirmed /\ p = result[i].point
        BY <3>5 DEF ConfirmedPoints
      <4> QED
        BY <3>6, <4>1
    <3> HIDE DEF Confirmed
    <3>9. FieldPoints' = ConfirmedPoints(result) /\ recent' = memory
      BY <3>2 DEF FieldPoints, result, memory
    <3> QED
      BY <3>8, <3>9
  <2>2. CASE ~ProcessScan
    BY <1>1, <2>2 DEF Next, Drive, AddPose, ResetAndAddPose, DropScan, vars
  <2> QED
    BY <2>1, <2>2
<1> DEFINE Step == FieldPoints = {} \/ Stale => Confirmed(FieldPoints', recent')
<1>2. PerceptionInv /\ [Next]_vars => [Step]_trackVars
  <2> HIDE DEF Confirmed
  <2> QED
    BY <1>1
<1>3. [Step]_trackVars <=>
        [FieldPoints = {} \/ Stale =>
           \A p \in FieldPoints' :
             /\ Len(recent') >= ConfirmationUpdates
             /\ \A back \in 0 .. ConfirmationUpdates - 1 :
                  \E q \in recent'[Len(recent') - back] :
                    Squared(p, q) <= back * back * AssociationDistance * AssociationDistance
        ]_trackVars
  OBVIOUS
<1> HIDE DEF Step
<1> QED
  BY <1>2, <1>3, PerceptionInvariance, PTL DEF Spec, ConfirmedByConsecutiveScans

-----------------------------------------------------------------------------
(* The distance transform.                                                 *)

\* A share of the scale.
LEMMA ShareOfScale ==
  ASSUME NEW d \in Nat \ {0}
  PROVE  Scale \div d \in 0 .. Scale
<1> DEFINE whole == Scale
           share == whole \div d
           rest == whole % d
<1>1. whole \in Nat
  BY GridAssumption
<1>2. share \in Int /\ rest \in 0 .. d - 1 /\ whole = d * share + rest
  <2> HIDE DEF whole
  <2> QED
    BY <1>1
<1> HIDE DEF share, rest, whole
<1>3. share \in Nat
  <2> SUFFICES ASSUME share < 0 PROVE FALSE
    BY <1>2
  <2> DEFINE e == -1 - share
  <2>1. e \in Nat /\ share = -1 - e
    BY <1>2
  <2> HIDE DEF e
  <2>2. d * (-1 - e) = -d - d * e /\ d * e \in Nat
    BY <2>1
  <2> QED
    BY <1>1, <1>2, <2>1, <2>2
<1>4. share <= whole
  <2> DEFINE f == d - 1
  <2>1. f \in Nat /\ d = 1 + f
    OBVIOUS
  <2> HIDE DEF f
  <2>2. (1 + f) * share = share + f * share /\ f * share \in Nat
    BY <1>3, <2>1
  <2> QED
    BY <1>1, <1>2, <1>3, <2>1, <2>2
<1> QED
  BY <1>1, <1>3, <1>4 DEF share, whole

\* No intersection is below the first piece.
LEMMA CrossingIsAbove ==
  ASSUME NEW a \in Nat, NEW b \in Nat, NEW d \in Nat \ {0}
  PROVE  /\ Difference(a, b) * (Scale \div (2 * d)) \in Int
         /\ Difference(a, b) * (Scale \div (2 * d)) > -Infinity
<1> DEFINE difference == Difference(a, b)
           share == Scale \div (2 * d)
<1>1. Scale \in Nat /\ Large \in Nat
  BY GridAssumption, LargeAssumption
<1>2. difference \in Int /\ difference + Large \in Nat
  <2>1. CASE a >= Large /\ b >= Large
    <3>1. difference = 0
      BY <1>1, <2>1 DEF Difference
    <3> QED
      BY <1>1, <3>1
  <2>2. CASE a >= Large /\ b < Large
    <3>1. difference = Large
      BY <1>1, <2>2 DEF Difference
    <3> QED
      BY <1>1, <3>1
  <2>3. CASE a < Large /\ b >= Large
    <3>1. difference = -Large
      BY <1>1, <2>3 DEF Difference
    <3> QED
      BY <1>1, <3>1
  <2>4. CASE a < Large /\ b < Large
    <3>1. difference = a - b
      BY <1>1, <2>4 DEF Difference
    <3> QED
      BY <1>1, <2>4, <3>1
  <2> QED
    BY <1>1, <2>1, <2>2, <2>3, <2>4
<1>3. share \in 0 .. Scale
  <2>1. 2 * d \in Nat \ {0}
    OBVIOUS
  <2> HIDE DEF share
  <2> QED
    BY <2>1, ShareOfScale DEF share
<1> HIDE DEF difference, share
<1>4. share \in Nat /\ share <= Scale
  BY <1>1, <1>3
<1>5. 0 <= (difference + Large) * share
  BY <1>2, <1>4
<1>6. (difference + Large) * share = difference * share + Large * share
  BY <1>1, <1>2, <1>4
<1>7. Large * share <= Large * Scale /\ Large * Scale = Scale * Large
  BY <1>1, <1>4, TimesIsMonotone
<1> DEFINE x == difference * share
           y == Large * share
           z == Scale * Large
<1>8. x \in Int /\ y \in Int /\ z \in Int
  BY <1>1, <1>2, <1>4
<1>9. 0 <= x + y /\ y <= z
  BY <1>5, <1>6, <1>7
<1>10. x > -(z + 1)
  <2> HIDE DEF x, y, z
  <2> QED
    BY <1>8, <1>9
<1> QED
  BY <1>8, <1>10 DEF Infinity, difference, share

\* The pieces after the parabolas up to "last": the first begins below, the last
\* ends above all cells.
Envelopes(count, last) ==
  {e \in [k : 0 .. last, locations : [0 .. count - 1 -> 0 .. last],
          boundaries : [0 .. count -> Int]] :
     e.boundaries[0] = -Infinity /\ e.boundaries[e.k + 1] = Infinity}

\* Infinity is a number, above every cell.
LEMMA InfinityType ==
  /\ Infinity \in Int /\ -Infinity \in Int
  /\ \A q \in Nat : q <= Large => Scale * q \in Int /\ Scale * q <= Infinity
<1>1. Scale \in Nat /\ Large \in Nat
  BY GridAssumption, LargeAssumption
<1> DEFINE z == Scale * Large
<1>2. z \in Nat
  BY <1>1
<1>3. Infinity = z + 1
  BY DEF Infinity
<1>4. ASSUME NEW q \in Nat, q <= Large PROVE Scale * q \in Int /\ Scale * q <= z
  BY <1>1, <1>4, TimesIsMonotone
<1> HIDE DEF z
<1>5. ASSUME NEW q \in Nat, q <= Large PROVE Scale * q \in Int /\ Scale * q <= z + 1
  <2> DEFINE x == Scale * q
  <2>1. x \in Int /\ x <= z
    BY <1>4, <1>5
  <2> HIDE DEF x
  <2>2. x \in Int /\ x <= z + 1
    BY <1>2, <2>1
  <2> QED
    BY <2>2 DEF x
<1> QED
  BY <1>2, <1>3, <1>5

\* The do-while ends at a piece there is.
LEMMA FitIsAPiece ==
  ASSUME NEW count \in Nat, NEW input \in [0 .. count - 1 -> Nat],
         NEW q \in 1 .. count - 1, NEW e \in Envelopes(count, q - 1)
  PROVE  FitParabola(input, q, e) \in [k : 0 .. e.k, boundary : Int]
<1> DEFINE top == e.k
           crossing == [k \in 0 .. top |-> Intersection(input, q, e.locations[k])]
           Unfolded(f) ==
             [k \in 0 .. top |->
                FitPiece(e.boundaries, k, Intersection(input, q, e.locations[k]), f[k - 1])]
           fit == CHOOSE f : f = Unfolded(f)
           S == [k : 0 .. top, boundary : Int]
           start == [k |-> 0, boundary |-> crossing[0]]
           step == [n \in 1 .. top |-> [s \in S |->
                      FitPiece(e.boundaries, n, crossing[n], s)]]
<1>1. FitParabola(input, q, e) = fit[top]
  BY DEF FitParabola
<1>2. /\ top \in Nat /\ top <= q - 1 /\ q \in Nat /\ q <= count - 1
      /\ \A k \in 0 .. top : e.locations[k] \in 0 .. q - 1 /\ e.boundaries[k] \in Int
      /\ e.boundaries[0] = -Infinity
  <2>1. /\ top \in 0 .. q - 1 /\ e.locations \in [0 .. count - 1 -> 0 .. q - 1]
        /\ e.boundaries \in [0 .. count -> Int] /\ e.boundaries[0] = -Infinity
    BY DEF Envelopes
  <2> HIDE DEF top
  <2>2. \A k \in 0 .. top : k \in 0 .. count - 1 /\ k \in 0 .. count
    BY <2>1
  <2> QED
    BY <2>1, <2>2
<1>3. ASSUME NEW k \in 0 .. top PROVE crossing[k] \in Int /\ crossing[k] > -Infinity
  <2> DEFINE l == e.locations[k]
             a == Widen(input[q], q * q)
             b == Widen(input[l], l * l)
  <2>1. l \in 0 .. q - 1 /\ q \in 0 .. count - 1 /\ l \in 0 .. count - 1
    BY <1>2
  <2>2. crossing[k] = Difference(a, b) * (Scale \div (2 * (q - l)))
    BY DEF Intersection
  <2> HIDE DEF l, crossing
  <2>3. q - l \in Nat \ {0} /\ l \in Nat
    BY <1>2, <2>1
  <2>4. \A x \in Nat, y \in Nat : Widen(x, y * y) \in Nat
    BY LargeAssumption, SquareIsNat DEF Widen
  <2>5. a \in Nat /\ b \in Nat
    BY <1>2, <2>1, <2>3, <2>4
  <2> HIDE DEF a, b
  <2> QED
    BY <2>2, <2>3, <2>5, CrossingIsAbove
<1>4. \A k \in 0 .. top : Intersection(input, q, e.locations[k]) = crossing[k]
  OBVIOUS
<1>5. 0 \in 0 .. top /\ top \in 0 .. top
  BY <1>2
<1> HIDE DEF crossing
<1>6. start \in S
  BY <1>3, <1>5
<1>7. ASSUME NEW n \in 1 .. top, NEW s \in S
      PROVE  FitPiece(e.boundaries, n, crossing[n], s) \in S
  <2>1. n \in 0 .. top /\ n - 1 \in 0 .. top /\ n > 0
    BY <1>2
  <2>2. crossing[n] \in Int /\ e.boundaries[n] \in Int /\ e.boundaries[n - 1] \in Int
    BY <1>2, <1>3, <2>1
  <2>3. [k |-> n, boundary |-> crossing[n]] \in S /\ [k |-> n - 1, boundary |-> crossing[n]] \in S
    BY <2>1, <2>2
  <2> HIDE DEF S
  <2> QED
    BY <2>1, <2>2, <2>3 DEF FitPiece
<1>8. \A n \in 1 .. top : \A s \in S :
        /\ step[n][s] = FitPiece(e.boundaries, n, crossing[n], s)
        /\ step[n][s] \in S
  BY <1>7
<1> HIDE DEF step, S, start, top
<1>9. PICK f : IsChain(f, S, start, top, step)
  BY <1>2, <1>6, <1>8, StepsCompose
<1>10. \A below : FitPiece(e.boundaries, 0, crossing[0], below) = start
  BY <1>2, <1>3, <1>5 DEF FitPiece, start
<1>11. \E g : g = Unfolded(g)
  <2>1. f = [k \in 0 .. top |-> f[k]]
    BY <1>9 DEF IsChain
  <2>2. ASSUME NEW k \in 0 .. top
        PROVE  f[k] = FitPiece(e.boundaries, k, Intersection(input, q, e.locations[k]), f[k - 1])
    <3>1. CASE k = 0
      BY <1>4, <1>5, <1>9, <1>10, <3>1 DEF IsChain
    <3>2. CASE k # 0
      <4>1. k \in 1 .. top /\ k - 1 \in 0 .. top
        BY <1>2, <3>2
      <4>2. f[k - 1] \in S /\ f[k] = step[k][f[k - 1]]
        BY <1>9, <4>1 DEF IsChain
      <4> QED
        BY <1>4, <1>8, <4>1, <4>2
    <3> QED
      BY <3>1, <3>2
  <2> QED
    BY <2>1, <2>2
<1>12. fit = Unfolded(fit)
  BY <1>11
<1> HIDE DEF fit
<1>13. \A k \in 0 .. top : fit[k] = FitPiece(e.boundaries, k, crossing[k], fit[k - 1])
  BY <1>4, <1>12
<1> DEFINE T == {n \in 0 .. top : fit[n] \in S}
<1>14. 0 \in T
  BY <1>5, <1>6, <1>10, <1>13
<1>15. ASSUME NEW n \in 1 .. top, n - 1 \in T PROVE n \in T
  <2>1. n \in 0 .. top /\ fit[n - 1] \in S
    BY <1>2, <1>15
  <2>2. fit[n] \in S
    BY <1>7, <1>13, <2>1
  <2> QED
    BY <2>1, <2>2
<1> HIDE DEF T
<1>16. top \in T
  BY <1>2, <1>5, <1>14, <1>15, UpTo
<1> QED
  BY <1>1, <1>16 DEF T, S, top

\* A parabola is put on the envelope of those before it.
LEMMA EnvelopeGrows ==
  ASSUME NEW count \in Nat, NEW input \in [0 .. count - 1 -> Nat],
         NEW q \in 1 .. count - 1, NEW e \in Envelopes(count, q - 1)
  PROVE  AddParabola(input, e, q) \in Envelopes(count, q)
<1> DEFINE fit == FitParabola(input, q, e)
           grown == AddParabola(input, e, q)
<1>1. /\ e.k \in 0 .. q - 1 /\ e.locations \in [0 .. count - 1 -> 0 .. q - 1]
      /\ e.boundaries \in [0 .. count -> Int] /\ e.boundaries[0] = -Infinity
  BY DEF Envelopes
<1>2. fit \in [k : 0 .. e.k, boundary : Int]
  BY FitIsAPiece
<1>3. fit.k \in 0 .. q - 1 /\ fit.boundary \in Int
  BY <1>1, <1>2
<1>4. grown = [k |-> fit.k + 1,
               locations |-> [e.locations EXCEPT ![fit.k + 1] = q],
               boundaries |-> [e.boundaries EXCEPT ![fit.k + 1] = fit.boundary,
                                                   ![fit.k + 2] = Infinity]]
  BY DEF AddParabola, PushPiece
<1> DEFINE n == fit.k + 1
           boundary == fit.boundary
           locations == [e.locations EXCEPT ![n] = q]
           boundaries == [e.boundaries EXCEPT ![n] = boundary, ![fit.k + 2] = Infinity]
<1>5. /\ n \in 1 .. q /\ n \in 0 .. q /\ n \in 0 .. count - 1 /\ n # 0
      /\ fit.k + 2 = n + 1 /\ n + 1 \in 0 .. count /\ n + 1 # 0 /\ n + 1 # n
      /\ n \in 0 .. count /\ 0 \in 0 .. count
  BY <1>3
<1> HIDE DEF n, boundary, fit, grown
<1>6. locations \in [0 .. count - 1 -> 0 .. q]
  <2>1. q \in 0 .. q /\ \A l \in 0 .. q - 1 : l \in 0 .. q
    OBVIOUS
  <2> QED
    BY <1>1, <1>5, <2>1
<1>7. /\ boundaries \in [0 .. count -> Int]
      /\ boundaries[0] = -Infinity /\ boundaries[n + 1] = Infinity
  <2>1. boundaries = [e.boundaries EXCEPT ![n] = boundary, ![n + 1] = Infinity]
    BY <1>5
  <2> HIDE DEF boundaries
  <2> DEFINE i == Infinity
  <2>2. i \in Int /\ boundary \in Int
    BY <1>3, InfinityType DEF boundary
  <2> HIDE DEF i
  <2>3. boundaries = [e.boundaries EXCEPT ![n] = boundary, ![n + 1] = i]
    BY <2>1 DEF i
  <2>4. boundaries \in [0 .. count -> Int]
    BY <1>1, <2>2, <2>3
  <2>5. boundaries[0] = e.boundaries[0]
    BY <1>1, <1>5, <2>3
  <2>6. boundaries[n + 1] = i
    BY <1>1, <1>5, <2>3
  <2> QED
    BY <1>1, <2>4, <2>5, <2>6 DEF i
<1>8. grown = [k |-> n, locations |-> locations, boundaries |-> boundaries]
  BY <1>4 DEF n, boundary
<1> HIDE DEF locations, boundaries
<1>9. /\ grown.k = n /\ grown.boundaries = boundaries
      /\ grown \in [k : 0 .. q, locations : [0 .. count - 1 -> 0 .. q],
                    boundaries : [0 .. count -> Int]]
  BY <1>5, <1>6, <1>7, <1>8
<1>10. grown \in Envelopes(count, q)
  BY <1>7, <1>9 DEF Envelopes
<1> QED
  BY <1>10 DEF grown

\* In the end it is an envelope of all of them.
LEMMA LowerEnvelopeType ==
  ASSUME NEW count \in Nat \ {0}, NEW input \in [0 .. count - 1 -> Nat]
  PROVE  LowerEnvelope(input, count) \in Envelopes(count, count - 1)
<1> DEFINE length == count - 1
           first == [k |-> 0, locations |-> [i \in 0 .. count - 1 |-> 0],
                     boundaries |-> [i \in 0 .. count |->
                                       IF i = 0 THEN -Infinity ELSE Infinity]]
           Unfolded(f) ==
             [q \in 0 .. count - 1 |->
                IF q = 0
                  THEN [k |-> 0, locations |-> [i \in 0 .. count - 1 |-> 0],
                        boundaries |-> [i \in 0 .. count |->
                                          IF i = 0 THEN -Infinity ELSE Infinity]]
                  ELSE AddParabola(input, f[q - 1], q)]
           envelope == CHOOSE f : f = Unfolded(f)
           S == UNION {Envelopes(count, last) : last \in 0 .. length}
           step == [q \in 1 .. length |-> [e \in S |->
                      IF e \in Envelopes(count, q - 1) THEN AddParabola(input, e, q) ELSE e]]
<1>1. LowerEnvelope(input, count) = envelope[count - 1]
  BY DEF LowerEnvelope
<1>2. length \in Nat /\ 0 \in 0 .. length /\ length \in 0 .. length
  OBVIOUS
<1>3. first \in Envelopes(count, 0)
  <2> DEFINE locations == [i \in 0 .. count - 1 |-> 0]
             boundaries == [i \in 0 .. count |-> IF i = 0 THEN -Infinity ELSE Infinity]
  <2>1. locations \in [0 .. count - 1 -> 0 .. 0]
    OBVIOUS
  <2>2. /\ boundaries \in [0 .. count -> Int]
        /\ boundaries[0] = -Infinity /\ boundaries[0 + 1] = Infinity
    <3>1. 0 \in 0 .. count /\ 0 + 1 \in 0 .. count /\ 0 + 1 # 0
      OBVIOUS
    <3>2. Infinity \in Int /\ -Infinity \in Int
      BY InfinityType
    <3> QED
      BY <3>1, <3>2
  <2> HIDE DEF locations, boundaries
  <2>3. first = [k |-> 0, locations |-> locations, boundaries |-> boundaries]
    BY DEF locations, boundaries
  <2> HIDE DEF first
  <2> QED
    BY <2>1, <2>2, <2>3 DEF Envelopes
<1>4. \A q \in 1 .. length : \A e \in Envelopes(count, q - 1) :
        AddParabola(input, e, q) \in Envelopes(count, q)
  BY EnvelopeGrows
<1>5. first \in S
  BY <1>2, <1>3
<1>6. \A q \in 1 .. length : \A e \in S :
        /\ step[q][e] \in S
        /\ e \in Envelopes(count, q - 1) => step[q][e] = AddParabola(input, e, q)
  <2>1. \A q \in 1 .. length : q \in 0 .. length
    OBVIOUS
  <2>2. \A q \in 1 .. length : \A e \in Envelopes(count, q - 1) : AddParabola(input, e, q) \in S
    BY <1>4, <2>1
  <2> HIDE DEF S
  <2> QED
    BY <2>2
<1> HIDE DEF S, step, first
<1>7. PICK f : IsChain(f, S, first, length, step)
  BY <1>2, <1>5, <1>6, StepsCompose
<1>8. f \in [0 .. length -> S] /\ f[0] = first /\ \A q \in 1 .. length : f[q] = step[q][f[q - 1]]
  BY <1>7 DEF IsChain
<1> DEFINE T == {q \in 0 .. length : f[q] \in Envelopes(count, q)}
<1>9. 0 \in T
  BY <1>2, <1>3, <1>8
<1>10. ASSUME NEW q \in 1 .. length, q - 1 \in T
       PROVE  q \in T /\ f[q] = AddParabola(input, f[q - 1], q)
  <2>1. q \in 0 .. length /\ q - 1 \in 0 .. length /\ f[q - 1] \in Envelopes(count, q - 1)
    BY <1>2, <1>10
  <2>2. f[q - 1] \in S
    BY <1>8, <2>1
  <2>3. f[q] = AddParabola(input, f[q - 1], q)
    BY <1>6, <1>8, <2>1, <2>2
  <2>4. f[q] \in Envelopes(count, q)
    BY <1>4, <2>1, <2>3
  <2> QED
    BY <2>1, <2>3, <2>4
<1>11. \A q \in 0 .. length : q \in T
  <2> HIDE DEF T, length
  <2> QED
    BY <1>2, <1>9, <1>10, UpTo
<1>12. \E g : g = Unfolded(g)
  <2>1. f = [q \in 0 .. count - 1 |-> f[q]]
    BY <1>8
  <2>2. ASSUME NEW q \in 0 .. count - 1
        PROVE  f[q] = IF q = 0 THEN first ELSE AddParabola(input, f[q - 1], q)
    <3>1. CASE q = 0
      BY <1>8, <3>1
    <3>2. CASE q # 0
      <4>1. q \in 1 .. length /\ q - 1 \in 0 .. length
        BY <3>2
      <4> QED
        BY <1>10, <1>11, <3>2, <4>1
    <3> QED
      BY <3>1, <3>2
  <2>3. f = [q \in 0 .. count - 1 |-> IF q = 0 THEN first ELSE AddParabola(input, f[q - 1], q)]
    BY <2>1, <2>2
  <2>4. f = Unfolded(f)
    BY <2>3 DEF first
  <2> QED
    BY <2>4
<1>13. envelope = Unfolded(envelope)
  BY <1>12
<1> HIDE DEF envelope
<1>14. \A q \in 0 .. length :
         envelope[q] = IF q = 0 THEN first ELSE AddParabola(input, envelope[q - 1], q)
  BY <1>13 DEF first
<1> DEFINE U == {q \in 0 .. length : envelope[q] \in Envelopes(count, q)}
<1>15. 0 \in U
  BY <1>2, <1>3, <1>14
<1>16. ASSUME NEW q \in 1 .. length, q - 1 \in U PROVE q \in U
  <2>1. q \in 0 .. length /\ q # 0 /\ envelope[q - 1] \in Envelopes(count, q - 1)
    BY <1>2, <1>16
  <2>2. envelope[q] \in Envelopes(count, q)
    BY <1>4, <1>14, <2>1
  <2> QED
    BY <2>1, <2>2
<1>17. length \in U
  <2> HIDE DEF U, length
  <2> QED
    BY <1>2, <1>15, <1>16, UpTo
<1> QED
  BY <1>1, <1>17

\* A piece that reaches a cell is found, not before the one of the cell before.
LEMMA PieceIsThere ==
  ASSUME NEW count \in Nat \ {0}, count <= Large, NEW e \in Envelopes(count, count - 1),
         NEW from \in 0 .. e.k, NEW q \in 0 .. count - 1
  PROVE  PieceAt(e, from, q) \in 0 .. e.k
<1> DEFINE reaching == {k \in from .. e.k : e.boundaries[k + 1] >= Scale * q}
<1>1. PieceAt(e, from, q) = Min(reaching)
  BY DEF PieceAt
<1>2. e.k \in Nat /\ e.boundaries[e.k + 1] = Infinity
  BY DEF Envelopes
<1>3. Scale * q \in Int /\ Scale * q <= Infinity /\ Infinity \in Int
  <2>1. q \in Nat /\ q <= Large
    BY LargeAssumption
  <2> QED
    BY <2>1, InfinityType
<1>4. e.k \in from .. e.k
  BY <1>2
<1>5. e.boundaries[e.k + 1] >= Scale * q
  <2> DEFINE i == Infinity
             z == Scale * q
  <2>1. i \in Int /\ z \in Int /\ z <= i
    BY <1>3
  <2> HIDE DEF i, z
  <2>2. i >= z
    BY <2>1
  <2> QED
    BY <1>2, <2>2 DEF i, z
<1>6. e.k \in reaching
  BY <1>4, <1>5
<1>7. \A k \in from .. e.k : k \in Nat /\ k \in 0 .. e.k
  BY <1>2
<1>8. reaching \subseteq Nat /\ reaching \subseteq 0 .. e.k
  BY <1>7
<1> HIDE DEF reaching
<1> QED
  BY <1>1, <1>6, <1>8, MinIsLeast

\* There is a piece for every cell.
LEMMA PiecesType ==
  ASSUME NEW count \in Nat \ {0}, count <= Large, NEW e \in Envelopes(count, count - 1)
  PROVE  \A q \in 0 .. count - 1 : Pieces(e, count)[q] \in 0 .. e.k
<1> DEFINE length == count - 1
           Unfolded(f) ==
             [q \in 0 .. count - 1 |-> PieceAt(e, IF q = 0 THEN 0 ELSE f[q - 1], q)]
           piece == CHOOSE f : f = Unfolded(f)
           S == 0 .. e.k
           start == PieceAt(e, 0, 0)
           step == [q \in 1 .. length |-> [k \in S |-> PieceAt(e, k, q)]]
<1>1. Pieces(e, count) = piece
  BY DEF Pieces
<1>2. length \in Nat /\ 0 \in 0 .. length
  OBVIOUS
<1>3. \A from \in S : \A q \in 0 .. length : PieceAt(e, from, q) \in S
  BY PieceIsThere
<1>4. 0 \in S
  BY DEF Envelopes
<1>5. start \in S
  <2> HIDE DEF S
  <2> QED
    BY <1>2, <1>3, <1>4
<1>6. \A q \in 1 .. length : \A k \in S : step[q][k] = PieceAt(e, k, q) /\ step[q][k] \in S
  <2>1. \A q \in 1 .. length : q \in 0 .. length
    BY <1>2
  <2> HIDE DEF S, length
  <2> QED
    BY <1>3, <2>1
<1> HIDE DEF S, step, start
<1>7. PICK f : IsChain(f, S, start, length, step)
  BY <1>2, <1>5, <1>6, StepsCompose
<1>8. \E g : g = Unfolded(g)
  <2>1. f = [q \in 0 .. count - 1 |-> f[q]]
    BY <1>7 DEF IsChain
  <2>2. ASSUME NEW q \in 0 .. count - 1
        PROVE  f[q] = PieceAt(e, IF q = 0 THEN 0 ELSE f[q - 1], q)
    <3>1. CASE q = 0
      BY <1>7, <3>1 DEF IsChain, start
    <3>2. CASE q # 0
      <4>1. q \in 1 .. length /\ q - 1 \in 0 .. length
        BY <3>2
      <4>2. f[q - 1] \in S /\ f[q] = step[q][f[q - 1]]
        BY <1>7, <4>1 DEF IsChain
      <4> QED
        BY <1>6, <3>2, <4>1, <4>2
    <3> QED
      BY <3>1, <3>2
  <2> QED
    BY <2>1, <2>2
<1>9. piece = Unfolded(piece)
  BY <1>8
<1> HIDE DEF piece
<1>10. \A q \in 0 .. length : piece[q] = PieceAt(e, IF q = 0 THEN 0 ELSE piece[q - 1], q)
  BY <1>9
<1> DEFINE T == {q \in 0 .. length : piece[q] \in S}
<1>11. 0 \in T
  BY <1>2, <1>5, <1>10 DEF start
<1>12. ASSUME NEW q \in 1 .. length, q - 1 \in T PROVE q \in T
  <2>1. q \in 0 .. length /\ q # 0 /\ piece[q - 1] \in S
    BY <1>2, <1>12
  <2>2. piece[q] \in S
    BY <1>3, <1>10, <2>1
  <2> QED
    BY <2>1, <2>2
<1>13. \A q \in 0 .. length : q \in T
  <2> HIDE DEF T, length
  <2> QED
    BY <1>2, <1>11, <1>12, UpTo
<1> QED
  BY <1>1, <1>13 DEF S

\* What the transform gives a cell is the value of some cell and the way to it: it may
\* pick one that is too far, never a value that no cell has.
LEMMA TransformIsOfACell ==
  ASSUME NEW count \in Nat \ {0}, count <= Large, NEW input \in [0 .. count - 1 -> Nat],
         NEW q \in 0 .. count - 1
  PROVE  \E l \in 0 .. count - 1 :
           DistanceTransform1D(input, count)[q] = Widen(input[l], (q - l) * (q - l))
<1> DEFINE e == LowerEnvelope(input, count)
           pieces == Pieces(e, count)
           l == e.locations[pieces[q]]
<1>1. e \in Envelopes(count, count - 1)
  BY LowerEnvelopeType
<1>2. pieces[q] \in 0 .. e.k
  <2> HIDE DEF e
  <2> QED
    BY <1>1, PiecesType
<1>3. e.k \in 0 .. count - 1 /\ e.locations \in [0 .. count - 1 -> 0 .. count - 1]
  BY <1>1 DEF Envelopes
<1>4. l \in 0 .. count - 1
  <2> DEFINE k == e.k
             p == pieces[q]
  <2>1. p \in 0 .. k /\ k \in 0 .. count - 1
    BY <1>2, <1>3
  <2> HIDE DEF e, pieces, k, p
  <2>2. p \in 0 .. count - 1
    BY <2>1
  <2> QED
    BY <1>3, <2>2 DEF p
<1>5. DistanceTransform1D(input, count)[q] = Widen(input[l], (q - l) * (q - l))
  BY DEF DistanceTransform1D, ReadPieces
<1> QED
  BY <1>4, <1>5

-----------------------------------------------------------------------------
(* The field.                                                              *)

\* The transform of a set of cells is the squared distance to one of them, or beyond
\* all that matter.
LEMMA DistanceIsOfAFeature ==
  ASSUME NEW feature \in SUBSET GridCells, NEW cell \in GridCells
  PROVE  \/ SquaredDistanceTransform(feature)[cell] = Large
         \/ \E c \in feature : SquaredDistanceTransform(feature)[cell] = Squared(cell, c)
<1> DEFINE input == [y \in 0 .. GridHeight - 1 |->
                       [x \in 0 .. GridWidth - 1 |-> IF <<x, y>> \in feature THEN 0 ELSE Large]]
           rows == [y \in 0 .. GridHeight - 1 |->
                      DistanceTransform1D([x \in 0 .. GridWidth - 1 |->
                                             IF <<x, y>> \in feature THEN 0 ELSE Large],
                                          GridWidth)]
           column == [x \in 0 .. GridWidth - 1 |->
                        [y \in 0 .. GridHeight - 1 |-> rows[y][x]]]
           x == cell[1]
           y == cell[2]
           result == SquaredDistanceTransform(feature)[cell]
<1>1. /\ GridWidth \in Nat \ {0} /\ GridHeight \in Nat \ {0}
      /\ GridWidth <= Large /\ GridHeight <= Large /\ Large \in Nat /\ Large # 0
  BY GridAssumption, LargeAssumption
<1>2. x \in 0 .. GridWidth - 1 /\ y \in 0 .. GridHeight - 1 /\ cell = <<x, y>>
  BY DEF GridCells
<1>3. result = DistanceTransform1D(column[x], GridHeight)[y]
  <2>1. SquaredDistanceTransform(feature) =
          [c \in GridCells |->
             [a \in 0 .. GridWidth - 1 |->
                DistanceTransform1D([b \in 0 .. GridHeight - 1 |-> rows[b][a]],
                                    GridHeight)][c[1]][c[2]]]
    BY DEF SquaredDistanceTransform
  <2>2. result = [a \in 0 .. GridWidth - 1 |->
                    DistanceTransform1D([b \in 0 .. GridHeight - 1 |-> rows[b][a]],
                                        GridHeight)][x][y]
    BY <2>1
  <2> HIDE DEF rows, x, y, result
  <2> QED
    BY <1>2, <2>2
<1>4. \A b \in 0 .. GridHeight - 1 : input[b] \in [0 .. GridWidth - 1 -> Nat]
  BY <1>1
<1>5. \A b \in 0 .. GridHeight - 1 : \A a \in 0 .. GridWidth - 1 :
        input[b][a] = IF <<a, b>> \in feature THEN 0 ELSE Large
  OBVIOUS
<1>6. \A b \in 0 .. GridHeight - 1 : rows[b] = DistanceTransform1D(input[b], GridWidth)
  OBVIOUS
<1>7. \A a \in 0 .. GridWidth - 1 : \A b \in 0 .. GridHeight - 1 : column[a][b] = rows[b][a]
  OBVIOUS
<1>8. \A a \in 0 .. GridWidth - 1 : column[a] = [b \in 0 .. GridHeight - 1 |-> column[a][b]]
  OBVIOUS
<1> HIDE DEF input, rows, column, result, x, y
<1>9. \A a \in Int, b \in Int : (a - b) * (a - b) \in Nat
  <2>1. \A a \in Int, b \in Int : a - b \in Int
    OBVIOUS
  <2> QED
    BY <2>1, SquareIsNat
<1>10. ASSUME NEW b \in 0 .. GridHeight - 1, NEW a \in 0 .. GridWidth - 1
       PROVE  /\ rows[b][a] \in Nat
              /\ \/ rows[b][a] = Large
                 \/ \E l \in 0 .. GridWidth - 1 :
                      <<l, b>> \in feature /\ rows[b][a] = (a - l) * (a - l)
  <2>1. PICK l \in 0 .. GridWidth - 1 :
               rows[b][a] = Widen(input[b][l], (a - l) * (a - l))
    <3> DEFINE line == input[b]
    <3>1. line \in [0 .. GridWidth - 1 -> Nat] /\ rows[b] = DistanceTransform1D(line, GridWidth)
      BY <1>4, <1>6
    <3> HIDE DEF line
    <3>2. \E l \in 0 .. GridWidth - 1 :
            DistanceTransform1D(line, GridWidth)[a] = Widen(line[l], (a - l) * (a - l))
      BY <1>1, <3>1, TransformIsOfACell
    <3> QED
      BY <3>1, <3>2 DEF line
  <2>2. (a - l) * (a - l) \in Nat
    BY <1>9
  <2>3. CASE <<l, b>> \in feature
    <3> DEFINE s == (a - l) * (a - l)
    <3>1. s \in Nat /\ rows[b][a] = Widen(0, s)
      BY <1>5, <2>1, <2>2, <2>3
    <3>2. rows[b][a] = s
      <4> HIDE DEF s
      <4> QED
        BY <1>1, <3>1 DEF Widen
    <3> QED
      BY <2>3, <3>1, <3>2
  <2>4. CASE <<l, b>> \notin feature
    <3>1. rows[b][a] = Widen(Large, (a - l) * (a - l))
      BY <1>5, <2>1, <2>4
    <3>2. rows[b][a] = Large
      BY <1>1, <3>1 DEF Widen
    <3> QED
      BY <1>1, <3>2
  <2> QED
    BY <2>3, <2>4
<1>11. column[x] \in [0 .. GridHeight - 1 -> Nat]
  <2>1. \A b \in 0 .. GridHeight - 1 : column[x][b] \in Nat
    BY <1>2, <1>7, <1>10
  <2> QED
    BY <1>2, <1>8, <2>1
<1>12. PICK m \in 0 .. GridHeight - 1 : result = Widen(column[x][m], (y - m) * (y - m))
  BY <1>1, <1>2, <1>3, <1>11, TransformIsOfACell
<1>13. column[x][m] = rows[m][x] /\ rows[m][x] \in Nat
  BY <1>2, <1>7, <1>10
<1>14. CASE rows[m][x] >= Large
  BY <1>12, <1>13, <1>14 DEF Widen, result
<1>15. CASE rows[m][x] < Large
  <2>1. PICK l \in 0 .. GridWidth - 1 :
               <<l, m>> \in feature /\ rows[m][x] = (x - l) * (x - l)
    <3>1. rows[m][x] # Large
      BY <1>1, <1>13, <1>15
    <3> QED
      BY <1>2, <1>10, <3>1
  <2>2. result = rows[m][x] + (y - m) * (y - m)
    <3>1. ~ (rows[m][x] >= Large)
      BY <1>1, <1>13, <1>15
    <3> QED
      BY <1>12, <1>13, <3>1 DEF Widen
  <2>3. result = Squared(cell, <<l, m>>)
    BY <2>1, <2>2 DEF Squared, x, y
  <2> QED
    BY <2>1, <2>3 DEF result
<1> QED
  BY <1>1, <1>13, <1>14, <1>15

\* The distance the field stands for is at most that to any cell of the other kind.
LEMMA TrueIsLeast ==
  ASSUME NEW occupied \in SUBSET GridCells, NEW cell \in GridCells
  PROVE  LET other == IF cell \in occupied THEN GridCells \ occupied ELSE occupied
         IN  /\ TrueSquared(cell, occupied) \in Nat
             /\ TrueSquared(cell, occupied) <= MaximumSquared
             /\ \A c \in other : TrueSquared(cell, occupied) <= Squared(cell, c)
             /\ \A c \in other : Squared(cell, c) \in Nat
<1> DEFINE other == IF cell \in occupied THEN GridCells \ occupied ELSE occupied
           T == {Squared(cell, c) : c \in other} \cup {MaximumSquared}
<1>1. TrueSquared(cell, occupied) = Min(T)
  BY DEF TrueSquared
<1>2. MaximumSquared \in Nat
  BY ObstacleConfigAssumption
<1>3. GridCells \subseteq Points
  BY DEF GridCells, Points
<1>4. other \subseteq GridCells
  OBVIOUS
<1> HIDE DEF other
<1>5. \A c \in other : Squared(cell, c) \in Nat
  BY <1>3, <1>4, SquaredType
<1>6. T \subseteq Nat /\ MaximumSquared \in T /\ \A c \in other : Squared(cell, c) \in T
  BY <1>2, <1>5
<1> HIDE DEF T
<1>7. Min(T) \in T /\ \A y \in T : Min(T) <= y
  BY <1>6, MinIsLeast
<1> QED
  BY <1>1, <1>5, <1>6, <1>7 DEF other

\* A distance to a feature, cut at the maximum, is no less than the true one.
LEMMA CutIsNoLess ==
  ASSUME NEW feature \in SUBSET GridCells, NEW cell \in GridCells, NEW least \in Nat,
         least <= MaximumSquared, \A c \in feature : least <= Squared(cell, c),
         \A c \in feature : Squared(cell, c) \in Nat
  PROVE  LET cut == Min({SquaredDistanceTransform(feature)[cell], MaximumSquared})
         IN  cut \in Nat /\ least <= cut
<1> DEFINE distance == SquaredDistanceTransform(feature)[cell]
           cut == Min({distance, MaximumSquared})
<1>1. MaximumSquared \in Nat /\ Large \in Nat /\ MaximumSquared <= Large
  BY ObstacleConfigAssumption, LargeAssumption
<1>2. distance = Large \/ \E c \in feature : distance = Squared(cell, c)
  BY DistanceIsOfAFeature
<1> HIDE DEF distance
<1>3. distance \in Nat /\ least <= distance
  BY <1>1, <1>2
<1>4. cut \in {distance, MaximumSquared}
  <2> DEFINE T == {distance, MaximumSquared}
  <2>1. T \subseteq Nat /\ T # {}
    BY <1>1, <1>3
  <2> HIDE DEF T
  <2>2. Min(T) \in T
    BY <2>1, MinIsLeast
  <2> QED
    BY <2>2 DEF T
<1> QED
  BY <1>1, <1>3, <1>4 DEF distance

\* The field is on the right side of zero, and nowhere nearer to it than the distance
\* (SignedDistanceFieldBuilder::Build), in every state.
THEOREM FieldCorrect == Spec => []FieldHasRightSide
<1>1. FieldHasRightSide
  <2> DEFINE occupied == Occupancy
             distance == Field
  <2>1. occupied \in SUBSET GridCells
    BY DEF Occupancy, Occupied
  <2>2. distance = SignedField(occupied, SquaredDistanceTransform(occupied),
                               SquaredDistanceTransform(GridCells \ occupied))
    BY DEF Field, Build, BuildField, Occupancy
  <2> HIDE DEF occupied, distance
  <2>3. ASSUME NEW cell \in GridCells
        PROVE  IF cell \in occupied
                 THEN distance[cell] <= -TrueSquared(cell, occupied)
                 ELSE distance[cell] >= TrueSquared(cell, occupied)
    <3> DEFINE least == TrueSquared(cell, occupied)
               to_free == Min({SquaredDistanceTransform(GridCells \ occupied)[cell],
                               MaximumSquared})
               to_obstacle == Min({SquaredDistanceTransform(occupied)[cell], MaximumSquared})
    <3>1. MaximumSquared \in Nat
      BY ObstacleConfigAssumption
    <3>2. CASE cell \in occupied
      <4>1. distance[cell] = -to_free
        BY <2>1, <2>2, <3>2 DEF SignedField, SignedDistance
      <4>2. /\ least \in Nat /\ least <= MaximumSquared
            /\ \A c \in GridCells \ occupied : least <= Squared(cell, c)
            /\ \A c \in GridCells \ occupied : Squared(cell, c) \in Nat
        BY <2>1, <3>2, TrueIsLeast
      <4> HIDE DEF least
      <4>3. to_free \in Nat /\ least <= to_free
        BY <4>2, CutIsNoLess
      <4> HIDE DEF to_free
      <4>4. -to_free <= -least
        BY <4>2, <4>3
      <4> QED
        BY <3>2, <4>1, <4>4 DEF least
    <3>3. CASE cell \notin occupied
      <4>1. /\ least \in Nat /\ least <= MaximumSquared
            /\ \A c \in occupied : least <= Squared(cell, c)
            /\ \A c \in occupied : Squared(cell, c) \in Nat
        BY <2>1, <3>3, TrueIsLeast
      <4> HIDE DEF least
      <4>2. CASE occupied = {}
        <5>1. distance[cell] = MaximumSquared
          BY <2>2, <4>2 DEF SignedField
        <5>2. MaximumSquared >= least
          BY <3>1, <4>1
        <5> QED
          BY <3>3, <5>1, <5>2 DEF least
      <4>3. CASE occupied # {}
        <5>1. distance[cell] = to_obstacle
          BY <2>2, <3>3, <4>3 DEF SignedField, SignedDistance
        <5>2. to_obstacle \in Nat /\ least <= to_obstacle
          BY <2>1, <4>1, CutIsNoLess
        <5> HIDE DEF to_obstacle
        <5>3. to_obstacle >= least
          BY <4>1, <5>2
        <5> QED
          BY <3>3, <5>1, <5>3 DEF least
      <4> QED
        BY <4>2, <4>3
    <3> QED
      BY <3>2, <3>3
  <2> QED
    BY <2>3 DEF FieldHasRightSide, occupied, distance
<1> QED
  BY <1>1, PTL

=============================================================================
