----------------------------- MODULE WorkerProofs -----------------------------
(***************************************************************************)
(* Proofs about what a worker answers bids with: the reference tables it   *)
(* loads at its start (Startup), for any files and any number of workers,  *)
(* and its client of the ad-selection service (AdSelectClient), for any    *)
(* number of calls and any faults.                                         *)
(***************************************************************************)
EXTENDS Startup, AdSelectClient, FiniteSetTheorems, WellFoundedInduction, TLAPS

\* Steps are for Zenon unless they name another prover.
USE ZenonT(60)


-------------------------------------------------------------------------------
(* Recursion and induction up to a bound.                                  *)

\* A set of numbers has a least element, which is what Min is.
LEMMA LeastIsMin ==
  ASSUME NEW T, T \subseteq Nat, T # {}
  PROVE  Min(T) \in T /\ \A y \in T : Min(T) <= y
<1> DEFINE R == OpToRel(<, Nat)
<1>1. IsWellFoundedOn(R, Nat)
  BY NatLessThanWellFounded
<1>2. \A x, y \in Nat : y < x => <<y, x>> \in R
  BY SMTT(20) DEF OpToRel
<1> HIDE DEF R
<1>3. PICK x \in T : \A y \in T : ~(<<y, x>> \in R)
  BY <1>1, WFMin
<1>4. ASSUME NEW y \in T PROVE x <= y
  <2>1. x \in Nat /\ y \in Nat
    OBVIOUS
  <2>2. ~(y < x)
    BY <1>2, <1>3, <2>1
  <2> QED BY <2>1, <2>2, SMTT(20)
<1> QED BY <1>4 DEF Min

\* Induction up to L: a set with 0 and the successor of each of its elements.
LEMMA Climb ==
  ASSUME NEW L \in Nat, NEW T, 0 \in T, \A n \in 1 .. L : n - 1 \in T => n \in T
  PROVE  \A n \in 0 .. L : n \in T
<1> DEFINE U == {n \in 0 .. L : n \notin T}
<1>1. ASSUME U # {} PROVE FALSE
  <2>1. U \subseteq Nat
    BY SMTT(20)
  <2> DEFINE m == Min(U)
  <2>2. m \in U /\ \A y \in U : m <= y
    BY <1>1, <2>1, LeastIsMin
  <2> HIDE DEF m
  <2>3. m \in 0 .. L /\ m \notin T /\ m # 0
    BY <2>2
  <2>4. m \in 1 .. L /\ m - 1 \in 0 .. L /\ ~(m <= m - 1)
    BY <2>3, SMTT(20)
  <2>5. m - 1 \in T
    BY <2>2, <2>4
  <2> QED BY <2>3, <2>4, <2>5
<1> QED BY <1>1

\* f holds the values of the recursion that begins with x0 and steps by F.
Unfolds(f, x0, L, F) == f[0] = x0 /\ \A n \in 1 .. L : f[n] = F[<<n, f[n - 1]>>]

\* Every such recursion has a solution.
LEMMA Recursion ==
  ASSUME NEW X, NEW x0 \in X, NEW L \in Nat, NEW F \in [(1 .. L) \X X -> X]
  PROVE  \E f \in [0 .. L -> X] : Unfolds(f, x0, L, F)
<1> DEFINE T == {k \in 0 .. L : \E f \in [0 .. k -> X] : Unfolds(f, x0, k, F)}
<1>1. 0 \in T
  <2> DEFINE f == [n \in 0 .. 0 |-> x0]
  <2>1. f \in [0 .. 0 -> X] /\ 0 \in 0 .. 0 /\ 1 .. 0 = {} /\ 0 \in 0 .. L
    BY SMTT(20)
  <2>2. f[0] = x0
    BY <2>1
  <2> HIDE DEF f
  <2>3. Unfolds(f, x0, 0, F)
    BY <2>1, <2>2 DEF Unfolds
  <2> QED BY <2>1, <2>3
<1>2. ASSUME NEW k \in 1 .. L, k - 1 \in T PROVE k \in T
  <2>1. PICK g \in [0 .. (k - 1) -> X] : Unfolds(g, x0, k - 1, F)
    BY <1>2
  <2>2. /\ k \in 0 .. L /\ k \in 0 .. k /\ 0 \in 0 .. k /\ 0 # k
        /\ k - 1 \in 0 .. (k - 1) /\ k - 1 \in 0 .. k /\ k - 1 # k
    BY SMTT(20)
  <2>3. \A n \in 0 .. k : n # k => n \in 0 .. (k - 1)
    BY SMTT(20)
  <2>4. \A n \in 1 .. k : n \in 0 .. k /\ n - 1 \in 0 .. k /\ n - 1 # k /\ (n # k => n \in 1 .. (k - 1))
    BY SMTT(20)
  <2> DEFINE f == [n \in 0 .. k |-> IF n = k THEN F[<<k, g[k - 1]>>] ELSE g[n]]
  <2>5. <<k, g[k - 1]>> \in (1 .. L) \X X
    BY <2>2
  <2>6. f \in [0 .. k -> X]
    BY <2>3, <2>5
  <2>7. f[k] = F[<<k, g[k - 1]>>] /\ \A n \in 0 .. k : n # k => f[n] = g[n]
    BY <2>2
  <2> HIDE DEF f
  <2>8. f[0] = x0
    BY <2>1, <2>2, <2>7 DEF Unfolds
  <2>9. ASSUME NEW n \in 1 .. k PROVE f[n] = F[<<n, f[n - 1]>>]
    <3>1. f[n - 1] = g[n - 1]
      BY <2>4, <2>7
    <3>2. CASE n = k
      BY <2>7, <3>1, <3>2
    <3>3. CASE n # k
      <4>1. f[n] = g[n] /\ n \in 1 .. (k - 1)
        BY <2>4, <2>7, <3>3
      <4> QED BY <2>1, <3>1, <4>1 DEF Unfolds
    <3> QED BY <3>2, <3>3
  <2>10. Unfolds(f, x0, k, F)
    BY <2>8, <2>9 DEF Unfolds
  <2> QED BY <2>2, <2>6, <2>10
<1> HIDE DEF T
<1>3. L \in T
  <2>1. L \in 0 .. L
    BY SMTT(20)
  <2> QED BY <1>1, <1>2, <2>1, Climb
<1> QED BY <1>3 DEF T

-------------------------------------------------------------------------------
(* Powers of two and bitwise and.                                          *)

\* Pow2 satisfies its equation.
LEMMA PowEquation ==
  /\ Pow2[0] = 1
  /\ \A k \in 1 .. Bits : Pow2[k] = 2 * Pow2[k - 1]
<1>1. Bits \in Nat
  BY ResourcesAssumption
<1> DEFINE F == [p \in (1 .. Bits) \X Nat |-> 2 * p[2]]
<1>2. F \in [(1 .. Bits) \X Nat -> Nat] /\ 1 \in Nat
  BY SMTT(20)
<1>3. \A k \in 1 .. Bits, x \in Nat : F[<<k, x>>] = 2 * x
  BY SMTT(20)
<1> HIDE DEF F
<1>4. PICK f \in [0 .. Bits -> Nat] : Unfolds(f, 1, Bits, F)
  BY <1>1, <1>2, Recursion
<1>5. \A k \in 0 .. Bits : (k # 0 => k \in 1 .. Bits) /\ (k \in 1 .. Bits => k - 1 \in 0 .. Bits)
  BY <1>1, SMTT(20)
<1>6. ASSUME NEW k \in 0 .. Bits PROVE f[k] = IF k = 0 THEN 1 ELSE 2 * f[k - 1]
  BY <1>3, <1>4, <1>5 DEF Unfolds
<1>7. f = [k \in 0 .. Bits |-> IF k = 0 THEN 1 ELSE 2 * f[k - 1]]
  BY <1>6
<1>8. Pow2 = [k \in 0 .. Bits |-> IF k = 0 THEN 1 ELSE 2 * Pow2[k - 1]]
  BY <1>7 DEF Pow2
<1>9. 0 \in 0 .. Bits /\ \A k \in 1 .. Bits : k \in 0 .. Bits /\ k # 0
  BY <1>1, SMTT(20)
<1> QED BY <1>8, <1>9

\* Powers of two are positive numbers.
LEMMA PowType == \A k \in 0 .. Bits : Pow2[k] \in Nat /\ Pow2[k] >= 1
<1> DEFINE T == {k \in 0 .. Bits : Pow2[k] \in Nat /\ Pow2[k] >= 1}
<1>1. Bits \in Nat
  BY ResourcesAssumption
<1>2. 0 \in T
  BY <1>1, PowEquation, SMTT(20)
<1>3. ASSUME NEW k \in 1 .. Bits, k - 1 \in T PROVE k \in T
  <2>1. Pow2[k - 1] \in Nat /\ Pow2[k - 1] >= 1 /\ k \in 0 .. Bits
    BY <1>1, <1>3, SMTT(20)
  <2>2. Pow2[k] = 2 * Pow2[k - 1]
    BY PowEquation
  <2> QED BY <2>1, <2>2, SMTT(20)
<1> HIDE DEF T
<1>4. \A k \in 0 .. Bits : k \in T
  BY <1>1, <1>2, <1>3, Climb
<1> QED BY <1>4 DEF T

\* A number and its last bit.
LEMMA Halves ==
  ASSUME NEW x \in Nat
  PROVE  x \div 2 \in Nat /\ x % 2 \in {0, 1} /\ x = 2 * (x \div 2) + (x % 2)
BY SMTT(20)

\* The step of And's recursion on the tables of numbers of one bit less.
AndStep(A) ==
  [x \in Nat |-> [y \in Nat |-> 2 * A[x \div 2][y \div 2] + (x % 2) * (y % 2)]]

\* And satisfies its equation.
LEMMA AndEquation ==
  /\ \A x, y \in Nat : And[0][x][y] = 0
  /\ \A n \in 1 .. Bits : \A x, y \in Nat :
       And[n][x][y] = 2 * And[n - 1][x \div 2][y \div 2] + (x % 2) * (y % 2)
<1>1. Bits \in Nat
  BY ResourcesAssumption
<1> DEFINE X == [Nat -> [Nat -> Nat]]
           zero == [x \in Nat |-> [y \in Nat |-> 0]]
           F == [p \in (1 .. Bits) \X X |-> AndStep(p[2])]
<1>2. zero \in X
  OBVIOUS
<1>3. ASSUME NEW A \in X PROVE AndStep(A) \in X
  <2>1. ASSUME NEW x \in Nat, NEW y \in Nat
        PROVE  2 * A[x \div 2][y \div 2] + (x % 2) * (y % 2) \in Nat
    <3> DEFINE a == A[x \div 2][y \div 2]
               d == x % 2
               e == y % 2
    <3>1. x \div 2 \in Nat /\ y \div 2 \in Nat /\ d \in {0, 1} /\ e \in {0, 1}
      BY Halves
    <3>2. a \in Nat
      BY <3>1
    <3> HIDE DEF a, d, e
    <3>3. 2 * a + d * e \in Nat
      BY <3>1, <3>2, SMTT(20)
    <3> QED BY <3>3 DEF a, d, e
  <2> QED BY <2>1 DEF AndStep
<1>4. F \in [(1 .. Bits) \X X -> X]
  BY <1>3
<1>5. \A n \in 1 .. Bits, A \in X : F[<<n, A>>] = AndStep(A)
  OBVIOUS
<1> HIDE DEF F, X
<1>6. PICK f \in [0 .. Bits -> X] : Unfolds(f, zero, Bits, F)
  BY <1>1, <1>2, <1>4, Recursion
<1>7. \A n \in 0 .. Bits : (n # 0 => n \in 1 .. Bits) /\ (n \in 1 .. Bits => n - 1 \in 0 .. Bits)
  BY <1>1, SMTT(20)
<1> DEFINE Eq(g, n) ==
      [x \in Nat |-> [y \in Nat |->
         IF n = 0 THEN 0 ELSE 2 * g[n - 1][x \div 2][y \div 2] + (x % 2) * (y % 2)]]
<1>8. ASSUME NEW n \in 0 .. Bits PROVE f[n] = Eq(f, n)
  <2>1. CASE n = 0
    <3>1. f[n] = zero
      BY <1>6, <2>1 DEF Unfolds
    <3> QED BY <3>1, <2>1
  <2>2. CASE n # 0
    <3>1. f[n] = AndStep(f[n - 1])
      BY <1>5, <1>6, <1>7, <2>2 DEF Unfolds
    <3> QED BY <3>1, <2>2 DEF AndStep
  <2> QED BY <2>1, <2>2
<1>9. f = [n \in 0 .. Bits |-> Eq(f, n)]
  BY <1>8
<1>10. And = [n \in 0 .. Bits |-> Eq(And, n)]
  BY <1>9 DEF And
<1>11. 0 \in 0 .. Bits /\ \A n \in 1 .. Bits : n \in 0 .. Bits /\ n # 0
  BY <1>1, SMTT(20)
<1>12. ASSUME NEW n \in 0 .. Bits, NEW x \in Nat, NEW y \in Nat
      PROVE  And[n][x][y] = IF n = 0 THEN 0
                            ELSE 2 * And[n - 1][x \div 2][y \div 2] + (x % 2) * (y % 2)
  <2>1. And[n] = Eq(And, n)
    BY <1>10
  <2>2. Eq(And, n)[x][y] = IF n = 0 THEN 0
                           ELSE 2 * And[n - 1][x \div 2][y \div 2] + (x % 2) * (y % 2)
    OBVIOUS
  <2> QED BY <2>1, <2>2
<1> HIDE DEF Eq
<1> QED BY <1>11, <1>12

\* x & y is a number, at most x.
LEMMA AndBound ==
  \A n \in 0 .. Bits : \A x, y \in Nat : And[n][x][y] \in Nat /\ And[n][x][y] <= x
<1> DEFINE T == {n \in 0 .. Bits : \A x, y \in Nat : And[n][x][y] \in Nat /\ And[n][x][y] <= x}
<1>1. Bits \in Nat
  BY ResourcesAssumption
<1>2. 0 \in T
  <2>1. \A x \in Nat : 0 \in Nat /\ 0 <= x
    BY SMTT(20)
  <2>2. 0 \in 0 .. Bits
    BY <1>1, SMTT(20)
  <2> QED BY <2>1, <2>2, AndEquation
<1>3. ASSUME NEW n \in 1 .. Bits, n - 1 \in T PROVE n \in T
  <2>1. n \in 0 .. Bits
    BY <1>1, SMTT(20)
  <2>2. ASSUME NEW x \in Nat, NEW y \in Nat PROVE And[n][x][y] \in Nat /\ And[n][x][y] <= x
    <3> DEFINE a == And[n - 1][x \div 2][y \div 2]
               c == x \div 2
               d == x % 2
               e == y % 2
    <3>1. c \in Nat /\ d \in {0, 1} /\ x = 2 * c + d /\ y \div 2 \in Nat /\ e \in {0, 1}
      BY Halves
    <3>2. a \in Nat /\ a <= c
      BY <1>3, <3>1
    <3>3. And[n][x][y] = 2 * a + d * e
      BY AndEquation
    <3> HIDE DEF a, c, d, e
    <3> QED BY <3>1, <3>2, <3>3, SMTT(20)
  <2> QED BY <2>1, <2>2
<1> HIDE DEF T
<1>4. \A n \in 0 .. Bits : n \in T
  BY <1>1, <1>2, <1>3, Climb
<1> QED BY <1>4 DEF T

\* x is one of the 2^k numbers from a on, where a is a multiple of 2^k.
Within(a, x, k) == (\E q \in Nat : a = q * Pow2[k]) /\ a <= x /\ x < a + Pow2[k]

\* A number without its last bit is within the block without it.
LEMMA WithinHalf ==
  ASSUME NEW k \in 1 .. Bits, NEW a \in Nat, NEW x \in Nat, Within(a, x, k)
  PROVE  a % 2 = 0 /\ Within(a \div 2, x \div 2, k - 1)
<1>1. k - 1 \in 0 .. Bits
  BY ResourcesAssumption, SMTT(20)
<1>2. PICK q \in Nat : a = q * Pow2[k]
  BY DEF Within
<1> DEFINE P == Pow2[k - 1]
           m == q * P
<1>3. Pow2[k] = 2 * P /\ P \in Nat /\ P >= 1
  BY <1>1, PowEquation, PowType
<1>4. a <= x /\ x < a + 2 * P
  BY <1>3 DEF Within
<1> HIDE DEF P
<1>5. m \in Nat /\ a = 2 * m
  BY <1>2, <1>3, SMTT(20)
<1> HIDE DEF m
<1>6. a % 2 = 0 /\ a \div 2 = m /\ m <= x \div 2 /\ x \div 2 < m + P
  BY <1>3, <1>4, <1>5, SMTT(20)
<1>7. \E r \in Nat : a \div 2 = r * P
  BY <1>6 DEF m
<1> QED BY <1>6, <1>7 DEF Within, P

\* A number is within the block of one number only if it is that number.
LEMMA WithinOne ==
  ASSUME NEW a \in Nat, NEW x \in Nat
  PROVE  Within(a, x, 0) <=> x = a
<1>1. Pow2[0] = 1
  BY PowEquation
<1>2. a = a * 1 /\ (a <= x /\ x < a + 1 <=> x = a)
  BY SMTT(20)
<1> QED BY <1>1, <1>2 DEF Within

\* The addresses of a network have all the bits of its first one.
LEMMA AndWithin ==
  \A n \in 0 .. Bits : \A k \in 0 .. n : \A a, x \in Nat :
    a < Pow2[n] /\ Within(a, x, k) => And[n][a][x] = a /\ And[n][x][a] = a
<1> DEFINE Good(n, k, a, x) == And[n][a][x] = a /\ And[n][x][a] = a
           T == {n \in 0 .. Bits : \A k \in 0 .. n : \A a, x \in Nat :
                   a < Pow2[n] /\ Within(a, x, k) => Good(n, k, a, x)}
<1>1. Bits \in Nat
  BY ResourcesAssumption
<1>2. 0 \in T
  <2>1. 0 \in 0 .. Bits
    BY <1>1, SMTT(20)
  <2>2. \A a \in Nat : a < 1 => a = 0
    BY SMTT(20)
  <2> QED BY <2>1, <2>2, PowEquation, AndEquation
<1>3. ASSUME NEW n \in 1 .. Bits, n - 1 \in T PROVE n \in T
  <2>1. n \in 0 .. Bits /\ n - 1 \in 0 .. Bits /\ 0 \in 0 .. (n - 1)
    BY <1>1, SMTT(20)
  <2>2. ASSUME NEW k \in 0 .. n, NEW a \in Nat, NEW x \in Nat, a < Pow2[n], Within(a, x, k)
        PROVE  Good(n, k, a, x)
    <3> DEFINE b == a \div 2
               y == x \div 2
               d == a % 2
               e == x % 2
    <3>1. /\ b \in Nat /\ y \in Nat /\ d \in {0, 1} /\ e \in {0, 1}
          /\ a = 2 * b + d /\ x = 2 * y + e
      BY Halves
    <3>2. b < Pow2[n - 1]
      <4>1. Pow2[n] = 2 * Pow2[n - 1] /\ Pow2[n - 1] \in Nat
        BY <2>1, PowEquation, PowType
      <4> QED BY <2>2, <3>1, <4>1, SMTT(20)
    <3>3. \E j \in 0 .. (n - 1) : Within(b, y, j)
      <4>1. CASE k = 0
        <5>1. x = a
          BY <2>2, <4>1, WithinOne
        <5>2. Within(b, y, 0)
          BY <3>1, <5>1, WithinOne
        <5> QED BY <2>1, <5>2
      <4>2. CASE k # 0
        <5>1. k \in 1 .. Bits /\ k - 1 \in 0 .. (n - 1)
          BY <1>1, <4>2, SMTT(20)
        <5> QED BY <2>2, <5>1, WithinHalf
      <4> QED BY <4>1, <4>2
    <3>4. d * e = d /\ e * d = d
      <4>1. CASE k = 0
        <5>1. x = a
          BY <2>2, <4>1, WithinOne
        <5>2. e = d
          BY <5>1
        <5> HIDE DEF d, e
        <5> QED BY <3>1, <5>2, SMTT(20)
      <4>2. CASE k # 0
        <5>1. k \in 1 .. Bits
          BY <1>1, <4>2, SMTT(20)
        <5>2. d = 0
          BY <2>2, <5>1, WithinHalf
        <5> HIDE DEF d, e
        <5> QED BY <3>1, <5>2, SMTT(20)
      <4> QED BY <4>1, <4>2
    <3>5. And[n - 1][b][y] = b /\ And[n - 1][y][b] = b
      BY <1>3, <3>1, <3>2, <3>3
    <3>6. /\ And[n][a][x] = 2 * And[n - 1][b][y] + d * e
          /\ And[n][x][a] = 2 * And[n - 1][y][b] + e * d
      BY AndEquation
    <3> HIDE DEF b, y, d, e
    <3> QED BY <3>1, <3>4, <3>5, <3>6
  <2> QED BY <2>1, <2>2
<1> HIDE DEF T
<1>4. \A n \in 0 .. Bits : n \in T
  BY <1>1, <1>2, <1>3, Climb
<1> QED BY <1>4 DEF T

\* A multiple is a product.
LEMMA Multiple ==
  ASSUME NEW a \in Nat, NEW P \in Nat, P >= 1, a % P = 0
  PROVE  a \div P \in Nat /\ a = (a \div P) * P
BY SMTT(20)

\* A network is filed under its first address, and each of its addresses has
\* the bits of that one (loadScenarioData(), getScenario()).
LEMMA CidrOfNetwork ==
  ASSUME NEW r \in Line, r.start < Pow2[Bits], Network(r)
  PROVE  /\ r.start \in Nat /\ r.end \in Nat /\ r.start <= r.end
         /\ Cidr(r) = r.start
         /\ \A ip \in r.start .. r.end : And[Bits][ip][r.start] = r.start
<1>1. r.start \in Nat /\ r.end \in Nat
  BY DEF Line
<1>2. PICK k \in 0 .. Bits : r.end - r.start + 1 = Pow2[k] /\ r.start % Pow2[k] = 0
  BY DEF Network
<1> DEFINE a == r.start
           P == Pow2[k]
<1>3. P \in Nat /\ P >= 1
  BY PowType
<1>4. \E q \in Nat : a = q * P
  BY <1>1, <1>2, <1>3, Multiple
<1>5. Bits \in Nat /\ Bits \in 0 .. Bits
  BY ResourcesAssumption, SMTT(20)
<1>6. \A ip \in a .. r.end : ip \in Nat /\ a <= ip /\ ip < a + P
  BY <1>1, <1>2, <1>3, SMTT(20)
<1>7. a <= r.end /\ r.end \in a .. r.end
  BY <1>1, <1>2, <1>3, SMTT(20)
<1>8. \A ip \in a .. r.end : Within(a, ip, k)
  BY <1>4, <1>6 DEF Within
<1>9. \A ip \in a .. r.end : And[Bits][a][ip] = a /\ And[Bits][ip][a] = a
  BY <1>1, <1>5, <1>6, <1>8, AndWithin
<1> QED BY <1>1, <1>7, <1>9 DEF Cidr

-------------------------------------------------------------------------------
(* The sorted table and the search in it.                                  *)

\* How many elements of S are below x.
Below(S, x) == {y \in S : y < x}

\* The element of S with i - 1 elements below it.
Nth(S, i) == CHOOSE x \in S : Cardinality(Below(S, x)) = i - 1

\* The table of a finite set has its elements in ascending order.
LEMMA SortedTable ==
  ASSUME NEW S, S \subseteq Nat, IsFiniteSet(S)
  PROVE  LET t == Sorted(S)
             L == Cardinality(S)
         IN /\ L \in Nat /\ t \in [1 .. L -> S]
            /\ \A i, j \in 1 .. L : i < j => t[i] < t[j]
            /\ \A x \in S : \E i \in 1 .. L : t[i] = x
<1> DEFINE L == Cardinality(S)
           rank == [x \in S |-> Cardinality(Below(S, x))]
<1>0. Sorted(S) = [i \in 1 .. L |-> Nth(S, i)]
  BY DEF Sorted, Nth, Below
<1>1. L \in Nat
  BY FS_CardinalityType
<1>2. ASSUME NEW x \in S PROVE IsFiniteSet(Below(S, x)) /\ Cardinality(Below(S, x)) \in Nat
  <2>1. Below(S, x) \in SUBSET S
    BY DEF Below
  <2> QED BY <2>1, FS_Subset, FS_CardinalityType
<1>3. ASSUME NEW x \in S, NEW y \in S, x < y
      PROVE  Cardinality(Below(S, x)) < Cardinality(Below(S, y))
  <2>1. x \in Nat /\ y \in Nat /\ ~(x < x)
    BY SMTT(20)
  <2>2. \A z \in S : z < x => z < y
    BY <1>3, <2>1, SMTT(20)
  <2>3. Below(S, x) \in SUBSET Below(S, y)
    BY <2>2 DEF Below
  <2>4. x \in Below(S, y) /\ x \notin Below(S, x)
    BY <1>3, <2>1 DEF Below
  <2> DEFINE A == Below(S, x)
             B == Below(S, y)
  <2>5. IsFiniteSet(B) /\ A \in SUBSET B /\ A # B
    BY <1>2, <2>3, <2>4
  <2>6. Cardinality(A) <= Cardinality(B) /\ Cardinality(A) # Cardinality(B)
    BY <2>5, FS_Subset
  <2>7. Cardinality(A) \in Nat /\ Cardinality(B) \in Nat
    BY <1>2
  <2> HIDE DEF A, B
  <2>8. Cardinality(A) < Cardinality(B)
    BY <2>6, <2>7, SMTT(20)
  <2> QED BY <2>8 DEF A, B
<1>4. ASSUME NEW x \in S PROVE Cardinality(Below(S, x)) \in 0 .. (L - 1)
  <2> DEFINE A == Below(S, x)
  <2>1. A \in SUBSET S /\ A # S
    <3>1. ~(x < x)
      BY SMTT(20)
    <3> QED BY <3>1 DEF Below
  <2>2. Cardinality(A) <= L /\ Cardinality(A) # L /\ Cardinality(A) \in Nat
    BY <1>2, <2>1, FS_Subset
  <2> HIDE DEF A, L
  <2>3. Cardinality(A) \in 0 .. (L - 1)
    BY <1>1, <2>2, SMTT(20)
  <2> QED BY <2>3 DEF A
<1>5. rank \in [S -> 0 .. (L - 1)]
  BY <1>4
<1>6. \A x, y \in S : rank[x] = rank[y] => x = y
  <2> SUFFICES ASSUME NEW x \in S, NEW y \in S, x # y PROVE rank[x] # rank[y]
    OBVIOUS
  <2>1. x < y \/ y < x
    BY SMTT(20)
  <2>2. rank[x] \in Nat /\ rank[y] \in Nat
    BY <1>2
  <2>3. rank[x] < rank[y] \/ rank[y] < rank[x]
    BY <1>3, <2>1
  <2> HIDE DEF rank
  <2> QED BY <2>2, <2>3, SMTT(20)
<1>7. rank \in Injection(S, 0 .. (L - 1))
  BY <1>5, <1>6 DEF Injection, IsInjective
<1>8. IsFiniteSet(0 .. (L - 1)) /\ Cardinality(0 .. (L - 1)) = L
  <2> HIDE DEF L
  <2>1. 0 \in Int /\ L - 1 \in Int /\ (IF 0 > L - 1 THEN 0 ELSE (L - 1) - 0 + 1) = L
    BY <1>1, SMTT(20)
  <2> QED BY <2>1, FS_Interval
<1>9. rank \in Surjection(S, 0 .. (L - 1))
  BY <1>7, <1>8, FS_Injection
<1>10. ASSUME NEW i \in 1 .. L
       PROVE  Sorted(S)[i] \in S /\ Cardinality(Below(S, Sorted(S)[i])) = i - 1
  <2>1. i - 1 \in 0 .. (L - 1)
    <3> HIDE DEF L
    <3> QED BY <1>1, SMTT(20)
  <2>2. \E x \in S : Cardinality(Below(S, x)) = i - 1
    BY <1>9, <2>1 DEF Surjection
  <2>3. Nth(S, i) \in S /\ Cardinality(Below(S, Nth(S, i))) = i - 1
    BY <2>2 DEF Nth
  <2> QED BY <1>0, <2>3
<1>11. Sorted(S) \in [1 .. L -> S]
  <2>1. \A i \in 1 .. L : Nth(S, i) \in S
    BY <1>0, <1>10
  <2> QED BY <1>0, <2>1
<1>12. ASSUME NEW i \in 1 .. L, NEW j \in 1 .. L, i < j PROVE Sorted(S)[i] < Sorted(S)[j]
  <2> DEFINE x == Sorted(S)[i]
             y == Sorted(S)[j]
             c == Cardinality(Below(S, x))
             d == Cardinality(Below(S, y))
  <2>1. x \in S /\ y \in S /\ c = i - 1 /\ d = j - 1
    BY <1>10
  <2>2. x \in Nat /\ y \in Nat
    BY <2>1
  <2>3. y < x => d < c
    BY <1>3, <2>1
  <2>4. x = y => c = d
    OBVIOUS
  <2> HIDE DEF x, y, c, d, L
  <2>5. x < y
    BY <1>1, <1>12, <2>1, <2>2, <2>3, <2>4, SMTT(20)
  <2> QED BY <2>5 DEF x, y
<1>13. ASSUME NEW x \in S PROVE \E i \in 1 .. L : Sorted(S)[i] = x
  <2> DEFINE c == Cardinality(Below(S, x))
             i == c + 1
  <2>1. c \in 0 .. (L - 1)
    BY <1>4
  <2> HIDE DEF c, L
  <2>2. i \in 1 .. L /\ i - 1 = c
    BY <1>1, <2>1, SMTT(20)
  <2> HIDE DEF i
  <2>3. Sorted(S)[i] \in S /\ Cardinality(Below(S, Sorted(S)[i])) = c
    BY <1>10, <2>2
  <2>4. rank[Sorted(S)[i]] = rank[x]
    BY <2>3 DEF c
  <2>5. Sorted(S)[i] = x
    BY <1>6, <2>3, <2>4
  <2> QED BY <2>2, <2>5
<1> QED BY <1>1, <1>11, <1>12, <1>13

\* A round of the search, on whole numbers.
LEMMA NarrowType ==
  ASSUME NEW t, NEW key, NEW b \in Int \X Int
  PROVE  Narrow(t, key, b) \in Int \X Int
<1> DEFINE mid == b[1] + (b[2] - b[1]) \div 2
<1>1. b[1] \in Int /\ b[2] \in Int
  OBVIOUS
<1>2. mid \in Int /\ mid - 1 \in Int /\ mid + 1 \in Int
  BY <1>1, SMTT(20)
<1>3. Narrow(t, key, b) \in {b, <<b[1], mid - 1>>, <<mid + 1, b[2]>>}
  BY DEF Narrow
<1> HIDE DEF mid
<1>4. <<b[1], mid - 1>> \in Int \X Int /\ <<mid + 1, b[2]>> \in Int \X Int
  BY <1>1, <1>2
<1> QED BY <1>3, <1>4

\* Bounds satisfies its equation.
LEMMA BoundsEquation ==
  ASSUME NEW t, NEW key, Len(t) \in Nat
  PROVE  /\ Bounds(t, key)[0] = <<1, Len(t)>>
         /\ \A n \in 1 .. Len(t) : Bounds(t, key)[n] = Narrow(t, key, Bounds(t, key)[n - 1])
<1> DEFINE L == Len(t)
           X == Int \X Int
           F == [p \in (1 .. L) \X X |-> Narrow(t, key, p[2])]
<1>1. <<1, L>> \in X
  BY SMTT(20)
<1>2. F \in [(1 .. L) \X X -> X]
  BY NarrowType
<1>3. \A n \in 1 .. L, b \in X : F[<<n, b>>] = Narrow(t, key, b)
  OBVIOUS
<1> HIDE DEF F, X
<1>4. PICK f \in [0 .. L -> X] : Unfolds(f, <<1, L>>, L, F)
  BY <1>1, <1>2, Recursion
<1>5. \A n \in 0 .. L : (n # 0 => n \in 1 .. L) /\ (n \in 1 .. L => n - 1 \in 0 .. L)
  BY SMTT(20)
<1>6. ASSUME NEW n \in 0 .. L
      PROVE  f[n] = IF n = 0 THEN <<1, L>> ELSE Narrow(t, key, f[n - 1])
  <2>1. f[0] = <<1, L>>
    BY <1>4 DEF Unfolds
  <2>2. CASE n # 0
    <3>1. n \in 1 .. L /\ f[n - 1] \in X
      BY <1>4, <1>5, <2>2
    <3>2. f[n] = F[<<n, f[n - 1]>>]
      BY <1>4, <3>1 DEF Unfolds
    <3>3. F[<<n, f[n - 1]>>] = Narrow(t, key, f[n - 1])
      BY <1>3, <3>1
    <3> QED BY <2>2, <3>2, <3>3
  <2> QED BY <2>1, <2>2
<1>7. f = [n \in 0 .. L |-> IF n = 0 THEN <<1, L>> ELSE Narrow(t, key, f[n - 1])]
  BY <1>6
<1>8. Bounds(t, key) =
        [n \in 0 .. L |-> IF n = 0 THEN <<1, L>> ELSE Narrow(t, key, Bounds(t, key)[n - 1])]
  BY <1>7 DEF Bounds
<1>9. 0 \in 0 .. L /\ \A n \in 1 .. L : n \in 0 .. L /\ n # 0
  BY SMTT(20)
<1> QED BY <1>8, <1>9

\* What holds between the rounds of bSearch(): before l nothing is above the
\* key, behind h everything is, and every round makes the rest smaller.
Searched(t, key, n, b) ==
  /\ b \in Int \X Int
  /\ b[1] \in 1 .. Len(t) + 1 /\ b[2] \in 0 .. Len(t) /\ b[1] <= b[2] + 1
  /\ b[1] > b[2] \/ b[2] - b[1] + 1 <= Len(t) - n
  /\ \A i \in 1 .. Len(t) : (i < b[1] => t[i] <= key) /\ (i > b[2] => t[i] > key)

\* A round keeps it.
LEMMA NarrowSearched ==
  ASSUME NEW t, NEW key \in Nat, NEW L \in Nat, Len(t) = L, t \in [1 .. L -> Nat],
         \A i, j \in 1 .. L : i < j => t[i] < t[j],
         NEW n \in 1 .. L, NEW b, Searched(t, key, n - 1, b)
  PROVE  Searched(t, key, n, Narrow(t, key, b))
<1> DEFINE l == b[1]
           h == b[2]
           mid == l + (h - l) \div 2
<1>1. /\ b = <<l, h>> /\ l \in Int /\ h \in Int
      /\ 1 <= l /\ l <= L + 1 /\ 0 <= h /\ h <= L /\ l <= h + 1
      /\ l > h \/ h - l + 1 <= L - (n - 1)
      /\ \A i \in 1 .. L : (i < l => t[i] <= key) /\ (i > h => t[i] > key)
  <2>1. b = <<l, h>> /\ l \in Int /\ h \in Int
    <3>1. b \in Int \X Int
      BY DEF Searched
    <3> QED BY <3>1, SMTT(20)
  <2>2. l \in 1 .. L + 1 /\ h \in 0 .. L /\ l <= h + 1 /\ (l > h \/ h - l + 1 <= L - (n - 1))
    BY DEF Searched
  <2>3. \A i \in 1 .. L : (i < l => t[i] <= key) /\ (i > h => t[i] > key)
    BY DEF Searched
  <2> HIDE DEF l, h
  <2> QED BY <2>1, <2>2, <2>3, SMTT(20)
<1>2. n \in Int /\ 1 <= n /\ n <= L
  BY SMTT(20)
<1> HIDE DEF l, h
<1>3. CASE l > h
  <2>1. Narrow(t, key, b) = b
    BY <1>3 DEF Narrow, l, h
  <2>2. l \in 1 .. L + 1 /\ h \in 0 .. L
    BY <1>1, SMTT(20)
  <2> QED BY <1>1, <1>3, <2>1, <2>2 DEF Searched, l, h
<1>4. CASE ~(l > h)
  <2>1. mid \in Int /\ l <= mid /\ mid <= h /\ mid \in 1 .. L
    BY <1>1, <1>4, SMTT(20)
  <2> HIDE DEF mid
  <2>2. t[mid] \in Nat /\ \A i \in 1 .. L : t[i] \in Nat
    BY <2>1
  <2>3. CASE t[mid] > key
    <3>1. Narrow(t, key, b) = <<l, mid - 1>>
      BY <1>4, <2>3 DEF Narrow, l, h, mid
    <3>2. /\ <<l, mid - 1>> \in Int \X Int /\ l \in 1 .. L + 1 /\ mid - 1 \in 0 .. L
          /\ l <= (mid - 1) + 1 /\ (mid - 1) - l + 1 <= L - n
      BY <1>1, <1>2, <1>4, <2>1, SMTT(20)
    <3>3. ASSUME NEW i \in 1 .. L, i > mid - 1 PROVE t[i] > key
      <4>1. i = mid \/ mid < i
        BY <2>1, <3>3, SMTT(20)
      <4>2. mid < i => t[mid] < t[i]
        BY <2>1
      <4> QED BY <2>2, <2>3, <4>1, <4>2, SMTT(20)
    <3>4. <<l, mid - 1>>[1] = l /\ <<l, mid - 1>>[2] = mid - 1
      OBVIOUS
    <3> QED BY <1>1, <3>1, <3>2, <3>3, <3>4 DEF Searched
  <2>4. CASE ~(t[mid] > key)
    <3>1. Narrow(t, key, b) = <<mid + 1, h>>
      BY <1>4, <2>4 DEF Narrow, l, h, mid
    <3>2. /\ <<mid + 1, h>> \in Int \X Int /\ mid + 1 \in 1 .. L + 1 /\ h \in 0 .. L
          /\ mid + 1 <= h + 1 /\ h - (mid + 1) + 1 <= L - n
      BY <1>1, <1>2, <1>4, <2>1, SMTT(20)
    <3>3. ASSUME NEW i \in 1 .. L, i < mid + 1 PROVE t[i] <= key
      <4>1. i = mid \/ i < mid
        BY <2>1, <3>3, SMTT(20)
      <4>2. i < mid => t[i] < t[mid]
        BY <2>1
      <4> QED BY <2>2, <2>4, <4>1, <4>2, SMTT(20)
    <3>4. <<mid + 1, h>>[1] = mid + 1 /\ <<mid + 1, h>>[2] = h
      OBVIOUS
    <3> QED BY <1>1, <3>1, <3>2, <3>3, <3>4 DEF Searched
  <2> QED BY <2>3, <2>4
<1> QED BY <1>3, <1>4

\* bSearch() finds the last element that is not above the key, as its comment
\* says, and needs no more rounds than the table has elements.
THEOREM SearchFindsLast ==
  ASSUME NEW t, NEW key \in Nat, NEW L \in Nat, Len(t) = L, t \in [1 .. L -> Nat],
         \A i, j \in 1 .. L : i < j => t[i] < t[j]
  PROVE  /\ Bounds(t, key)[L][1] > Bounds(t, key)[L][2]
         /\ BSearch(t, key) \in 0 .. L
         /\ \A i \in 1 .. L : t[i] <= key <=> i <= BSearch(t, key)
<1> DEFINE B == Bounds(t, key)
           T == {n \in 0 .. L : Searched(t, key, n, B[n])}
<1>1. B[0] = <<1, L>> /\ \A n \in 1 .. L : B[n] = Narrow(t, key, B[n - 1])
  BY BoundsEquation
<1> HIDE DEF B
<1>2. 0 \in T
  <2>1. 0 \in 0 .. L /\ <<1, L>> \in Int \X Int /\ 1 \in 1 .. L + 1 /\ L \in 0 .. L /\ 1 <= L + 1
        /\ L - 1 + 1 <= L - 0
    BY SMTT(20)
  <2>2. \A i \in 1 .. L : ~(i < 1) /\ ~(i > L)
    BY SMTT(20)
  <2>3. <<1, L>>[1] = 1 /\ <<1, L>>[2] = L
    OBVIOUS
  <2> QED BY <1>1, <2>1, <2>2, <2>3 DEF Searched
<1>3. ASSUME NEW n \in 1 .. L, n - 1 \in T PROVE n \in T
  <2>1. n \in 0 .. L
    BY SMTT(20)
  <2>2. Searched(t, key, n - 1, B[n - 1])
    BY <1>3
  <2>3. Searched(t, key, n, Narrow(t, key, B[n - 1]))
    BY <2>2, NarrowSearched, SMTT(20)
  <2> QED BY <1>1, <2>1, <2>3
<1> HIDE DEF T
<1>4. L \in T
  <2>1. L \in 0 .. L
    BY SMTT(20)
  <2> QED BY <1>2, <1>3, <2>1, Climb
<1> DEFINE l == B[L][1]
           h == B[L][2]
<1>5. /\ l \in 1 .. L + 1 /\ h \in 0 .. L /\ l <= h + 1 /\ (l > h \/ h - l + 1 <= L - L)
      /\ \A i \in 1 .. L : (i < l => t[i] <= key) /\ (i > h => t[i] > key)
  BY <1>4 DEF T, Searched
<1>6. BSearch(t, key) = h
  BY DEF BSearch, B
<1> HIDE DEF l, h
<1>7. l > h /\ h \in Int /\ l \in Int /\ l = h + 1
  BY <1>5, SMTT(20)
<1>8. ASSUME NEW i \in 1 .. L PROVE t[i] <= key <=> i <= h
  <2>1. t[i] \in Nat
    OBVIOUS
  <2>2. (i < l => t[i] <= key) /\ (i > h => t[i] > key)
    BY <1>5
  <2> QED BY <1>7, <2>1, <2>2, SMTT(20)
<1> QED BY <1>5, <1>6, <1>7, <1>8 DEF l, h, B

-------------------------------------------------------------------------------
(* Scenarios.                                                              *)

\* The entries of a sequence.
LEMMA Entries ==
  ASSUME NEW X, NEW s \in Seq(X)
  PROVE  /\ Len(s) \in Nat /\ DOMAIN s = 1 .. Len(s)
         /\ \A i \in DOMAIN s : s[i] \in X
         /\ \A x \in Range(s) : x \in X /\ \E i \in DOMAIN s : x = s[i]
         /\ \A i \in DOMAIN s : s[i] \in Range(s)
<1>1. Len(s) \in Nat /\ DOMAIN s = 1 .. Len(s) /\ \A i \in DOMAIN s : s[i] \in X
  BY SMTT(20)
<1> QED BY <1>1 DEF Range

\* getScenario() of an address of a network no other line gets in the way of.
LEMMA ScenarioFound ==
  ASSUME NEW lines \in Seq(Line), \A s \in Rules(lines) : s.start < Pow2[Bits],
         NEW r \in Rules(lines), Network(r),
         \A s \in Rules(lines) :
           Cidr(s) \in r.start .. r.end => Cidr(s) = r.start /\ s.scenario = r.scenario,
         NEW ip \in r.start .. r.end
  PROVE  GetScenario(LoadScenarioData(lines), ip) = r.scenario
<1> DEFINE D == {Cidr(s) : s \in Rules(lines)}
           Of(c) == {i \in DOMAIN lines : lines[i].fields = 3 /\ Cidr(lines[i]) = c}
           table == LoadScenarioData(lines)
           t == Sorted(D)
           L == Cardinality(D)
           pos == BSearch(t, ip)
<1>1. /\ \A s \in Rules(lines) : s \in Line /\ s.fields = 3 /\ s \in Range(lines)
      /\ \A i \in DOMAIN lines : lines[i].fields = 3 => lines[i] \in Rules(lines)
      /\ DOMAIN lines \subseteq Nat
      /\ \A s \in Rules(lines) : \E i \in DOMAIN lines : s = lines[i]
  <2>1. DOMAIN lines \subseteq Nat
    <3>1. 1 .. Len(lines) \subseteq Nat
      BY SMTT(20)
    <3> QED BY <3>1, Entries
  <2>2. /\ \A x \in Range(lines) : x \in Line /\ \E i \in DOMAIN lines : x = lines[i]
        /\ \A i \in DOMAIN lines : lines[i] \in Range(lines)
    BY Entries
  <2>3. \A s : s \in Rules(lines) <=> s \in Range(lines) /\ s.fields = 3
    BY DEF Rules
  <2> QED BY <2>1, <2>2, <2>3
<1>2. /\ r.start \in Nat /\ r.end \in Nat /\ Cidr(r) = r.start
      /\ And[Bits][ip][r.start] = r.start
  BY <1>1, CidrOfNetwork
<1>3. ip \in Nat /\ r.start <= ip /\ ip <= r.end
  BY <1>2, SMTT(20)
<1>4. D \subseteq Nat /\ IsFiniteSet(D)
  <2>1. Bits \in 0 .. Bits /\ Pow2[Bits] \in Nat
    <3>1. Bits \in 0 .. Bits
      BY ResourcesAssumption, SMTT(20)
    <3> QED BY <3>1, PowType
  <2>2. ASSUME NEW s \in Rules(lines) PROVE Cidr(s) \in Nat /\ Cidr(s) <= Pow2[Bits]
    <3>1. s.start \in Nat /\ s.end \in Nat /\ s.start < Pow2[Bits]
      BY <1>1 DEF Line
    <3>2. Cidr(s) \in Nat /\ Cidr(s) <= s.start
      BY <2>1, <3>1, AndBound DEF Cidr
    <3> QED BY <2>1, <3>1, <3>2, SMTT(20)
  <2>3. D \in SUBSET Nat /\ \A c \in D : c <= Pow2[Bits]
    BY <2>2
  <2> HIDE DEF D
  <2> QED BY <2>1, <2>3, FS_BoundedSetOfNaturals
<1>5. /\ L \in Nat /\ t \in [1 .. L -> D]
      /\ \A i, j \in 1 .. L : i < j => t[i] < t[j]
      /\ \A x \in D : \E i \in 1 .. L : t[i] = x
  <2> HIDE DEF D
  <2> QED BY <1>4, SortedTable
<1>6. table = [c \in D |-> lines[Min(Of(c))].scenario]
  BY DEF LoadScenarioData
<1>7. r.start \in D
  BY <1>2
<1>8. \A c \in D : \E s \in Rules(lines) : c = Cidr(s)
  OBVIOUS
<1>9. ASSUME NEW c \in D, c \in r.start .. r.end
      PROVE  c = r.start /\ lines[Min(Of(c))].scenario = r.scenario
  <2>1. PICK s \in Rules(lines) : c = Cidr(s)
    BY <1>8
  <2>2. c = r.start
    BY <1>9, <2>1
  <2>3. Of(c) \subseteq Nat /\ Of(c) # {}
    <3>1. PICK i \in DOMAIN lines : s = lines[i]
      BY <1>1
    <3> QED BY <1>1, <2>1, <3>1
  <2>4. Min(Of(c)) \in Of(c)
    BY <2>3, LeastIsMin
  <2>5. lines[Min(Of(c))] \in Rules(lines) /\ Cidr(lines[Min(Of(c))]) = c
    BY <1>1, <2>4
  <2> QED BY <1>9, <2>2, <2>5
<1> HIDE DEF D, Of
<1>10. t \in [1 .. L -> Nat] /\ Len(t) = L
  <2>1. t \in [1 .. L -> Nat]
    BY <1>4, <1>5
  <2> HIDE DEF t, L
  <2> QED BY <1>5, <2>1, SMTT(20)
<1>11. pos \in 0 .. L /\ \A i \in 1 .. L : t[i] <= ip <=> i <= pos
  <2> HIDE DEF t, L
  <2>1. /\ ip \in Nat /\ L \in Nat /\ Len(t) = L /\ t \in [1 .. L -> Nat]
        /\ \A i, j \in 1 .. L : i < j => t[i] < t[j]
    BY <1>3, <1>5, <1>10
  <2>2. /\ BSearch(t, ip) \in 0 .. L
        /\ \A i \in 1 .. L : t[i] <= ip <=> i <= BSearch(t, ip)
    BY <2>1, SearchFindsLast
  <2> QED BY <2>2
<1> HIDE DEF t, L, pos
<1>12. PICK i \in 1 .. L : t[i] = r.start
  BY <1>5, <1>7
<1>13. i <= pos
  BY <1>3, <1>11, <1>12
<1>14. pos \in 1 .. L /\ pos > 0
  BY <1>5, <1>11, <1>13, SMTT(20)
<1>15. t[pos] \in D /\ t[pos] \in Nat /\ t[pos] <= ip
  <2>1. pos <= pos
    BY <1>14, SMTT(20)
  <2> QED BY <1>4, <1>5, <1>11, <1>14, <2>1
<1>16. t[pos] \in r.start .. r.end
  <2>1. i = pos \/ i < pos
    BY <1>13, <1>14, SMTT(20)
  <2>2. i < pos => r.start < t[pos]
    BY <1>5, <1>12, <1>14
  <2> QED BY <1>2, <1>3, <1>12, <1>15, <2>1, <2>2, SMTT(20)
<1>17. t[pos] = r.start /\ table[t[pos]] = r.scenario
  BY <1>6, <1>9, <1>15, <1>16
<1>18. DOMAIN table = D
  BY <1>6
<1>19. GetScenario(table, ip) =
         IF pos > 0 /\ And[Bits][ip][t[pos]] = t[pos] THEN table[t[pos]] ELSE SOLUTION_SCENARIO_OTHER
  BY <1>18 DEF GetScenario, CidrTable, t, pos
<1> QED BY <1>2, <1>14, <1>17, <1>19

-------------------------------------------------------------------------------
(* Areas.                                                                  *)

\* A number below the multiples of its quotient.
LEMMA Quotient ==
  ASSUME NEW a \in Nat, NEW P \in Nat \ {0}
  PROVE  a \div P \in Nat /\ (a \div P) * P <= a
BY SMTT(20)

\* ipDataFind() begins where flag says and finds the range of the address.
LEMMA RangeFound ==
  ASSUME res \in Resources, NEW ip \in Addresses
  PROVE  IpDataFind(res.ipip, ip) = res.ipip.index[RangeOf(ip)].name
<1> DEFINE index == res.ipip.index
           octet == ip \div PrefixSize
           first == res.ipip.flag[octet]
           L == Len(index)
           found == {i \in first + 1 .. L : index[i].upTo >= ip}
           Right(i) == index[i].upTo >= ip /\ (i = 1 \/ index[i - 1].upTo < ip)
<1>1. TableOK(res.ipip) /\ ip \in Nat /\ PrefixSize \in Nat \ {0}
  BY ResourcesAssumption
<1>2. /\ index \in Seq([upTo : Nat, name : Seq(STRING)])
      /\ \A i, j \in DOMAIN index : i < j => index[i].upTo < index[j].upTo
      /\ \E i \in DOMAIN index : ip <= index[i].upTo
      /\ first \in 0 .. L
      /\ \A i \in 1 .. first : index[i].upTo < octet * PrefixSize
  BY <1>1 DEF TableOK
<1>3. octet \in Nat /\ octet * PrefixSize \in Nat /\ octet * PrefixSize <= ip
  <2>1. octet \in Nat /\ octet * PrefixSize <= ip
    BY <1>1, Quotient
  <2> HIDE DEF octet
  <2> QED BY <1>1, <2>1, SMTT(20)
<1> HIDE DEF index, octet, first
<1>4. L \in Nat /\ DOMAIN index = 1 .. L /\ \A i \in 1 .. L : index[i].upTo \in Nat
  <2>1. /\ L \in Nat /\ DOMAIN index = 1 .. L
        /\ \A i \in DOMAIN index : index[i] \in [upTo : Nat, name : Seq(STRING)]
    BY <1>2, Entries
  <2> QED BY <2>1
<1> HIDE DEF L
<1>5. ASSUME NEW i \in 1 .. L, ip <= index[i].upTo PROVE i \in first + 1 .. L
  <2>1. CASE i <= first
    <3>1. i \in 1 .. first
      BY <1>2, <1>4, <2>1, SMTT(20)
    <3>2. index[i].upTo < octet * PrefixSize /\ index[i].upTo \in Nat
      BY <1>2, <1>4, <3>1
    <3> DEFINE u == index[i].upTo
               p == octet * PrefixSize
    <3>3. u < p /\ u \in Nat /\ ip <= u /\ p \in Nat /\ p <= ip
      BY <1>3, <1>5, <3>2
    <3> HIDE DEF u, p
    <3> QED BY <1>1, <3>3, SMTT(20)
  <2>2. CASE ~(i <= first)
    BY <1>2, <1>4, <2>2, SMTT(20)
  <2> QED BY <2>1, <2>2
<1>6. \A i \in first + 1 .. L : i \in 1 .. L
  BY <1>2, <1>4, SMTT(20)
<1>7. \A i \in 1 .. L : index[i].upTo >= ip <=> ip <= index[i].upTo
  BY <1>1, <1>4, SMTT(20)
<1>8. found \subseteq Nat /\ found # {}
  <2>1. PICK i \in 1 .. L : ip <= index[i].upTo
    BY <1>2, <1>4
  <2>2. i \in found
    BY <1>5, <1>7, <2>1
  <2>3. 1 .. L \subseteq Nat
    BY <1>4, SMTT(20)
  <2> QED BY <1>6, <2>2, <2>3
<1> DEFINE m == Min(found)
<1>9. m \in found /\ \A i \in found : m <= i
  BY <1>8, LeastIsMin
<1> HIDE DEF m
<1>10. m \in 1 .. L /\ ip <= index[m].upTo /\ Right(m)
  <2>1. m \in 1 .. L /\ index[m].upTo >= ip
    BY <1>6, <1>9
  <2>2. ASSUME m # 1 PROVE index[m - 1].upTo < ip
    <3>1. m - 1 \in 1 .. L /\ ~(m <= m - 1)
      BY <1>4, <2>1, <2>2, SMTT(20)
    <3>2. ~(ip <= index[m - 1].upTo)
      BY <1>5, <1>7, <1>9, <3>1
    <3>3. index[m - 1].upTo \in Nat
      BY <1>4, <3>1
    <3> QED BY <1>1, <3>2, <3>3, SMTT(20)
  <2> QED BY <1>7, <2>1, <2>2
<1>11. ASSUME NEW i \in 1 .. L, Right(i) PROVE i = m
  <2> DEFINE u == index[i].upTo
             v == index[m].upTo
  <2>1. u \in Nat /\ v \in Nat /\ u >= ip /\ ip <= v
    BY <1>4, <1>10, <1>11
  <2>2. CASE i < m
    <3>1. i \in found
      BY <1>5, <1>7, <1>11
    <3> QED BY <1>4, <1>9, <1>10, <2>2, <3>1, SMTT(20)
  <2>3. CASE m < i
    <3>1. i # 1 /\ i - 1 \in 1 .. L /\ (m = i - 1 \/ m < i - 1)
      BY <1>4, <1>10, <2>3, SMTT(20)
    <3>2. index[i - 1].upTo < ip /\ index[i - 1].upTo \in Nat
      BY <1>4, <1>11, <3>1
    <3>3. m < i - 1 => v < index[i - 1].upTo
      BY <1>2, <1>4, <1>10, <3>1
    <3>4. m = i - 1 => v = index[i - 1].upTo
      OBVIOUS
    <3> DEFINE w == index[i - 1].upTo
    <3>5. w < ip /\ w \in Nat /\ (v < w \/ v = w)
      BY <3>1, <3>2, <3>3, <3>4
    <3> HIDE DEF v, w
    <3> QED BY <1>1, <2>1, <3>5, SMTT(20)
  <2>4. i = m \/ i < m \/ m < i
    BY <1>4, <1>10, SMTT(20)
  <2> QED BY <2>2, <2>3, <2>4
<1>12. RangeOf(ip) = CHOOSE i \in 1 .. L : Right(i)
  BY <1>4 DEF RangeOf, index
<1>13. RangeOf(ip) = m
  BY <1>10, <1>11, <1>12
<1>14. IpDataFind(res.ipip, ip) = index[m].name
  BY <1>8 DEF IpDataFind, index, octet, first, m, L
<1> QED BY <1>13, <1>14 DEF index

\* The order in which loadAreaData() inserts areas, and those of a name.
AreaBefore(l, m) ==
  \/ Level(l) < Level(m)
  \/ Level(l) = Level(m) /\ GetAreaShortCode(l) <= GetAreaShortCode(m)

AreasNamed(lines, n) == {l \in Range(lines) : FullName(lines, l) = n}

\* Lines have a level and a code.
LEMMA AreaFields ==
  ASSUME NEW l \in AreaLine
  PROVE  Level(l) \in {1, 2, 3} /\ GetAreaShortCode(l) \in Nat
<1>1. l.country \in Nat /\ l.province \in Nat /\ l.city \in Nat /\ AREACODE_MARGIN \in Nat
  BY ResourcesAssumption DEF AreaLine
<1> DEFINE c == l.country * AREACODE_MARGIN
           d == IF Level(l) = 3 THEN l.city ELSE l.province
<1>2. c \in Nat
  BY <1>1, SMTT(20)
<1>3. d \in Nat
  BY <1>1
<1>4. GetAreaShortCode(l) = c + d
  BY DEF GetAreaShortCode
<1> HIDE DEF c, d
<1>5. GetAreaShortCode(l) \in Nat
  BY <1>2, <1>3, <1>4, SMTT(20)
<1>6. Level(l) \in {1, 2, 3}
  BY DEF Level
<1> QED BY <1>5, <1>6

\* A name has as many words as its level says.
LEMMA NameLevel ==
  ASSUME NEW lines, NEW x \in AreaLine
  PROVE  Len(FullName(lines, x)) = Level(x)
<1>1. 1 # 2 /\ 1 # 3 /\ 2 # 3
  BY SMTT(20)
<1> DEFINE country == Kept(lines, 1, x.country * AREACODE_MARGIN).name
           province == Kept(lines, 2, x.country * AREACODE_MARGIN + x.province).name
<1>2. /\ Level(x) = 1 => FullName(lines, x) = <<x.name>>
      /\ Level(x) = 2 => FullName(lines, x) = <<country, x.name>>
      /\ Level(x) = 3 => FullName(lines, x) = <<country, province, x.name>>
  BY <1>1 DEF FullName
<1> HIDE DEF country, province
<1>3. /\ Len(<<x.name>>) = 1 /\ Len(<<country, x.name>>) = 2
      /\ Len(<<country, province, x.name>>) = 3
  BY SMTT(20)
<1> QED BY <1>2, <1>3, AreaFields

\* With one area to a code loadAreaData() keeps every line.
LEMMA EveryAreaKept ==
  ASSUME NEW lines, AreasOK(lines), NEW l \in Range(lines)
  PROVE  Kept(lines, Level(l), GetAreaShortCode(l)) = l
<1> DEFINE T == {i \in DOMAIN lines :
                   Level(lines[i]) = Level(l) /\ GetAreaShortCode(lines[i]) = GetAreaShortCode(l)}
<1>1. lines \in Seq(AreaLine)
  BY DEF AreasOK
<1>2. /\ Len(lines) \in Nat /\ DOMAIN lines = 1 .. Len(lines)
      /\ \E i \in DOMAIN lines : l = lines[i]
      /\ \A i \in DOMAIN lines : lines[i] \in Range(lines)
  BY <1>1, Entries
<1>3. 1 .. Len(lines) \subseteq Nat
  BY <1>2, SMTT(20)
<1>4. T \subseteq Nat /\ T # {}
  BY <1>2, <1>3
<1>5. Min(T) \in T
  BY <1>4, LeastIsMin
<1>6. Kept(lines, Level(l), GetAreaShortCode(l)) = lines[Min(T)]
  BY DEF Kept
<1> HIDE DEF T
<1>7. /\ Min(T) \in DOMAIN lines
      /\ Level(lines[Min(T)]) = Level(l) /\ GetAreaShortCode(lines[Min(T)]) = GetAreaShortCode(l)
  BY <1>5 DEF T
<1> QED BY <1>2, <1>6, <1>7 DEF AreasOK

\* areaDict has every name, with the first of its areas.
LEMMA AreaDict ==
  ASSUME NEW lines, AreasOK(lines)
  PROVE  LoadAreaData(lines) =
           [n \in {FullName(lines, l) : l \in Range(lines)} |->
              CHOOSE l \in AreasNamed(lines, n) : \A m \in AreasNamed(lines, n) : AreaBefore(l, m)]
<1> DEFINE entries == {l \in Range(lines) : l = Kept(lines, Level(l), GetAreaShortCode(l))}
<1>1. entries = Range(lines)
  BY EveryAreaKept
<1>2. LoadAreaData(lines) =
        [n \in {FullName(lines, l) : l \in entries} |->
           CHOOSE l \in {x \in entries : FullName(lines, x) = n} :
             \A m \in {x \in entries : FullName(lines, x) = n} : AreaBefore(l, m)]
  BY DEF LoadAreaData, AreaBefore
<1> HIDE DEF entries
<1> QED BY <1>1, <1>2 DEF AreasNamed

\* The code of the area a name has in areaDict is the lowest of the codes.
LEMMA LowestCode ==
  ASSUME NEW lines, AreasOK(lines), NEW n,
         NEW codes, codes = {GetAreaShortCode(l) : l \in AreasNamed(lines, n)}
  PROVE  /\ n \in DOMAIN LoadAreaData(lines) <=> codes # {}
         /\ codes # {} => GetAreaShortCode(LoadAreaData(lines)[n]) = Min(codes)
<1> DEFINE N == AreasNamed(lines, n)
           names == {FullName(lines, l) : l \in Range(lines)}
           d == LoadAreaData(lines)
           First(l) == l \in N /\ \A m \in N : AreaBefore(l, m)
<1>1. d = [k \in names |->
             CHOOSE l \in AreasNamed(lines, k) : \A m \in AreasNamed(lines, k) : AreaBefore(l, m)]
  BY AreaDict
<1>2. n \in names <=> codes # {}
  BY DEF AreasNamed
<1>3. n \in names => d[n] = CHOOSE l \in N : \A m \in N : AreaBefore(l, m)
  BY <1>1
<1>4. DOMAIN d = names
  BY <1>1
<1>5. \A l \in N : l \in AreaLine /\ FullName(lines, l) = n
  <2>1. lines \in Seq(AreaLine)
    BY DEF AreasOK
  <2>2. \A l \in Range(lines) : l \in AreaLine
    BY <2>1, Entries
  <2> QED BY <2>2 DEF AreasNamed
<1>6. \A l \in N : GetAreaShortCode(l) \in Nat /\ Level(l) \in {1, 2, 3} /\ Level(l) = Len(n)
  BY <1>5, AreaFields, NameLevel
<1> HIDE DEF N, names, d
<1>7. codes = {GetAreaShortCode(l) : l \in N}
  BY DEF N
<1>8. \A l, m \in N : AreaBefore(l, m) <=> GetAreaShortCode(l) <= GetAreaShortCode(m)
  <2> SUFFICES ASSUME NEW l \in N, NEW m \in N
               PROVE  AreaBefore(l, m) <=> GetAreaShortCode(l) <= GetAreaShortCode(m)
    OBVIOUS
  <2>1. Level(l) = Level(m) /\ Level(l) \in {1, 2, 3}
    BY <1>6
  <2>2. ~(Level(l) < Level(m))
    BY <2>1, SMTT(20)
  <2> QED BY <2>1, <2>2 DEF AreaBefore
<1>9. ASSUME codes # {} PROVE GetAreaShortCode(d[n]) = Min(codes)
  <2>1. codes \subseteq Nat
    BY <1>6, <1>7
  <2>2. Min(codes) \in codes /\ \A c \in codes : Min(codes) <= c
    BY <1>9, <2>1, LeastIsMin
  <2>3. PICK l \in N : GetAreaShortCode(l) = Min(codes)
    BY <1>7, <2>2
  <2>4. First(l)
    BY <1>7, <1>8, <2>2, <2>3
  <2>5. First(d[n])
    BY <1>2, <1>3, <1>9, <2>4
  <2> DEFINE c == GetAreaShortCode(d[n])
             e == Min(codes)
  <2>6. c <= e /\ e <= c /\ c \in Nat /\ e \in Nat
    BY <1>6, <1>7, <1>8, <2>1, <2>2, <2>3, <2>5
  <2> HIDE DEF c, e
  <2>7. c = e
    BY <2>6, SMTT(20)
  <2> QED BY <2>7 DEF c, e
<1> QED BY <1>2, <1>4, <1>9 DEF d

\* What getAreaByIp() returns once the areas are loaded.
LEMMA AreaFound ==
  ASSUME res \in Resources, NEW ip \in Addresses
  PROVE  LET codes == CodesOf(res.ipip.index[RangeOf(ip)].name)
         IN GetAreaByIp(res.ipip, LoadAreaData(res.areas), ip) =
              {IF codes = {} THEN IP_UNKNOWN ELSE Min(codes)}
<1> DEFINE name == res.ipip.index[RangeOf(ip)].name
           codes == CodesOf(name)
           d == LoadAreaData(res.areas)
<1>1. AreasOK(res.areas) /\ ip # Malformed
  BY ResourcesAssumption
<1>2. Found(res.ipip, ip) = {name}
  BY <1>1, RangeFound DEF Found
<1>3. codes = {GetAreaShortCode(l) : l \in AreasNamed(res.areas, Trim(name))}
  BY DEF CodesOf, AreasNamed
<1>4. /\ Trim(name) \in DOMAIN d <=> codes # {}
      /\ codes # {} => GetAreaShortCode(d[Trim(name)]) = Min(codes)
  <2> HIDE DEF codes, name
  <2> QED BY <1>1, <1>3, LowestCode
<1>5. GetAreaByIp(res.ipip, d, ip) =
        {IF Trim(n) \in DOMAIN d THEN GetAreaShortCode(d[Trim(n)]) ELSE IP_UNKNOWN :
           n \in Found(res.ipip, ip)}
  BY DEF GetAreaByIp
<1> HIDE DEF name, codes, d
<1>6. GetAreaByIp(res.ipip, d, ip) =
        {IF Trim(name) \in DOMAIN d THEN GetAreaShortCode(d[Trim(name)]) ELSE IP_UNKNOWN}
  BY <1>2, <1>5
<1>7. GetAreaByIp(res.ipip, d, ip) = {IF codes = {} THEN IP_UNKNOWN ELSE Min(codes)}
  BY <1>4, <1>6
<1> QED BY <1>7 DEF name, codes, d

-------------------------------------------------------------------------------
(* Sizes.                                                                  *)

Sizes == Nat \X Nat
Tables == [get  : UNION {[D -> Seq(Sizes)] : D \in SUBSET (Nat \X Sizes)},
           rget : UNION {[D -> Sizes] : D \in SUBSET Sizes}]

\* What the maps hold comes from the rows R, and a size has a way back.
FromRows(R, x) ==
  /\ x \in Tables
  /\ \A k \in DOMAIN x.get : \A i \in DOMAIN x.get[k] :
       /\ x.get[k][i] \in DOMAIN x.rget
       /\ \E r \in R : k = <<r.type, r.from>> /\ x.get[k][i] = r.to
  /\ \A z \in DOMAIN x.rget : \E r \in R : z = r.to /\ x.rget[z] = r.from

\* The maps of a table are functions to sequences of sizes and to sizes.
LEMMA TablesFields ==
  ASSUME NEW x \in Tables
  PROVE  /\ DOMAIN x.get \subseteq Nat \X Sizes /\ DOMAIN x.rget \subseteq Sizes
         /\ x.get \in [DOMAIN x.get -> Seq(Sizes)] /\ x.rget \in [DOMAIN x.rget -> Sizes]
<1>1. /\ x.get \in UNION {[D -> Seq(Sizes)] : D \in SUBSET (Nat \X Sizes)}
      /\ x.rget \in UNION {[D -> Sizes] : D \in SUBSET Sizes}
  BY DEF Tables
<1>2. PICK D \in SUBSET (Nat \X Sizes) : x.get \in [D -> Seq(Sizes)]
  BY <1>1
<1>3. PICK E \in SUBSET Sizes : x.rget \in [E -> Sizes]
  BY <1>1
<1>4. DOMAIN x.get = D /\ DOMAIN x.rget = E
  BY <1>2, <1>3
<1> QED BY <1>2, <1>3, <1>4

\* What add() makes of the two maps.
LEMMA AddFields ==
  ASSUME NEW x \in Tables, NEW row \in Row
  PROVE  LET key == <<row.type, row.from>>
             old == IF key \in DOMAIN x.get THEN x.get[key] ELSE <<>>
             y == Add(x, row)
         IN /\ y \in Tables
            /\ DOMAIN y.get = DOMAIN x.get \cup {key} /\ DOMAIN y.rget = DOMAIN x.rget \cup {row.to}
            /\ old \in Seq(Sizes) /\ y.get[key] = Append(old, row.to)
            /\ \A k \in DOMAIN x.get : k # key => y.get[k] = x.get[k]
            /\ \A z \in DOMAIN x.rget : y.rget[z] = x.rget[z]
            /\ row.to \notin DOMAIN x.rget => y.rget[row.to] = row.from
<1> DEFINE key == <<row.type, row.from>>
           old == IF key \in DOMAIN x.get THEN x.get[key] ELSE <<>>
           G == [k \in DOMAIN x.get \cup {key} |->
                   IF k = key THEN Append(old, row.to) ELSE x.get[k]]
           H == [k \in DOMAIN x.rget \cup {row.to} |->
                   IF k \in DOMAIN x.rget THEN x.rget[k] ELSE row.from]
<1>1. Add(x, row) = [get |-> G, rget |-> H]
  BY DEF Add
<1>2. key \in Nat \X Sizes /\ row.to \in Sizes /\ row.from \in Sizes
  BY DEF Row, Sizes
<1>3. /\ DOMAIN x.get \subseteq Nat \X Sizes /\ DOMAIN x.rget \subseteq Sizes
      /\ x.get \in [DOMAIN x.get -> Seq(Sizes)] /\ x.rget \in [DOMAIN x.rget -> Sizes]
  BY TablesFields
<1>4. old \in Seq(Sizes)
  <2>1. <<>> \in Seq(Sizes)
    BY SMTT(20)
  <2>2. key \in DOMAIN x.get => x.get[key] \in Seq(Sizes)
    BY <1>3
  <2> QED BY <2>1, <2>2
<1>5. Append(old, row.to) \in Seq(Sizes)
  <2> HIDE DEF old
  <2> QED BY <1>2, <1>4, SMTT(20)
<1> HIDE DEF old, key
<1> DEFINE D == DOMAIN x.get \cup {key}
           E == DOMAIN x.rget \cup {row.to}
<1>6. D \in SUBSET (Nat \X Sizes) /\ E \in SUBSET Sizes
  BY <1>2, <1>3
<1>7. G \in [D -> Seq(Sizes)]
  <2>1. \A k \in DOMAIN x.get : x.get[k] \in Seq(Sizes)
    BY <1>3
  <2> QED BY <1>5, <2>1
<1>8. H \in [E -> Sizes]
  <2>1. \A k \in DOMAIN x.rget : x.rget[k] \in Sizes
    BY <1>3
  <2> QED BY <1>2, <2>1
<1>9. DOMAIN G = D /\ DOMAIN H = E
  OBVIOUS
<1>10. /\ G[key] = Append(old, row.to)
       /\ \A k \in DOMAIN x.get : k # key => G[k] = x.get[k]
       /\ \A z \in DOMAIN x.rget : H[z] = x.rget[z]
       /\ row.to \notin DOMAIN x.rget => H[row.to] = row.from
  OBVIOUS
<1> HIDE DEF G, H
<1>11. [get |-> G, rget |-> H] \in Tables
  BY <1>6, <1>7, <1>8 DEF Tables
<1>12. [get |-> G, rget |-> H].get = G /\ [get |-> G, rget |-> H].rget = H
  OBVIOUS
<1> QED BY <1>1, <1>4, <1>9, <1>10, <1>11, <1>12 DEF old, key

\* Added satisfies its equation.
LEMMA AddedEquation ==
  ASSUME NEW s \in Seq(Row)
  PROVE  /\ Added(s)[0] = NoSizes
         /\ \A n \in 1 .. Len(s) : Added(s)[n] = Add(Added(s)[n - 1], s[n])
<1> DEFINE L == Len(s)
           F == [p \in (1 .. L) \X Tables |-> Add(p[2], s[p[1]])]
<1>1. L \in Nat /\ \A n \in 1 .. L : s[n] \in Row
  BY Entries
<1>2. NoSizes \in Tables
  <2>1. /\ <<>> \in [{} -> Seq(Sizes)] /\ <<>> \in [{} -> Sizes]
        /\ {} \in SUBSET (Nat \X Sizes) /\ {} \in SUBSET Sizes
    BY SMTT(20)
  <2> QED BY <2>1 DEF NoSizes, Tables
<1>3. F \in [(1 .. L) \X Tables -> Tables]
  BY <1>1, AddFields
<1>4. \A n \in 1 .. L, x \in Tables : F[<<n, x>>] = Add(x, s[n])
  OBVIOUS
<1> HIDE DEF F
<1>5. PICK f \in [0 .. L -> Tables] : Unfolds(f, NoSizes, L, F)
  BY <1>1, <1>2, <1>3, Recursion
<1>6. \A n \in 0 .. L : (n # 0 => n \in 1 .. L) /\ (n \in 1 .. L => n - 1 \in 0 .. L)
  BY <1>1, SMTT(20)
<1>7. ASSUME NEW n \in 0 .. L
      PROVE  f[n] = IF n = 0 THEN NoSizes ELSE Add(f[n - 1], s[n])
  BY <1>4, <1>5, <1>6 DEF Unfolds
<1>8. f = [n \in 0 .. L |-> IF n = 0 THEN NoSizes ELSE Add(f[n - 1], s[n])]
  BY <1>7
<1>9. Added(s) = [n \in 0 .. L |-> IF n = 0 THEN NoSizes ELSE Add(Added(s)[n - 1], s[n])]
  BY <1>8 DEF Added
<1>10. 0 \in 0 .. L /\ \A n \in 1 .. L : n \in 0 .. L /\ n # 0
  BY <1>1, SMTT(20)
<1> QED BY <1>9, <1>10

\* Nothing is in the empty maps.
LEMMA NoRows == ASSUME NEW R PROVE FromRows(R, NoSizes)
<1>1. /\ <<>> \in [{} -> Seq(Sizes)] /\ <<>> \in [{} -> Sizes] /\ DOMAIN <<>> = {}
      /\ {} \in SUBSET (Nat \X Sizes) /\ {} \in SUBSET Sizes
  BY SMTT(20)
<1>2. NoSizes \in Tables
  BY <1>1 DEF NoSizes, Tables
<1>3. DOMAIN NoSizes.get = {} /\ DOMAIN NoSizes.rget = {}
  BY <1>1 DEF NoSizes
<1> QED BY <1>2, <1>3 DEF FromRows

\* The entries of a sequence with one more element.
LEMMA Appended ==
  ASSUME NEW X, NEW s \in Seq(X), NEW x, x \in X, NEW i \in DOMAIN Append(s, x)
  PROVE  (i \in DOMAIN s /\ Append(s, x)[i] = s[i]) \/ Append(s, x)[i] = x
BY SMTT(20)

\* add() puts in what the row says.
LEMMA AddFromRows ==
  ASSUME NEW R, R \subseteq Row, NEW x, FromRows(R, x), NEW row \in R
  PROVE  FromRows(R, Add(x, row))
<1> DEFINE key == <<row.type, row.from>>
           old == IF key \in DOMAIN x.get THEN x.get[key] ELSE <<>>
           y == Add(x, row)
<1>1. /\ y \in Tables
      /\ DOMAIN y.get = DOMAIN x.get \cup {key} /\ DOMAIN y.rget = DOMAIN x.rget \cup {row.to}
      /\ old \in Seq(Sizes) /\ y.get[key] = Append(old, row.to)
      /\ \A k \in DOMAIN x.get : k # key => y.get[k] = x.get[k]
      /\ \A z \in DOMAIN x.rget : y.rget[z] = x.rget[z]
      /\ row.to \notin DOMAIN x.rget => y.rget[row.to] = row.from
  <2>1. x \in Tables /\ row \in Row
    BY DEF FromRows
  <2> QED BY <2>1, AddFields
<1>2. \A k \in DOMAIN x.get : \A i \in DOMAIN x.get[k] :
        /\ x.get[k][i] \in DOMAIN x.rget
        /\ \E r \in R : k = <<r.type, r.from>> /\ x.get[k][i] = r.to
  BY DEF FromRows
<1>3. \A z \in DOMAIN x.rget : \E r \in R : z = r.to /\ x.rget[z] = r.from
  BY DEF FromRows
<1>4. \A i \in DOMAIN old : key \in DOMAIN x.get /\ old = x.get[key]
  <2>1. DOMAIN <<>> = {}
    BY SMTT(20)
  <2> QED BY <2>1
<1>5. row.to \in Sizes
  BY DEF Row, Sizes
<1> HIDE DEF old, y
<1>6. ASSUME NEW k \in DOMAIN y.get, NEW i \in DOMAIN y.get[k]
      PROVE  /\ y.get[k][i] \in DOMAIN y.rget
             /\ \E r \in R : k = <<r.type, r.from>> /\ y.get[k][i] = r.to
  <2>0. DOMAIN x.rget \subseteq DOMAIN y.rget
    BY <1>1
  <2>1. CASE k # key
    <3>1. k \in DOMAIN x.get
      BY <1>1, <2>1
    <3>2. y.get[k] = x.get[k]
      BY <1>1, <2>1, <3>1
    <3> QED BY <1>2, <2>0, <3>1, <3>2
  <2>2. CASE k = key
    <3>1. y.get[k] = Append(old, row.to)
      BY <1>1, <2>2
    <3>2. i \in DOMAIN Append(old, row.to)
      BY <3>1
    <3>3. (i \in DOMAIN old /\ Append(old, row.to)[i] = old[i]) \/ Append(old, row.to)[i] = row.to
      <4>1. old \in Seq(Sizes)
        BY <1>1
      <4> QED BY <1>5, <3>2, <4>1, Appended, SMTT(20)
    <3>4. CASE y.get[k][i] = row.to
      BY <1>1, <2>2, <3>4
    <3>5. CASE i \in DOMAIN old /\ y.get[k][i] = old[i]
      <4>1. k \in DOMAIN x.get /\ old = x.get[k]
        BY <1>4, <2>2, <3>5
      <4> QED BY <1>2, <2>0, <3>5, <4>1
    <3> QED BY <3>1, <3>3, <3>4, <3>5
  <2> QED BY <2>1, <2>2
<1>7. ASSUME NEW z \in DOMAIN y.rget PROVE \E r \in R : z = r.to /\ y.rget[z] = r.from
  <2>1. CASE z \in DOMAIN x.rget
    BY <1>1, <1>3, <2>1
  <2>2. CASE z \notin DOMAIN x.rget
    BY <1>1, <2>2
  <2> QED BY <2>1, <2>2
<1>8. FromRows(R, y)
  BY <1>1, <1>6, <1>7 DEF FromRows
<1> QED BY <1>8 DEF y

\* However many rows were read before the database failed.
LEMMA SizesFromRows ==
  ASSUME NEW rows \in Seq(Row), NEW static \in Seq(Row), NEW n \in 0 .. Len(rows) + 1
  PROVE  FromRows(Range(rows) \cup Range(static), InitFromDB(rows, static, n))
<1> DEFINE R == Range(rows) \cup Range(static)
           s == IF n > Len(rows) THEN rows ELSE SubSeq(rows, 1, n) \o static
           L == Len(s)
           T == {m \in 0 .. L : FromRows(R, Added(s)[m])}
<1>1. R \subseteq Row
  <2>1. \A r \in Range(rows) : r \in Row
    BY Entries
  <2>2. \A r \in Range(static) : r \in Row
    BY Entries
  <2> QED BY <2>1, <2>2
<1>2. rows \in Seq(R) /\ static \in Seq(R)
  <2>1. \A X : \A q \in Seq(Row) : (\A i \in DOMAIN q : q[i] \in X) => q \in Seq(X)
    BY SMTT(20)
  <2>2. (\A i \in DOMAIN rows : rows[i] \in R) /\ (\A i \in DOMAIN static : static[i] \in R)
    BY DEF Range
  <2> HIDE DEF R
  <2> QED BY <2>1, <2>2
<1> HIDE DEF R
<1>3. s \in Seq(R)
  <2>1. CASE n > Len(rows)
    BY <1>2, <2>1
  <2>2. CASE ~(n > Len(rows))
    <3>1. Len(rows) \in Nat
      BY Entries
    <3>2. n \in 0 .. Len(rows)
      BY <2>2, <3>1, SMTT(20)
    <3>3. SubSeq(rows, 1, n) \in Seq(R)
      BY <1>2, <3>1, <3>2, SMTT(20)
    <3>4. SubSeq(rows, 1, n) \o static \in Seq(R)
      BY <1>2, <3>3, SMTT(20)
    <3> QED BY <2>2, <3>4
  <2> QED BY <2>1, <2>2
<1>4. InitFromDB(rows, static, n) = Added(s)[L]
  BY DEF InitFromDB
<1> HIDE DEF s
<1>5. s \in Seq(Row)
  BY <1>1, <1>3, SMTT(20)
<1>6. L \in Nat /\ \A i \in 1 .. L : s[i] \in R
  BY <1>3, Entries
<1>7. /\ Added(s)[0] = NoSizes
      /\ \A m \in 1 .. L : Added(s)[m] = Add(Added(s)[m - 1], s[m])
  BY <1>5, AddedEquation
<1>8. 0 \in 0 .. L /\ L \in 0 .. L /\ \A m \in 1 .. L : m \in 0 .. L
  BY <1>6, SMTT(20)
<1>9. 0 \in T
  BY <1>7, <1>8, NoRows
<1>10. ASSUME NEW m \in 1 .. L, m - 1 \in T PROVE m \in T
  BY <1>1, <1>6, <1>7, <1>8, <1>10, AddFromRows
<1> HIDE DEF T, L
<1>11. L \in T
  BY <1>6, <1>8, <1>9, <1>10, Climb
<1> QED BY <1>4, <1>11 DEF T, R

\* A native size that the rows agree on comes back as the size asked for.
BackFrom(R, x) ==
  \A k \in DOMAIN x.get : \A i \in DOMAIN SizesFor(x, k[1], k[2]) :
    (\A a, b \in R : a.to = SizesFor(x, k[1], k[2])[i] /\ b.to = SizesFor(x, k[1], k[2])[i]
                     => a.from = b.from)
      => Rget(x, SizesFor(x, k[1], k[2])[i]) = k[2]

\* rget() takes a size back where its rows agree.
LEMMA SizesBack ==
  ASSUME NEW R, NEW x, FromRows(R, x)
  PROVE  BackFrom(R, x)
<1> SUFFICES ASSUME NEW k \in DOMAIN x.get, NEW i \in DOMAIN SizesFor(x, k[1], k[2]),
                    \A a, b \in R : a.to = SizesFor(x, k[1], k[2])[i] /\ b.to = SizesFor(x, k[1], k[2])[i]
                                    => a.from = b.from
             PROVE  Rget(x, SizesFor(x, k[1], k[2])[i]) = k[2]
  BY DEF BackFrom
<1>1. x \in Tables
  BY DEF FromRows
<1>2. k \in Nat \X Sizes
  BY <1>1, TablesFields
<1>3. k = <<k[1], k[2]>>
  BY <1>2, SMTT(20)
<1>4. SizesFor(x, k[1], k[2]) = x.get[k]
  BY <1>3 DEF SizesFor
<1> DEFINE z == x.get[k][i]
<1>5. z \in DOMAIN x.rget /\ \E r \in R : k = <<r.type, r.from>> /\ z = r.to
  BY <1>4 DEF FromRows
<1>6. PICK r \in R : k = <<r.type, r.from>> /\ z = r.to
  BY <1>5
<1>7. PICK q \in R : z = q.to /\ x.rget[z] = q.from
  BY <1>5 DEF FromRows
<1>8. q.from = r.from
  BY <1>4, <1>6, <1>7
<1>9. k[2] = r.from
  BY <1>6
<1>10. Rget(x, z) = x.rget[z]
  BY <1>5 DEF Rget
<1> QED BY <1>4, <1>7, <1>8, <1>9, <1>10

-------------------------------------------------------------------------------
(* The workers.                                                            *)

SizeRows == Range(res.rows) \cup Range(res.static)

\* What a worker loaded is what the files say: its own table from the moment
\* it made it, the one in a cache that is whole, and every map of sizes.
LoadInv ==
  /\ res \in Resources
  /\ DOMAIN phase = Workers /\ DOMAIN areas = Workers /\ DOMAIN dict = Workers
  /\ DOMAIN sizes = Workers
  /\ cache = "whole" => cached = LoadScenarioData(res.lines)
  /\ \A w \in Workers :
       /\ phase[w] # "new" => areas[w] = LoadAreaData(res.areas)
       /\ phase[w] \in {"write", "serving"} => dict[w] = LoadScenarioData(res.lines)
       /\ FromRows(SizeRows, sizes[w])

\* The first worker has loaded nothing.
LEMMA LoadInit == StartupInit => LoadInv
<1> SUFFICES ASSUME StartupInit PROVE LoadInv
  OBVIOUS
<1>1. /\ res \in Resources /\ cache # "whole"
      /\ DOMAIN phase = Workers /\ DOMAIN areas = Workers /\ DOMAIN dict = Workers
      /\ DOMAIN sizes = Workers
  BY DEF StartupInit
<1>2. \A w \in Workers : phase[w] = "new" /\ sizes[w] = NoSizes
  BY DEF StartupInit
<1> QED BY <1>1, <1>2, NoRows DEF LoadInv

\* A worker that another one replaces has loaded nothing, the others keep
\* what they have.
LEMMA RespawnKeeps ==
  ASSUME LoadInv, NEW w \in Workers, Respawn(w), res' = res, cache' = cache, cached' = cached
  PROVE  LoadInv'
<1>1. /\ DOMAIN phase' = Workers /\ DOMAIN areas' = Workers /\ DOMAIN dict' = Workers
      /\ DOMAIN sizes' = Workers
  BY DEF LoadInv, Respawn, Goto
<1>2. SizeRows' = SizeRows
  BY DEF SizeRows
<1>3. ASSUME NEW v \in Workers
      PROVE  /\ phase'[v] # "new" => areas'[v] = LoadAreaData(res.areas)
             /\ phase'[v] \in {"write", "serving"} => dict'[v] = LoadScenarioData(res.lines)
             /\ FromRows(SizeRows, sizes'[v])
  <2>1. CASE v = w
    <3>1. phase'[v] = "new" /\ sizes'[v] = NoSizes
      BY <2>1 DEF LoadInv, Respawn, Goto
    <3> QED BY <3>1, NoRows
  <2>2. CASE v # w
    <3>1. phase'[v] = phase[v] /\ areas'[v] = areas[v] /\ dict'[v] = dict[v] /\ sizes'[v] = sizes[v]
      BY <2>2 DEF LoadInv, Respawn, Goto
    <3> QED BY <3>1 DEF LoadInv
  <2> QED BY <2>1, <2>2
<1>4. res \in Resources /\ (cache = "whole" => cached = LoadScenarioData(res.lines))
  BY DEF LoadInv
<1> QED BY <1>1, <1>2, <1>3, <1>4 DEF LoadInv

\* A step of one worker keeps the invariant if it does for that worker and
\* for the cache.
LEMMA OneWorker ==
  ASSUME LoadInv, NEW w \in Workers, res' = res,
         \A v \in Workers \ {w} : /\ phase'[v] = phase[v] /\ areas'[v] = areas[v]
                                  /\ dict'[v] = dict[v] /\ sizes'[v] = sizes[v],
         /\ DOMAIN phase' = Workers /\ DOMAIN areas' = Workers /\ DOMAIN dict' = Workers
         /\ DOMAIN sizes' = Workers,
         cache' = "whole" => cached' = LoadScenarioData(res.lines),
         phase'[w] # "new" => areas'[w] = LoadAreaData(res.areas),
         phase'[w] \in {"write", "serving"} => dict'[w] = LoadScenarioData(res.lines),
         FromRows(SizeRows, sizes'[w])
  PROVE  LoadInv'
<1>1. SizeRows' = SizeRows
  BY DEF SizeRows
<1>2. ASSUME NEW v \in Workers
      PROVE  /\ phase'[v] # "new" => areas'[v] = LoadAreaData(res.areas)
             /\ phase'[v] \in {"write", "serving"} => dict'[v] = LoadScenarioData(res.lines)
             /\ FromRows(SizeRows, sizes'[v])
  <2>1. CASE v = w
    BY <2>1
  <2>2. CASE v # w
    BY <2>2 DEF LoadInv
  <2> QED BY <2>1, <2>2
<1>3. res \in Resources
  BY DEF LoadInv
<1> QED BY <1>1, <1>2, <1>3 DEF LoadInv

\* Every step of a worker keeps it, whatever the others do to the cache.
LEMMA LoadNext == LoadInv /\ [StartupNext]_startupVars => LoadInv'
<1> SUFFICES ASSUME LoadInv, [StartupNext]_startupVars PROVE LoadInv'
  OBVIOUS
<1>1. CASE UNCHANGED startupVars
  <2>1. res' = res /\ cache' = cache /\ cached' = cached /\ phase' = phase
    BY <1>1 DEF startupVars, file
  <2>2. areas' = areas /\ dict' = dict /\ sizes' = sizes
    BY <1>1 DEF startupVars
  <2> QED BY <2>1, <2>2 DEF LoadInv, SizeRows
<1>2. ASSUME NEW w \in Workers, Start(w) \/ LoadSizes(w) \/ Kill(w) PROVE LoadInv'
  <2>0. /\ DOMAIN phase = Workers /\ DOMAIN areas = Workers /\ DOMAIN dict = Workers
        /\ DOMAIN sizes = Workers
        /\ cache = "whole" => cached = LoadScenarioData(res.lines)
        /\ phase[w] # "new" => areas[w] = LoadAreaData(res.areas)
        /\ phase[w] \in {"write", "serving"} => dict[w] = LoadScenarioData(res.lines)
        /\ FromRows(SizeRows, sizes[w])
    BY DEF LoadInv
  <2>1. CASE FirstRequest(w)
    <3>1. /\ res' = res /\ cache' = cache /\ cached' = cached /\ dict' = dict /\ sizes' = sizes
          /\ areas' = [areas EXCEPT ![w] = LoadAreaData(res.areas)]
      BY <2>1 DEF FirstRequest, file
    <3>2. PICK step \in {"create", "load"} : phase' = [phase EXCEPT ![w] = step]
      BY <2>1 DEF FirstRequest, Goto
    <3> QED BY <2>0, <3>1, <3>2, OneWorker
  <2>2. CASE LoadCache(w)
    <3>1. /\ res' = res /\ cache' = cache /\ cached' = cached /\ areas' = areas /\ sizes' = sizes
          /\ dict' = [dict EXCEPT ![w] = cached] /\ cache = "whole" /\ phase[w] = "load"
          /\ phase' = [phase EXCEPT ![w] = "serving"]
      BY <2>2 DEF LoadCache, file, Goto
    <3> QED BY <2>0, <3>1, OneWorker
  <2>3. CASE LoadFails(w)
    <3>1. res' = res /\ cache' = cache /\ cached' = cached /\ Respawn(w)
      BY <2>3 DEF LoadFails, file
    <3> QED BY <3>1, RespawnKeeps
  <2>4. CASE CreateCache(w)
    <3>1. /\ res' = res /\ cache' = "partial" /\ areas' = areas /\ sizes' = sizes
          /\ dict' = [dict EXCEPT ![w] = LoadScenarioData(res.lines)] /\ phase[w] = "create"
          /\ phase' = [phase EXCEPT ![w] = "write"]
      BY <2>4 DEF CreateCache, Goto
    <3> QED BY <2>0, <3>1, OneWorker
  <2>5. CASE CloseCache(w)
    <3>1. /\ res' = res /\ cached' = dict[w] /\ areas' = areas /\ dict' = dict /\ sizes' = sizes
          /\ phase[w] = "write" /\ phase' = [phase EXCEPT ![w] = "serving"]
      BY <2>5 DEF CloseCache, Goto
    <3> QED BY <2>0, <3>1, OneWorker
  <2>6. CASE LoadSizes(w)
    <3>1. /\ res' = res /\ cache' = cache /\ cached' = cached /\ areas' = areas /\ dict' = dict
          /\ phase' = phase
      BY <2>6 DEF LoadSizes, file
    <3>2. PICK n \in 0 .. Len(res.rows) + 1 :
            sizes' = [sizes EXCEPT ![w] = InitFromDB(res.rows, res.static, n)]
      BY <2>6 DEF LoadSizes
    <3>3. FromRows(SizeRows, InitFromDB(res.rows, res.static, n))
      <4>1. res.rows \in Seq(Row) /\ res.static \in Seq(Row)
        BY ResourcesAssumption DEF LoadInv
      <4> QED BY <4>1, SizesFromRows DEF SizeRows
    <3> QED BY <2>0, <3>1, <3>2, <3>3, OneWorker
  <2>7. CASE Kill(w)
    <3>1. res' = res /\ cache' = cache /\ cached' = cached /\ Respawn(w)
      BY <2>7 DEF Kill, file
    <3> QED BY <3>1, RespawnKeeps
  <2> QED BY <1>2, <2>1, <2>2, <2>3, <2>4, <2>5, <2>6, <2>7 DEF Start
<1> QED BY <1>1, <1>2 DEF StartupNext

\* However the workers race for the cache, die and come back, a worker has
\* loaded what the files say.
THEOREM TablesLoaded == StartupSpec => []LoadInv
BY LoadInit, LoadNext, PTL DEF StartupSpec

\* A worker that serves knows the scenario of every address of every network
\* that no other line gets in the way of, for any scenario file and any number
\* of workers (getScenario()).
THEOREM ScenariosKnown == StartupSpec => []ScenarioKnown
<1>1. LoadInv => ScenarioKnown
  <2> SUFFICES ASSUME LoadInv, NEW w \in Workers, phase[w] = "serving",
                      NEW r \in Rules(res.lines), Network(r), Unshadowed(r),
                      NEW ip \in r.start .. r.end
               PROVE  GetScenario(dict[w], ip) = r.scenario
    BY DEF ScenarioKnown
  <2>1. dict[w] = LoadScenarioData(res.lines) /\ res \in Resources
    BY DEF LoadInv
  <2>2. res.lines \in Seq(Line) /\ \A s \in Rules(res.lines) : s.start < Pow2[Bits]
    BY <2>1, ResourcesAssumption
  <2>3. \A s \in Rules(res.lines) :
          Cidr(s) \in r.start .. r.end => Cidr(s) = r.start /\ s.scenario = r.scenario
    BY DEF Unshadowed
  <2> QED BY <2>1, <2>2, <2>3, ScenarioFound
<1> QED BY <1>1, TablesLoaded, PTL

\* The code of an address is the lowest code of the areas with the name of
\* its range, for any address table and any areas (getAreaByIp()).
THEOREM AreasKnown == StartupSpec => []AreaKnown
<1>1. LoadInv => AreaKnown
  <2> SUFFICES ASSUME LoadInv, NEW w \in Workers, phase[w] = "serving", NEW ip \in Addresses
               PROVE  LET codes == CodesOf(res.ipip.index[RangeOf(ip)].name)
                      IN GetAreaByIp(res.ipip, areas[w], ip) =
                           {IF codes = {} THEN IP_UNKNOWN ELSE Min(codes)}
    BY DEF AreaKnown
  <2>1. areas[w] = LoadAreaData(res.areas) /\ res \in Resources
    BY DEF LoadInv
  <2> QED BY <2>1, AreaFound
<1> QED BY <1>1, TablesLoaded, PTL

\* A bid for a native size goes out with the size that was asked for,
\* wherever the database failed, if the tables agree on it (rget()).
THEOREM SizesComeBack == StartupSpec => []SizesReturn
<1>1. LoadInv => SizesReturn
  <2> SUFFICES ASSUME LoadInv, NEW w \in Workers, NEW k \in DOMAIN sizes[w].get,
                      NEW i \in DOMAIN SizesFor(sizes[w], k[1], k[2]),
                      Unambiguous(SizesFor(sizes[w], k[1], k[2])[i])
               PROVE  Rget(sizes[w], SizesFor(sizes[w], k[1], k[2])[i]) = k[2]
    BY DEF SizesReturn
  <2>1. FromRows(SizeRows, sizes[w])
    BY DEF LoadInv
  <2>2. \A z : Unambiguous(z) => \A a, b \in SizeRows : a.to = z /\ b.to = z => a.from = b.from
    BY DEF Unambiguous, SizeRows
  <2>3. BackFrom(SizeRows, sizes[w])
    BY <2>1, SizesBack
  <2> QED BY <2>2, <2>3 DEF BackFrom
<1> QED BY <1>1, TablesLoaded, PTL

-------------------------------------------------------------------------------
(* The client of the ad-selection service.                                 *)

\* What is on the network belongs to sockets that were opened, and what
\* belongs to the current socket is its one unanswered request.
NetworkInv ==
  /\ \A r \in requests \cup replies : r.session <= session
  /\ pc \in {"searchWait", "bannerWait"} =>
       /\ awaiting
       /\ \A r \in requests \cup replies : r.session = session => r.call = call
  /\ ~awaiting => \A r \in requests \cup replies : r.session # session
  /\ requests \cap replies = {}
  /\ pc \in {"idle", "search", "banner"} /\ awaiting => thrown = session

\* Every call replaces the socket at most once.
SessionInv == session <= call + 1 /\ (pc # "idle" => session <= call)

IInv == TypeOK /\ NetworkInv /\ SessionInv /\ OneOutstanding /\ ReadyBetweenCalls

\* A client just constructed has one fresh socket and nothing on the network.
LEMMA InitIInv == Init => IInv
<1> SUFFICES ASSUME Init PROVE IInv
  OBVIOUS
<1> USE AdSelectAssumption DEF Init
<1>1. TypeOK
  <2>1. session \in 1 .. MaxCalls + 1 /\ thrown \in 0 .. MaxCalls + 1
    BY SMTT(20)
  <2>2. call \in 0 .. MaxCalls /\ answer \in 0 .. MaxCalls
    BY SMTT(20)
  <2> QED
    BY <2>1, <2>2 DEF TypeOK
<1>2. NetworkInv /\ SessionInv /\ OneOutstanding /\ ReadyBetweenCalls
  BY SMTT(20) DEF NetworkInv, SessionInv, OneOutstanding, ReadyBetweenCalls
<1> QED
  BY <1>1, <1>2 DEF IInv

\* Every step of search(), getBanner() and of the network keeps the invariant: a
\* socket is given up before its unanswered request could meet a second one.
LEMMA NextIInv == IInv /\ [Next]_vars => IInv'
<1> SUFFICES ASSUME IInv, [Next]_vars PROVE IInv'
  OBVIOUS
<1> USE AdSelectAssumption DEF IInv
<1>1. ASSUME NEW kind \in {"search", "banner"}, Call(kind) PROVE IInv'
  <2> USE <1>1 DEF Call
  <2>1. TypeOK'
    <3>1. pc' \in {"idle", "search", "searchWait", "banner", "bannerWait"} /\ awaiting' \in BOOLEAN
      BY DEF TypeOK
    <3>2. call' \in 0 .. MaxCalls /\ session' \in 1 .. MaxCalls + 1
      BY SMTT(20) DEF TypeOK, SessionInv
    <3>3. requests' \subseteq Messages /\ replies' \subseteq Messages
      BY DEF TypeOK, SessionInv, Messages
    <3>4. answer' \in 0 .. MaxCalls /\ thrown' \in 0 .. MaxCalls + 1
      BY DEF TypeOK, Messages
    <3> QED
      BY <3>1, <3>2, <3>3, <3>4 DEF TypeOK
  <2>5. SessionInv'
    BY SMTT(20) DEF TypeOK, SessionInv
  <2>2. NetworkInv'
    BY DEF NetworkInv, OneOutstanding, TypeOK, Messages
  <2>3. OneOutstanding'
    BY DEF OneOutstanding, NetworkInv, TypeOK, Messages
  <2>4. ReadyBetweenCalls'
    BY DEF ReadyBetweenCalls, NetworkInv, TypeOK
  <2> QED
    BY <2>1, <2>2, <2>3, <2>4, <2>5
<1>2. CASE SearchSend \/ BannerSend
  <2> USE <1>2 DEF SearchSend, BannerSend, Send
  <2>1. TypeOK'
    <3>1. pc' \in {"idle", "search", "searchWait", "banner", "bannerWait"} /\ awaiting' \in BOOLEAN
      BY DEF TypeOK
    <3>2. call' \in 0 .. MaxCalls /\ session' \in 1 .. MaxCalls + 1
      BY DEF TypeOK, SessionInv
    <3>3. requests' \subseteq Messages /\ replies' \subseteq Messages
      BY SMTT(20) DEF TypeOK, SessionInv, Messages
    <3>4. answer' \in 0 .. MaxCalls /\ thrown' \in 0 .. MaxCalls + 1
      BY DEF TypeOK, Messages
    <3> QED
      BY <3>1, <3>2, <3>3, <3>4 DEF TypeOK
  <2>5. SessionInv'
    BY DEF TypeOK, SessionInv
  <2>2. NetworkInv'
    BY SMTT(20) DEF NetworkInv, OneOutstanding, TypeOK, Messages
  <2>3. OneOutstanding'
    BY DEF OneOutstanding, NetworkInv, TypeOK, Messages
  <2>4. ReadyBetweenCalls'
    BY DEF ReadyBetweenCalls, NetworkInv, TypeOK
  <2> QED
    BY <2>1, <2>2, <2>3, <2>4, <2>5
<1>3. CASE SendOutOfTurn
  <2> USE <1>3 DEF SendOutOfTurn
  <2>1. TypeOK'
    <3>1. pc' \in {"idle", "search", "searchWait", "banner", "bannerWait"} /\ awaiting' \in BOOLEAN
      BY DEF TypeOK
    <3>2. call' \in 0 .. MaxCalls /\ session' \in 1 .. MaxCalls + 1
      BY DEF TypeOK, SessionInv
    <3>3. requests' \subseteq Messages /\ replies' \subseteq Messages
      BY DEF TypeOK, SessionInv, Messages
    <3>4. answer' \in 0 .. MaxCalls /\ thrown' \in 0 .. MaxCalls + 1
      BY DEF TypeOK, Messages
    <3> QED
      BY <3>1, <3>2, <3>3, <3>4 DEF TypeOK
  <2>5. SessionInv'
    BY DEF TypeOK, SessionInv
  <2>2. NetworkInv'
    BY DEF NetworkInv, OneOutstanding, TypeOK, Messages
  <2>3. OneOutstanding'
    BY DEF OneOutstanding, NetworkInv, TypeOK, Messages
  <2>4. ReadyBetweenCalls'
    BY DEF ReadyBetweenCalls, NetworkInv, TypeOK
  <2> QED
    BY <2>1, <2>2, <2>3, <2>4, <2>5
<1>4. CASE SearchSendNotSock
  <2> USE <1>4 DEF SearchSendNotSock, Reopen
  <2>1. TypeOK'
    <3>1. pc' \in {"idle", "search", "searchWait", "banner", "bannerWait"} /\ awaiting' \in BOOLEAN
      BY DEF TypeOK
    <3>2. call' \in 0 .. MaxCalls /\ session' \in 1 .. MaxCalls + 1
      BY SMTT(20) DEF TypeOK, SessionInv
    <3>3. requests' \subseteq Messages /\ replies' \subseteq Messages
      BY DEF TypeOK, SessionInv, Messages
    <3>4. answer' \in 0 .. MaxCalls /\ thrown' \in 0 .. MaxCalls + 1
      BY DEF TypeOK, Messages
    <3> QED
      BY <3>1, <3>2, <3>3, <3>4 DEF TypeOK
  <2>5. SessionInv'
    BY SMTT(20) DEF TypeOK, SessionInv
  <2>2. NetworkInv'
    BY SMTT(20) DEF NetworkInv, OneOutstanding, TypeOK, Messages
  <2>3. OneOutstanding'
    BY SMTT(20) DEF OneOutstanding, NetworkInv, TypeOK, Messages
  <2>4. ReadyBetweenCalls'
    BY DEF ReadyBetweenCalls, NetworkInv, TypeOK
  <2> QED
    BY <2>1, <2>2, <2>3, <2>4, <2>5
<1>5. CASE Receive
  <2> USE <1>5 DEF Receive
  <2>1. TypeOK'
    <3>1. pc' \in {"idle", "search", "searchWait", "banner", "bannerWait"} /\ awaiting' \in BOOLEAN
      BY DEF TypeOK
    <3>2. call' \in 0 .. MaxCalls /\ session' \in 1 .. MaxCalls + 1
      BY DEF TypeOK, SessionInv
    <3>3. requests' \subseteq Messages /\ replies' \subseteq Messages
      BY DEF TypeOK, SessionInv, Messages
    <3>4. answer' \in 0 .. MaxCalls /\ thrown' \in 0 .. MaxCalls + 1
      BY SMTT(20) DEF TypeOK, Messages
    <3> QED
      BY <3>1, <3>2, <3>3, <3>4 DEF TypeOK
  <2>5. SessionInv'
    BY DEF TypeOK, SessionInv
  <2>2. NetworkInv'
    BY DEF NetworkInv, OneOutstanding, TypeOK, Messages
  <2>3. OneOutstanding'
    BY DEF OneOutstanding, NetworkInv, TypeOK, Messages
  <2>4. ReadyBetweenCalls'
    BY DEF ReadyBetweenCalls, NetworkInv, TypeOK
  <2> QED
    BY <2>1, <2>2, <2>3, <2>4, <2>5
<1>6. CASE SearchTimeout
  <2> USE <1>6 DEF SearchTimeout, Reopen
  <2>1. TypeOK'
    <3>1. pc' \in {"idle", "search", "searchWait", "banner", "bannerWait"} /\ awaiting' \in BOOLEAN
      BY DEF TypeOK
    <3>2. call' \in 0 .. MaxCalls /\ session' \in 1 .. MaxCalls + 1
      BY SMTT(20) DEF TypeOK, SessionInv
    <3>3. requests' \subseteq Messages /\ replies' \subseteq Messages
      BY DEF TypeOK, SessionInv, Messages
    <3>4. answer' \in 0 .. MaxCalls /\ thrown' \in 0 .. MaxCalls + 1
      BY DEF TypeOK, Messages
    <3> QED
      BY <3>1, <3>2, <3>3, <3>4 DEF TypeOK
  <2>5. SessionInv'
    BY SMTT(20) DEF TypeOK, SessionInv
  <2>2. NetworkInv'
    BY SMTT(20) DEF NetworkInv, OneOutstanding, TypeOK, Messages
  <2>3. OneOutstanding'
    BY SMTT(20) DEF OneOutstanding, NetworkInv, TypeOK, Messages
  <2>4. ReadyBetweenCalls'
    BY DEF ReadyBetweenCalls, NetworkInv, TypeOK
  <2> QED
    BY <2>1, <2>2, <2>3, <2>4, <2>5
<1>7. CASE ReceiveThrows
  <2> USE <1>7 DEF ReceiveThrows
  <2>1. TypeOK'
    <3>1. pc' \in {"idle", "search", "searchWait", "banner", "bannerWait"} /\ awaiting' \in BOOLEAN
      BY DEF TypeOK
    <3>2. call' \in 0 .. MaxCalls /\ session' \in 1 .. MaxCalls + 1
      BY DEF TypeOK, SessionInv
    <3>3. requests' \subseteq Messages /\ replies' \subseteq Messages
      BY DEF TypeOK, SessionInv, Messages
    <3>4. answer' \in 0 .. MaxCalls /\ thrown' \in 0 .. MaxCalls + 1
      BY SMTT(20) DEF TypeOK, Messages
    <3> QED
      BY <3>1, <3>2, <3>3, <3>4 DEF TypeOK
  <2>5. SessionInv'
    BY DEF TypeOK, SessionInv
  <2>2. NetworkInv'
    BY DEF NetworkInv, OneOutstanding, TypeOK, Messages
  <2>3. OneOutstanding'
    BY DEF OneOutstanding, NetworkInv, TypeOK, Messages
  <2>4. ReadyBetweenCalls'
    BY DEF ReadyBetweenCalls, NetworkInv, TypeOK
  <2> QED
    BY <2>1, <2>2, <2>3, <2>4, <2>5
<1>8. ASSUME NEW r \in requests \cup replies, Serve(r) PROVE IInv'
  <2> USE <1>8 DEF Serve
  <2>1. TypeOK'
    <3>1. pc' \in {"idle", "search", "searchWait", "banner", "bannerWait"} /\ awaiting' \in BOOLEAN
      BY DEF TypeOK
    <3>2. call' \in 0 .. MaxCalls /\ session' \in 1 .. MaxCalls + 1
      BY DEF TypeOK, SessionInv
    <3>3. requests' \subseteq Messages /\ replies' \subseteq Messages
      BY DEF TypeOK, SessionInv, Messages
    <3>4. answer' \in 0 .. MaxCalls /\ thrown' \in 0 .. MaxCalls + 1
      BY DEF TypeOK, Messages
    <3> QED
      BY <3>1, <3>2, <3>3, <3>4 DEF TypeOK
  <2>5. SessionInv'
    BY DEF TypeOK, SessionInv
  <2>2. NetworkInv'
    BY DEF NetworkInv, OneOutstanding, TypeOK, Messages
  <2>3. OneOutstanding'
    BY DEF OneOutstanding, NetworkInv, TypeOK, Messages
  <2>4. ReadyBetweenCalls'
    BY DEF ReadyBetweenCalls, NetworkInv, TypeOK
  <2> QED
    BY <2>1, <2>2, <2>3, <2>4, <2>5
<1>9. ASSUME NEW r \in requests \cup replies, Lose(r) PROVE IInv'
  <2> USE <1>9 DEF Lose
  <2>1. TypeOK'
    <3>1. pc' \in {"idle", "search", "searchWait", "banner", "bannerWait"} /\ awaiting' \in BOOLEAN
      BY DEF TypeOK
    <3>2. call' \in 0 .. MaxCalls /\ session' \in 1 .. MaxCalls + 1
      BY DEF TypeOK, SessionInv
    <3>3. requests' \subseteq Messages /\ replies' \subseteq Messages
      BY DEF TypeOK, SessionInv, Messages
    <3>4. answer' \in 0 .. MaxCalls /\ thrown' \in 0 .. MaxCalls + 1
      BY DEF TypeOK, Messages
    <3> QED
      BY <3>1, <3>2, <3>3, <3>4 DEF TypeOK
  <2>5. SessionInv'
    BY DEF TypeOK, SessionInv
  <2>2. NetworkInv'
    BY DEF NetworkInv, OneOutstanding, TypeOK, Messages
  <2>3. OneOutstanding'
    BY DEF OneOutstanding, NetworkInv, TypeOK, Messages
  <2>4. ReadyBetweenCalls'
    BY DEF ReadyBetweenCalls, NetworkInv, TypeOK
  <2> QED
    BY <2>1, <2>2, <2>3, <2>4, <2>5
<1>10. CASE UNCHANGED vars
  BY <1>10 DEF vars, TypeOK, NetworkInv, SessionInv, OneOutstanding, ReadyBetweenCalls
<1> QED
  BY <1>1, <1>2, <1>3, <1>4, <1>5, <1>6, <1>7, <1>8, <1>9, <1>10
  DEF Next, ClientStep

\* The inductive invariant holds in every reachable state of the client.
THEOREM Invariance == Spec => []IInv
BY InitIInv, NextIInv, PTL DEF Spec

\* The fields and the network traffic keep their types; the number of sockets
\* used is bounded by the number of calls.
THEOREM TypeCorrect == Spec => []TypeOK
BY Invariance, PTL DEF IInv

\* No timeout, lost message or failed send leaves the shared REQ socket out of
\* turn; only an exception of recv on that very socket does.
THEOREM SocketReady == Spec => []ReadyBetweenCalls
BY Invariance, PTL DEF IInv

\* The current socket never has two requests under way.
THEOREM SingleRequest == Spec => []OneOutstanding
BY Invariance, PTL DEF IInv

\* An answer is taken only from the current socket, whose one reply is the
\* current call's.
LEMMA AnswerStep == IInv /\ [Next]_vars => [answer' # answer => answer' = call]_vars
<1> SUFFICES ASSUME IInv, Next PROVE answer' # answer => answer' = call
  BY DEF vars
<1>1. CASE Receive
  BY <1>1 DEF Receive, IInv, NetworkInv
<1>2. CASE ~Receive
  BY <1>2 DEF Next, ClientStep, Call, SearchSend, BannerSend, Send, SendOutOfTurn,
     SearchSendNotSock, SearchTimeout, ReceiveThrows, Serve, Lose
<1> QED
  BY <1>1, <1>2

\* A reply that arrives after search() gave up is never taken for the reply
\* to a later request: the socket it was addressed to is gone.
THEOREM NoStaleAnswer == Spec => AnswersOwnCall
BY Invariance, AnswerStep, PTL DEF Spec, AnswersOwnCall

===============================================================================
