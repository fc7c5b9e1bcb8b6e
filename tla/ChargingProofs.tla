--------------------------- MODULE ChargingProofs ---------------------------
(***************************************************************************)
(* Proofs about Charging and about what Delivery books.                    *)
(*                                                                         *)
(* numberDecode() inverts numberEncode() for every number above 0, so the  *)
(* ciphered url parameters reach the next request unchanged.  From that,   *)
(* each of the three click urls and both show requests book what is due,   *)
(* and ChargedOnce follows: a request carries the booking of its phase     *)
(* from its beginning to its log, and every url handed out books what is   *)
(* due at the click.                                                       *)
(*                                                                         *)
(* What a recursive function computes is proved by least counterexample.   *)
(***************************************************************************)
EXTENDS Delivery, WellFoundedInduction, TLAPS

\* The leaves are first-order reasoning unless they name another prover.
USE ZenonT(60)

-----------------------------------------------------------------------------
(* The codec of url parameters.                                            *)

\* A set of numbers has a least element.
LEMMA Least ==
  ASSUME NEW T, T \subseteq Nat, T # {}
  PROVE  \E x \in T : \A y \in T : x <= y
<1> DEFINE R == OpToRel(<, Nat)
<1>1. IsWellFoundedOn(R, Nat)
  BY NatLessThanWellFounded
<1>2. \A x, y \in Nat : y < x => <<y, x>> \in R
  BY SMTT(20) DEF OpToRel
<1> HIDE DEF R
<1>3. \E x \in T : \A y \in T : ~(<<y, x>> \in R)
  BY <1>1, WFMin
<1>4. PICK x \in T : \A y \in T : ~(<<y, x>> \in R)
  BY <1>3
<1>5. ASSUME NEW y \in T PROVE x <= y
  <2>1. x \in Nat /\ y \in Nat
    OBVIOUS
  <2>2. ~(y < x)
    BY <1>2, <1>4, <2>1
  <2> QED BY <2>1, <2>2, SMTT(20)
<1> QED BY <1>5

\* g satisfies the equation of Groups up to n.
GroupsTo(n, g) ==
  g = [m \in 0..n |-> IF m = 0 THEN <<>> ELSE <<(m % 128) + 128>> \o g[m \div 128]]

\* Shifting seven bits away makes a number smaller.
LEMMA Shifted ==
  ASSUME NEW n \in Nat, n # 0
  PROVE  n \div 128 \in Nat /\ n \div 128 < n /\ n \div 128 \in 0..n
BY SMTT(20)

\* The equation has at most one solution.
LEMMA GroupsUnique ==
  ASSUME NEW n \in Nat, NEW k \in Nat, NEW g, NEW h, GroupsTo(n, g), GroupsTo(k, h),
         NEW m \in 0..n, m \in 0..k
  PROVE  g[m] = h[m]
<1> DEFINE T == {i \in 0..n : i \in 0..k /\ g[i] # h[i]}
<1>1. ASSUME T # {} PROVE FALSE
  <2>1. PICK x \in T : \A y \in T : x <= y
    <3>1. 0..n \subseteq Nat
      BY SMTT(20)
    <3> QED BY <1>1, <3>1, Least
  <2>2. x \in Nat /\ x \in 0..n /\ x \in 0..k /\ g[x] # h[x]
    BY SMTT(20)
  <2>3. /\ g[x] = IF x = 0 THEN <<>> ELSE <<(x % 128) + 128>> \o g[x \div 128]
        /\ h[x] = IF x = 0 THEN <<>> ELSE <<(x % 128) + 128>> \o h[x \div 128]
    BY <2>2 DEF GroupsTo
  <2>4. x # 0
    BY <2>2, <2>3
  <2>5. x \div 128 \in 0..n /\ x \div 128 \in 0..k /\ ~(x <= x \div 128)
    BY <2>2, <2>4, Shifted, SMTT(20)
  <2>6. g[x \div 128] = h[x \div 128]
    BY <2>1, <2>5
  <2> QED BY <2>2, <2>3, <2>4, <2>6
<1> QED BY <1>1

\* The equation has a solution up to every n.
LEMMA GroupsExist ==
  ASSUME NEW n \in Nat
  PROVE  \E g : GroupsTo(n, g)
<1> DEFINE T == {i \in Nat : ~\E g : GroupsTo(i, g)}
<1>1. ASSUME T # {} PROVE FALSE
  <2>1. PICK x \in T : \A y \in T : x <= y
    BY <1>1, Least
  <2>2. x \in Nat /\ ~\E g : GroupsTo(x, g)
    OBVIOUS
  <2>3. CASE x = 0
    <3> DEFINE g == [m \in 0..0 |-> <<>>]
    <3>1. \A m \in 0..0 : m = 0
      BY SMTT(20)
    <3>2. GroupsTo(0, g)
      BY <3>1 DEF GroupsTo
    <3> QED BY <2>2, <2>3, <3>2
  <2>4. CASE x # 0
    <3>1. x - 1 \in Nat /\ ~(x <= x - 1)
      BY <2>2, <2>4, SMTT(20)
    <3>2. PICK h : GroupsTo(x - 1, h)
      BY <2>1, <3>1
    <3> DEFINE g == [m \in 0..x |-> IF m = x THEN <<(x % 128) + 128>> \o h[x \div 128] ELSE h[m]]
    <3>3. ASSUME NEW m \in 0..x
          PROVE  g[m] = IF m = 0 THEN <<>> ELSE <<(m % 128) + 128>> \o g[m \div 128]
      <4>1. m \in Nat /\ 0 \in 0..x
        BY <2>2, SMTT(20)
      <4>2. m # 0 => m \div 128 \in 0..x /\ m \div 128 # x
        BY <2>2, <4>1, Shifted, SMTT(20)
      <4>3. m # 0 => g[m \div 128] = h[m \div 128]
        BY <4>2
      <4>4. m # x => m \in 0..(x - 1)
        BY <2>2, <4>1, SMTT(20)
      <4>5. m # x => h[m] = IF m = 0 THEN <<>> ELSE <<(m % 128) + 128>> \o h[m \div 128]
        BY <3>2, <4>4 DEF GroupsTo
      <4> QED BY <2>4, <4>3, <4>5
    <3>4. g = [m \in 0..x |-> g[m]]
      OBVIOUS
    <3> HIDE DEF g
    <3>5. g = [m \in 0..x |-> IF m = 0 THEN <<>> ELSE <<(m % 128) + 128>> \o g[m \div 128]]
      BY <3>3, <3>4
    <3>6. GroupsTo(x, g)
      BY <3>5 DEF GroupsTo
    <3> QED BY <2>2, <3>6
  <2> QED BY <2>3, <2>4
<1> QED BY <1>1

GroupsUpTo(n) == CHOOSE g : GroupsTo(n, g)

\* A number's groups are the same in every solution that reaches it.
LEMMA GroupsAt ==
  ASSUME NEW n \in Nat
  PROVE  /\ GroupsUpTo(n)[n] = IF n = 0 THEN <<>>
                               ELSE <<(n % 128) + 128>> \o GroupsUpTo(n)[n \div 128]
         /\ n # 0 => GroupsUpTo(n)[n \div 128] = GroupsUpTo(n \div 128)[n \div 128]
<1>1. ASSUME NEW m \in Nat PROVE GroupsTo(m, GroupsUpTo(m))
  BY GroupsExist DEF GroupsUpTo
<1>2. n \in 0..n
  BY SMTT(20)
<1> DEFINE g == GroupsUpTo(n)
           d == n \div 128
           h == GroupsUpTo(d)
<1>3. GroupsTo(n, g)
  BY <1>1
<1>4. ASSUME n # 0 PROVE g[d] = h[d]
  <2>1. d \in Nat /\ d \in 0..n /\ d \in 0..d
    BY <1>4, Shifted, SMTT(20)
  <2>2. GroupsTo(d, h)
    BY <1>1, <2>1
  <2> HIDE DEF g, h, d
  <2>3. \A m \in 0..n : m \in 0..d => g[m] = h[m]
    BY <1>3, <2>1, <2>2, GroupsUnique, SMTT(20)
  <2> QED BY <2>1, <2>3
<1> HIDE DEF g, h, d
<1>5. g[n] = IF n = 0 THEN <<>> ELSE <<(n % 128) + 128>> \o g[n \div 128]
  BY <1>2, <1>3 DEF GroupsTo
<1> QED BY <1>4, <1>5 DEF g, h, d

\* The equation of Groups has a solution on all numbers.
LEMMA GroupsEquation ==
  ASSUME NEW n \in Nat
  PROVE  Groups[n] = IF n = 0 THEN <<>> ELSE <<(n % 128) + 128>> \o Groups[n \div 128]
<1> DEFINE f == [m \in Nat |-> GroupsUpTo(m)[m]]
<1>1. ASSUME NEW m \in Nat
      PROVE  f[m] = IF m = 0 THEN <<>> ELSE <<(m % 128) + 128>> \o f[m \div 128]
  <2>1. m # 0 => f[m \div 128] = GroupsUpTo(m \div 128)[m \div 128]
    BY Shifted
  <2>2. f[m] = GroupsUpTo(m)[m]
    OBVIOUS
  <2> HIDE DEF f
  <2> QED BY <2>1, <2>2, GroupsAt, SMTT(20)
<1>2. f = [m \in Nat |-> IF m = 0 THEN <<>> ELSE <<(m % 128) + 128>> \o f[m \div 128]]
  BY <1>1
<1> HIDE DEF f
<1>3. Groups = [m \in Nat |-> IF m = 0 THEN <<>> ELSE <<(m % 128) + 128>> \o Groups[m \div 128]]
  BY <1>2 DEF Groups
<1> QED BY <1>3

\* A sequence with one more element in front.
LEMMA InFront ==
  ASSUME NEW a \in Int, NEW L \in Nat, NEW s \in [1..L -> Int]
  PROVE  /\ Len(s) = L
         /\ <<a>> \o s \in [1..(L + 1) -> Int]
         /\ (<<a>> \o s)[1] = a
         /\ \A i \in 1..L : (<<a>> \o s)[i + 1] = s[i]
<1>1. s \in Seq(Int) /\ Len(s) = L
  BY SMTT(20)
<1>2. <<a>> \in Seq(Int) /\ Len(<<a>>) = 1 /\ <<a>>[1] = a
  BY SMTT(20)
<1>3. /\ <<a>> \o s \in Seq(Int)
      /\ Len(<<a>> \o s) = L + 1
  BY <1>1, <1>2, SMTT(20)
<1>4. (<<a>> \o s)[1] = a /\ \A i \in 1..L : (<<a>> \o s)[i + 1] = s[i]
  BY <1>1, <1>2, SMTT(20)
<1>5. \A t \in Seq(Int) : t \in [1..Len(t) -> Int]
  BY SMTT(20)
<1> QED BY <1>1, <1>3, <1>4, <1>5

\* What is left of n, group by group: q[i] after i - 1 groups.
Remainders(n, L, q) ==
  /\ L \in Nat /\ L # 0 /\ q \in [1..L -> Nat] /\ q[1] = n
  /\ \A i \in 1..(L - 1) : q[i + 1] = q[i] \div 128
  /\ q[L] < 128
  /\ Groups[n] \in [1..L -> Int]
  /\ \A i \in 1..L : Groups[n][i] = (q[i] % 128) + 128

\* A number below 128 has one group.
LEMMA OneGroup ==
  ASSUME NEW n \in Nat, n # 0, n < 128
  PROVE  Remainders(n, 1, [i \in 1..1 |-> n])
<1> DEFINE q == [i \in 1..1 |-> n]
           a == (n % 128) + 128
<1>1. n \div 128 = 0 /\ a \in Int /\ 0 \in Nat
  BY SMTT(20)
<1>2. Groups[n] = <<a>> \o <<>>
  BY <1>1, GroupsEquation
<1>3. <<a>> \o <<>> = <<a>>
  BY <1>1, SMTT(20)
<1>4. Groups[n] \in [1..1 -> Int] /\ Groups[n][1] = a
  BY <1>1, <1>2, <1>3, SMTT(20)
<1>5. q \in [1..1 -> Nat] /\ q[1] = n
  BY SMTT(20)
<1>6. \A i \in 1..1 : i = 1
  BY SMTT(20)
<1>7. 1 \in Nat /\ 1 # 0 /\ 1..(1 - 1) = {}
  BY SMTT(20)
<1> QED BY <1>4, <1>5, <1>6, <1>7 DEF Remainders

\* Another number has the groups of its quotient after its first one.
LEMMA MoreGroups ==
  ASSUME NEW n \in Nat, n >= 128, NEW L, NEW q, Remainders(n \div 128, L, q)
  PROVE  Remainders(n, L + 1, [i \in 1..(L + 1) |-> IF i = 1 THEN n ELSE q[i - 1]])
<1> DEFINE p == [i \in 1..(L + 1) |-> IF i = 1 THEN n ELSE q[i - 1]]
           a == (n % 128) + 128
           m == n \div 128
           s == Groups[m]
<1>1. m \in Nat /\ n # 0 /\ a \in Int
  BY SMTT(20)
<1>2. Groups[n] = <<a>> \o s
  BY <1>1, GroupsEquation
<1>3. /\ L \in Nat /\ L # 0 /\ q \in [1..L -> Nat] /\ q[1] = m
      /\ \A i \in 1..(L - 1) : q[i + 1] = q[i] \div 128
      /\ q[L] < 128 /\ s \in [1..L -> Int]
      /\ \A i \in 1..L : s[i] = (q[i] % 128) + 128
  BY DEF Remainders
<1>4. L + 1 \in Nat /\ L + 1 # 0 /\ 1 \in 1..(L + 1) /\ L + 1 \in 1..(L + 1) /\ L + 1 # 1
      /\ L + 1 - 1 = L
  BY <1>3, SMTT(20)
<1> HIDE DEF s, a
<1>5. /\ <<a>> \o s \in [1..(L + 1) -> Int] /\ (<<a>> \o s)[1] = a
      /\ \A i \in 1..L : (<<a>> \o s)[i + 1] = s[i]
  <2>1. a \in Int /\ L \in Nat /\ s \in [1..L -> Int]
    BY <1>1, <1>3
  <2> QED BY <2>1, InFront
<1>6. p[1] = n /\ p[L + 1] = q[L]
  BY <1>3, <1>4, SMTT(20)
<1>7. ASSUME NEW i \in 1..(L + 1), i # 1
      PROVE  i - 1 \in 1..L /\ (i - 1) + 1 = i /\ p[i] = q[i - 1] /\ q[i - 1] \in Nat
  BY <1>3, <1>7, SMTT(20)
<1>8. p \in [1..(L + 1) -> Nat]
  BY <1>6, <1>7
<1>9. ASSUME NEW i \in 1..L
      PROVE  p[i + 1] = p[i] \div 128
  <2>1. i + 1 \in 1..(L + 1) /\ i + 1 # 1 /\ (i + 1) - 1 = i /\ i \in 1..(L + 1)
    BY <1>3, SMTT(20)
  <2>2. p[i + 1] = q[i]
    BY <1>7, <2>1
  <2>3. CASE i = 1
    BY <1>3, <1>6, <2>2, <2>3
  <2>4. CASE i # 1
    <3>1. i - 1 \in 1..(L - 1) /\ (i - 1) + 1 = i
      BY <1>3, <2>4, SMTT(20)
    <3>2. q[i] = q[i - 1] \div 128
      BY <1>3, <3>1
    <3> QED BY <1>7, <2>1, <2>2, <2>4, <3>2
  <2> QED BY <2>3, <2>4
<1>10. ASSUME NEW i \in 1..(L + 1)
       PROVE  (<<a>> \o s)[i] = (p[i] % 128) + 128
  <2>1. CASE i = 1
    BY <1>5, <1>6, <2>1 DEF a
  <2>2. CASE i # 1
    <3>1. i - 1 \in 1..L /\ (i - 1) + 1 = i /\ p[i] = q[i - 1]
      BY <1>7, <2>2
    <3>2. (<<a>> \o s)[(i - 1) + 1] = s[i - 1] /\ s[i - 1] = (q[i - 1] % 128) + 128
      BY <1>3, <1>5, <3>1
    <3> QED BY <3>1, <3>2
  <2> QED BY <2>1, <2>2
<1> HIDE DEF p
<1>11. \A i \in 1..((L + 1) - 1) : p[i + 1] = p[i] \div 128
  <2>1. ASSUME NEW i \in 1..((L + 1) - 1) PROVE i \in 1..L
    BY <1>3, SMTT(20)
  <2> QED BY <1>9, <2>1
<1>12. p[L + 1] < 128
  BY <1>3, <1>6
<1>13. Remainders(n, L + 1, p)
  BY <1>2, <1>4, <1>5, <1>6, <1>8, <1>10, <1>11, <1>12 DEF Remainders
<1> QED BY <1>13 DEF p

\* Every number above 0 has its remainders.
LEMMA RemaindersExist ==
  ASSUME NEW n \in Nat, n # 0
  PROVE  \E L, q : Remainders(n, L, q)
<1> DEFINE T == {m \in Nat : m # 0 /\ ~\E L, q : Remainders(m, L, q)}
<1>1. ASSUME T # {} PROVE FALSE
  <2>1. PICK x \in T : \A y \in T : x <= y
    BY <1>1, Least
  <2>2. x \in Nat /\ x # 0 /\ ~\E L, q : Remainders(x, L, q)
    OBVIOUS
  <2>3. ~(x < 128)
    BY <2>2, OneGroup
  <2>4. x >= 128 /\ x \div 128 \in Nat /\ x \div 128 # 0 /\ ~(x <= x \div 128)
    BY <2>2, <2>3, SMTT(20)
  <2>5. \E L, q : Remainders(x \div 128, L, q)
    BY <2>1, <2>4
  <2> QED BY <2>2, <2>4, <2>5, MoreGroups
<1> QED BY <1>1

\* v satisfies the equation of numberDecode() for the bytes.
Decodes(bytes, v) ==
  v = [i \in DOMAIN bytes |->
         IF bytes[i] > 127 THEN (bytes[i] - 128) + 128 * v[i + 1] ELSE bytes[i]]

\* Bytes that end without a mark have at most one value.
LEMMA DecodedOnce ==
  ASSUME NEW L \in Nat, L # 0, NEW bytes \in [1..L -> Int], ~(bytes[L] > 127),
         NEW u, NEW v, Decodes(bytes, u), Decodes(bytes, v), NEW i \in 1..L
  PROVE  u[i] = v[i]
<1> DEFINE T == {k \in 0..(L - 1) : u[L - k] # v[L - k]}
<1>1. ASSUME T # {} PROVE FALSE
  <2>1. PICK x \in T : \A y \in T : x <= y
    <3>1. 0..(L - 1) \subseteq Nat
      BY SMTT(20)
    <3> QED BY <1>1, <3>1, Least
  <2> DEFINE j == L - x
  <2>2. x \in 0..(L - 1) /\ u[j] # v[j]
    OBVIOUS
  <2>3. j \in 1..L /\ (j # L => x - 1 \in 0..(L - 1) /\ ~(x <= x - 1) /\ L - (x - 1) = j + 1)
    BY <2>2, SMTT(20)
  <2>4. j # L => u[j + 1] = v[j + 1]
    BY <2>1, <2>3
  <2> HIDE DEF j
  <2>5. DOMAIN bytes = 1..L
    OBVIOUS
  <2>6. /\ u[j] = IF bytes[j] > 127 THEN (bytes[j] - 128) + 128 * u[j + 1] ELSE bytes[j]
        /\ v[j] = IF bytes[j] > 127 THEN (bytes[j] - 128) + 128 * v[j + 1] ELSE bytes[j]
    BY <2>3, <2>5 DEF Decodes
  <2> QED BY <2>2, <2>4, <2>6
<1>2. i \in Nat /\ L - i \in 0..(L - 1) /\ L - (L - i) = i
  BY SMTT(20)
<1>3. L - i \notin T
  BY <1>1
<1> QED BY <1>2, <1>3

\* So numberDecode() computes any value that satisfies its equation.
LEMMA Decoded ==
  ASSUME NEW L \in Nat, L # 0, NEW bytes \in [1..L -> Int], ~(bytes[L] > 127),
         NEW v, Decodes(bytes, v)
  PROVE  NumberDecode(bytes) = v[1]
<1> DEFINE u == CHOOSE f : Decodes(bytes, f)
<1>1. Decodes(bytes, u)
  OBVIOUS
<1>2. NumberDecode(bytes) = u[1]
  BY DEF NumberDecode, Decodes
<1> HIDE DEF u
<1>3. 1 \in 1..L
  BY SMTT(20)
<1>4. \A i \in 1..L : u[i] = v[i]
  BY <1>1, DecodedOnce, SMTT(20)
<1> QED BY <1>2, <1>3, <1>4

\* A group is its number's last seven bits, and a small number is one group.
LEMMA Group ==
  ASSUME NEW k \in Nat
  PROVE  /\ (k % 128) + 128 > 127
         /\ k = (((k % 128) + 128) - 128) + 128 * (k \div 128)
         /\ k < 128 => ((k % 128) + 128) - 128 = k /\ ~(k > 127)
<1>1. /\ k % 128 \in 0..127 /\ k \div 128 \in Nat
      /\ k = (k % 128) + 128 * (k \div 128)
  BY SMTT(20)
<1> QED BY <1>1, SMTT(20)

\* Bytes that numberEncode() makes of n decode to the remainders of n.
LEMMA Encoded ==
  ASSUME NEW n \in Nat, NEW L, NEW q, Remainders(n, L, q)
  PROVE  /\ NumberEncode(n) \in [1..L -> Int] /\ ~(NumberEncode(n)[L] > 127)
         /\ Decodes(NumberEncode(n), q)
<1> DEFINE g == Groups[n]
           e == NumberEncode(n)
<1>1. /\ L \in Nat /\ L # 0 /\ q \in [1..L -> Nat]
      /\ \A i \in 1..(L - 1) : q[i + 1] = q[i] \div 128
      /\ q[L] < 128 /\ g \in [1..L -> Int]
      /\ \A i \in 1..L : g[i] = (q[i] % 128) + 128
  BY DEF Remainders
<1> HIDE DEF g
<1>2. Len(g) = L
  BY <1>1, SMTT(20)
<1>3. e = [g EXCEPT ![L] = @ - 128]
  BY <1>2 DEF NumberEncode, g
<1> HIDE DEF e
<1>4. L \in 1..L /\ g[L] \in Int /\ g[L] - 128 \in Int
  BY <1>1, SMTT(20)
<1>5. e \in [1..L -> Int] /\ e[L] = g[L] - 128 /\ \A i \in 1..L : i # L => e[i] = g[i]
  BY <1>1, <1>3, <1>4
<1>6. q[L] \in Nat /\ g[L] = (q[L] % 128) + 128
  BY <1>1, <1>4
<1>7. e[L] = q[L] /\ ~(e[L] > 127)
  <2>1. q[L] < 128 /\ e[L] = ((q[L] % 128) + 128) - 128
    BY <1>1, <1>5, <1>6
  <2>2. ((q[L] % 128) + 128) - 128 = q[L] /\ ~(q[L] > 127)
    BY <1>6, <2>1, Group
  <2> QED BY <2>1, <2>2
<1>8. ASSUME NEW i \in 1..L
      PROVE  q[i] = IF e[i] > 127 THEN (e[i] - 128) + 128 * q[i + 1] ELSE e[i]
  <2>1. CASE i = L
    BY <1>7, <2>1
  <2>2. CASE i # L
    <3>1. e[i] = (q[i] % 128) + 128 /\ q[i] \in Nat
      BY <1>1, <1>5, <2>2
    <3>2. i \in 1..(L - 1)
      BY <1>1, <2>2, SMTT(20)
    <3>3. q[i + 1] = q[i] \div 128
      BY <1>1, <3>2
    <3>4. /\ (q[i] % 128) + 128 > 127
          /\ q[i] = (((q[i] % 128) + 128) - 128) + 128 * (q[i] \div 128)
      BY <3>1, Group
    <3>5. e[i] > 127 /\ q[i] = (e[i] - 128) + 128 * q[i + 1]
      BY <3>1, <3>3, <3>4
    <3> QED BY <3>5
  <2> QED BY <2>1, <2>2
<1>9. Decodes(e, q)
  <2>1. DOMAIN e = 1..L /\ q \in [1..L -> Nat]
    BY <1>1, <1>5
  <2>2. q = [i \in 1..L |-> q[i]]
    BY <2>1
  <2>3. q = [i \in 1..L |-> IF e[i] > 127 THEN (e[i] - 128) + 128 * q[i + 1] ELSE e[i]]
    BY <1>8, <2>2
  <2> QED BY <2>1, <2>3 DEF Decodes
<1> QED BY <1>5, <1>7, <1>9 DEF e

(* NumberRoundTrip: a number above 0 survives numberEncode() followed by   *)
(* numberDecode(), however many groups of seven bits it takes.             *)
THEOREM NumberRoundTrip ==
  ASSUME NEW n \in Nat, n # 0
  PROVE  NumberDecode(NumberEncode(n)) = n
<1>1. PICK L, q : Remainders(n, L, q)
  BY RemaindersExist
<1>2. L \in Nat /\ L # 0 /\ q[1] = n
  BY <1>1 DEF Remainders
<1>3. /\ NumberEncode(n) \in [1..L -> Int] /\ ~(NumberEncode(n)[L] > 127)
      /\ Decodes(NumberEncode(n), q)
  BY <1>1, Encoded
<1> QED BY <1>2, <1>3, Decoded

-----------------------------------------------------------------------------
(* What the urls book.                                                     *)

\* A url whose numbers are numbers.
Numbered(url) == \A k \in DOMAIN url : k \in IntParams => url[k] \in Nat

\* A parameter reaches the next request as it was, except a number 0.
LEMMA Ciphered ==
  ASSUME NEW url, Numbered(url), NEW k
  PROVE  /\ k \in DOMAIN Cipher(url) <=> k \in DOMAIN url /\ (k \in IntParams => url[k] > 0)
         /\ k \in DOMAIN Cipher(url) => Cipher(url)[k] = url[k]
<1>1. k \in DOMAIN Cipher(url) <=> k \in DOMAIN url /\ (k \in IntParams => url[k] > 0)
  BY DEF Cipher
<1>2. ASSUME k \in DOMAIN Cipher(url) PROVE Cipher(url)[k] = url[k]
  <2>1. k \in IntParams => url[k] \in Nat /\ url[k] > 0
    BY <1>1, <1>2 DEF Numbered
  <2>2. k \in IntParams => url[k] # 0
    BY <2>1, SMTT(20)
  <2>3. k \in IntParams => NumberDecode(NumberEncode(url[k])) = url[k]
    BY <2>1, <2>2, NumberRoundTrip
  <2>4. Cipher(url)[k] = IF k \in IntParams THEN NumberDecode(NumberEncode(url[k])) ELSE url[k]
    BY <1>2 DEF Cipher
  <2> QED BY <2>3, <2>4
<1> QED BY <1>1, <1>2

\* What is read of a parameter after the cipher: a number 0 reads as 0.
LEMMA ReadBack ==
  ASSUME NEW url, Numbered(url), NEW k, NEW d
  PROVE  /\ k \in IntParams => Get(Cipher(url), k, 0) = Get(url, k, 0)
         /\ k \notin IntParams => Get(Cipher(url), k, d) = Get(url, k, d)
         /\ k \notin DOMAIN url => Get(Cipher(url), k, d) = d
<1>1. k \in IntParams /\ k \in DOMAIN url => url[k] > 0 \/ url[k] = 0
  <2>1. k \in IntParams /\ k \in DOMAIN url => url[k] \in Nat
    BY DEF Numbered
  <2> QED BY <2>1, SMTT(20)
<1> QED BY <1>1, Ciphered DEF Get

\* The numbers of settlement types are positive and differ.
LEMMA PriceTypeNumbers ==
  /\ PRICETYPE_RRTB_CPM # PRICETYPE_RRTB_CPC
  /\ PRICETYPE_RRTB_CPC > 0 /\ PRICETYPE_RRTB_CPC # 0 /\ PRICETYPE_RRTB_CPC \in Nat
  /\ \A type \in PriceTypes : type \in Nat
BY SMTT(20) DEF PriceTypes, PRICETYPE_RCPC, PRICETYPE_RRTB_CPM, PRICETYPE_RRTB_CPC

\* The fields of an ad's terms.
LEMMA TermFields ==
  ASSUME NEW t \in AdTerms
  PROVE  /\ t.adx \in Adx /\ t.priceType \in PriceTypes /\ t.priceType \in Nat /\ t.fee \in Nat
         /\ t.rate \in Nat /\ t.base \in Nat /\ t.win \in Nat /\ t.deal \in Nat
         /\ (t.deal > 0 <=> t.deal # 0)
<1>1. /\ t.adx \in Adx /\ t.priceType \in PriceTypes /\ t.fee \in Nat
      /\ t.rate \in Nat /\ t.base \in Nat /\ t.win \in Nat /\ t.deal \in Nat
  BY DEF AdTerms
<1>2. t.deal > 0 <=> t.deal # 0
  BY <1>1, SMTT(20)
<1> QED BY <1>1, <1>2, PriceTypeNumbers

\* What a request reads of its url before it applies the price rules.
Reads(url, offer, decodePrice, isDeal, rate, split, priceType, buyType) ==
  /\ Get(url, "b", 0) = offer /\ Get(url, "p", 0) = decodePrice
  /\ ("p" \in DOMAIN url /\ "deal" \in DOMAIN url) <=> isDeal
  /\ Get(url, "rate", 100) = rate /\ Get(url, "split", FALSE) = split
  /\ Get(url, "pt", 0) = priceType /\ Get(url, "buy", PRICETYPE_RRTB_CPM) = buyType

\* The show url of an exchange reads as the terms say.
LEMMA ShowReads ==
  ASSUME NEW t \in AdTerms
  PROVE  /\ Reads(ShowRequest(t), t.fee, t.win, t.deal # 0, t.rate, TRUE, t.priceType, PRICETYPE_RRTB_CPM)
         /\ Numbered(ShowRequest(t))
         /\ {"p", "rate"} \subseteq DOMAIN ShowRequest(t) /\ "buy" \notin DOMAIN ShowRequest(t)
         /\ "deal" \in DOMAIN ShowRequest(t) => ShowRequest(t)["deal"] > 0
<1> DEFINE u == ShowUrl(t)
           c == Cipher(u)
           url == ShowRequest(t)
<1>1. /\ DOMAIN u = {"b", "pt", "rate", "split", "deal"}
      /\ u["b"] = t.fee /\ u["pt"] = t.priceType /\ u["rate"] = t.rate /\ u["split"] = TRUE
      /\ u["deal"] = t.deal
  BY DEF ShowUrl
<1>2. Numbered(u)
  BY <1>1, TermFields DEF Numbered, IntParams
<1> HIDE DEF u
<1>3. /\ Get(c, "b", 0) = t.fee /\ Get(c, "pt", 0) = t.priceType /\ Get(c, "rate", 100) = t.rate
      /\ Get(c, "split", FALSE) = TRUE /\ Get(c, "buy", PRICETYPE_RRTB_CPM) = PRICETYPE_RRTB_CPM
  <2>1. Get(c, "b", 0) = Get(u, "b", 0) /\ Get(c, "pt", 0) = Get(u, "pt", 0)
    BY <1>2, ReadBack DEF IntParams
  <2>2. Get(c, "rate", 100) = Get(u, "rate", 100) /\ Get(c, "split", FALSE) = Get(u, "split", FALSE)
    BY <1>2, ReadBack DEF IntParams
  <2>3. Get(c, "buy", PRICETYPE_RRTB_CPM) = PRICETYPE_RRTB_CPM
    BY <1>1, <1>2, ReadBack
  <2> QED BY <1>1, <2>1, <2>2, <2>3 DEF Get
<1>4. /\ "deal" \in DOMAIN c <=> t.deal # 0
      /\ \A k \in DOMAIN c : k \in IntParams => c[k] \in Nat
      /\ "rate" \in DOMAIN c /\ "buy" \notin DOMAIN c
      /\ "deal" \in DOMAIN c => c["deal"] > 0
  <2>1. /\ "deal" \in DOMAIN c <=> u["deal"] > 0
        /\ "deal" \in DOMAIN c => c["deal"] = u["deal"]
        /\ "rate" \in DOMAIN c /\ "buy" \notin DOMAIN c
    <3>1. /\ "rate" \in DOMAIN c <=> "rate" \in DOMAIN u
          /\ "buy" \in DOMAIN c => "buy" \in DOMAIN u
      BY <1>2, Ciphered DEF IntParams
    <3>2. /\ "deal" \in DOMAIN c <=> "deal" \in DOMAIN u /\ u["deal"] > 0
          /\ "deal" \in DOMAIN c => c["deal"] = u["deal"]
      BY <1>2, Ciphered DEF IntParams
    <3> QED BY <1>1, <3>1, <3>2
  <2>2. \A k \in DOMAIN c : k \in IntParams => c[k] \in Nat
    BY <1>2, Ciphered DEF Numbered
  <2> QED BY <1>1, <2>1, <2>2, TermFields
<1> HIDE DEF c
<1>5. /\ DOMAIN url = DOMAIN c \cup {"p"} /\ url["p"] = t.win
      /\ \A k \in DOMAIN c : k # "p" => url[k] = c[k]
  BY DEF ShowRequest, With, c, u
<1> HIDE DEF url
<1>6. ASSUME NEW k, NEW d, k # "p" PROVE Get(url, k, d) = Get(c, k, d)
  BY <1>5, <1>6 DEF Get
<1>7. Get(url, "p", 0) = t.win
  BY <1>5 DEF Get
<1>8. Numbered(url)
  BY <1>4, <1>5 DEF Numbered, IntParams
<1>9. Reads(url, t.fee, t.win, t.deal # 0, t.rate, TRUE, t.priceType, PRICETYPE_RRTB_CPM)
  BY <1>3, <1>4, <1>5, <1>6, <1>7 DEF Reads
<1>10. /\ {"p", "rate"} \subseteq DOMAIN url /\ "buy" \notin DOMAIN url
       /\ "deal" \in DOMAIN url => url["deal"] > 0
  BY <1>4, <1>5
<1> QED BY <1>8, <1>9, <1>10 DEF url

\* Nothing is added to a url.
LEMMA WithNothing == ASSUME NEW u, NEW k PROVE k \in DOMAIN With(u, <<>>) <=> k \in DOMAIN u
<1>1. DOMAIN <<>> = {}
  BY SMTT(20)
<1> QED BY <1>1 DEF With

LEMMA WithNothingAt == ASSUME NEW u, NEW k \in DOMAIN u PROVE With(u, <<>>)[k] = u[k]
<1>1. DOMAIN <<>> = {}
  BY SMTT(20)
<1> QED BY <1>1 DEF With

\* The click url of the page an exchange's show answers with reads alike.
LEMMA PageReads ==
  ASSUME NEW t \in AdTerms
  PROVE  Reads(Cipher(BuildResponseForDsp(ShowRequest(t))), t.fee, t.win, t.deal # 0, t.rate, TRUE,
               t.priceType, PRICETYPE_RRTB_CPM)
<1> DEFINE s == ShowRequest(t)
           u == BuildResponseForDsp(s)
           c == Cipher(u)
<1>1. /\ Reads(s, t.fee, t.win, t.deal # 0, t.rate, TRUE, t.priceType, PRICETYPE_RRTB_CPM)
      /\ Numbered(s) /\ {"p", "rate"} \subseteq DOMAIN s /\ "buy" \notin DOMAIN s
      /\ "deal" \in DOMAIN s => s["deal"] > 0
  BY ShowReads
<1> HIDE DEF s
<1>2. /\ DOMAIN u = DOMAIN s
      /\ u["p"] = Get(s, "p", 0) /\ u["rate"] = Get(s, "rate", 0)
      /\ \A k \in DOMAIN s : k \notin {"p", "rate"} => u[k] = s[k]
  BY <1>1 DEF BuildResponseForDsp, With
<1> HIDE DEF u
<1>3. ASSUME NEW k \in {"b", "split", "pt"}, NEW d PROVE Get(u, k, d) = Get(s, k, d)
  BY <1>2 DEF Get
<1>4. Get(u, "p", 0) = t.win /\ Get(u, "rate", 100) = t.rate
  BY <1>1, <1>2 DEF Get, Reads
<1>5. Numbered(u)
  BY <1>1, <1>2 DEF Numbered, IntParams
<1>6. /\ Get(c, "b", 0) = Get(u, "b", 0) /\ Get(c, "pt", 0) = Get(u, "pt", 0)
      /\ Get(c, "p", 0) = Get(u, "p", 0)
      /\ Get(c, "rate", 100) = Get(u, "rate", 100) /\ Get(c, "split", FALSE) = Get(u, "split", FALSE)
  BY <1>5, ReadBack DEF IntParams
<1>7. Get(c, "buy", PRICETYPE_RRTB_CPM) = PRICETYPE_RRTB_CPM
  BY <1>1, <1>2, <1>5, ReadBack
<1>8. "p" \in DOMAIN c /\ ("deal" \in DOMAIN c <=> "deal" \in DOMAIN s)
  BY <1>1, <1>2, <1>5, Ciphered DEF IntParams
<1> HIDE DEF c
<1>9. Reads(c, t.fee, t.win, t.deal # 0, t.rate, TRUE, t.priceType, PRICETYPE_RRTB_CPM)
  BY <1>1, <1>3, <1>4, <1>6, <1>7, <1>8 DEF Reads
<1> QED BY <1>9 DEF c, u, s

\* The price in a click url handed out with a bid.
PriceOf(t) == IF t.adx = "fixed" THEN t.win ELSE 0

\* The click url handed out with a bid reads as the terms say, without a
\* price of the exchange unless it is fixed, and without a deal.
LEMMA ClickReads ==
  ASSUME NEW t \in AdTerms
  PROVE  Reads(Cipher(ClickUrl(t)), t.fee, PriceOf(t), FALSE, t.rate, TRUE, t.priceType,
               PRICETYPE_RRTB_CPM)
<1> DEFINE u == ClickUrl(t)
           c == Cipher(u)
           v == [b |-> t.fee, pt |-> t.priceType, rate |-> t.rate, split |-> TRUE]
           q == [p |-> t.win]
<1>0. /\ DOMAIN v = {"b", "pt", "rate", "split"} /\ DOMAIN q = {"p"} /\ q["p"] = t.win
      /\ v["b"] = t.fee /\ v["pt"] = t.priceType /\ v["rate"] = t.rate /\ v["split"] = TRUE
  OBVIOUS
<1>8. u = With(v, IF t.adx = "fixed" THEN q ELSE <<>>)
  BY DEF ClickUrl
<1> HIDE DEF u, v, q
<1>1. /\ \A k \in DOMAIN u : k \in {"b", "pt", "rate", "split", "p"}
      /\ {"b", "pt", "rate", "split"} \subseteq DOMAIN u
      /\ u["b"] = t.fee /\ u["pt"] = t.priceType /\ u["rate"] = t.rate /\ u["split"] = TRUE
      /\ Get(u, "p", 0) = PriceOf(t)
  <2>1. CASE t.adx = "fixed"
    <3>1. u = With(v, q)
      BY <1>8, <2>1
    <3> QED BY <1>0, <2>1, <3>1 DEF With, Get, PriceOf
  <2>2. CASE t.adx # "fixed"
    <3>1. u = With(v, <<>>)
      BY <1>8, <2>2
    <3>2. \A k : k \in DOMAIN u <=> k \in DOMAIN v
      BY <3>1, WithNothing
    <3>3. \A k \in DOMAIN v : u[k] = v[k]
      BY <3>1, WithNothingAt
    <3>4. "p" \notin DOMAIN u
      BY <1>0, <3>2
    <3> QED BY <1>0, <2>2, <3>2, <3>3, <3>4 DEF Get, PriceOf
  <2> QED BY <2>1, <2>2
<1>2. Numbered(u)
  BY <1>1, TermFields DEF Numbered, IntParams
<1> HIDE DEF u
<1>3. /\ Get(c, "b", 0) = Get(u, "b", 0) /\ Get(c, "pt", 0) = Get(u, "pt", 0)
      /\ Get(c, "rate", 100) = Get(u, "rate", 100) /\ Get(c, "split", FALSE) = Get(u, "split", FALSE)
  BY <1>2, ReadBack DEF IntParams
<1>4. /\ Get(c, "buy", PRICETYPE_RRTB_CPM) = PRICETYPE_RRTB_CPM
      /\ Get(c, "p", 0) = PriceOf(t)
  <2>1. "buy" \notin DOMAIN u
    BY <1>1
  <2>2. Get(c, "p", 0) = Get(u, "p", 0)
    BY <1>2, ReadBack DEF IntParams
  <2> QED BY <1>1, <1>2, <2>1, <2>2, ReadBack
<1>5. "deal" \notin DOMAIN c
  <2>1. "deal" \in DOMAIN c => "deal" \in DOMAIN u
    BY <1>2, Ciphered
  <2> QED BY <1>1, <2>1
<1>6. /\ Get(u, "b", 0) = t.fee /\ Get(u, "pt", 0) = t.priceType
      /\ Get(u, "rate", 100) = t.rate /\ Get(u, "split", FALSE) = TRUE
  BY <1>1 DEF Get
<1> HIDE DEF c
<1>7. Reads(c, t.fee, PriceOf(t), FALSE, t.rate, TRUE, t.priceType, PRICETYPE_RRTB_CPM)
  BY <1>3, <1>4, <1>5, <1>6 DEF Reads
<1> QED BY <1>7 DEF c, u

\* The click url of an SSP placement reads its price only if it is bought
\* by the click, and the fee rate only if the click settles.
LEMMA SspReads ==
  ASSUME NEW t \in AdTerms
  PROVE  LET bought == t.buyType = PRICETYPE_RRTB_CPC
             settles == IsCpc(t.priceType)
         IN Reads(Cipher(BuildResponseForSsp(t)), t.fee, IF bought THEN t.base * 100 ELSE 0, FALSE,
                  IF settles THEN t.rate ELSE 100, IF settles THEN TRUE ELSE FALSE, t.priceType,
                  IF bought THEN PRICETYPE_RRTB_CPC ELSE PRICETYPE_RRTB_CPM)
<1> DEFINE bought == t.buyType = PRICETYPE_RRTB_CPC
           settles == IsCpc(t.priceType)
           a == [b |-> t.fee, pt |-> t.priceType]
           v == With(a, IF bought THEN [buy |-> PRICETYPE_RRTB_CPC, p |-> t.base * 100] ELSE <<>>)
           u == With(v, IF settles THEN [rate |-> t.rate, split |-> TRUE] ELSE <<>>)
           c == Cipher(u)
<1>1. DOMAIN a = {"b", "pt"} /\ a["b"] = t.fee /\ a["pt"] = t.priceType
  OBVIOUS
<1> HIDE DEF a
<1>2. /\ DOMAIN v = {"b", "pt"} \cup IF bought THEN {"buy", "p"} ELSE {}
      /\ v["b"] = t.fee /\ v["pt"] = t.priceType
      /\ bought => v["buy"] = PRICETYPE_RRTB_CPC /\ v["p"] = t.base * 100
  <2>1. CASE bought
    BY <1>1, <2>1 DEF With
  <2>2. CASE ~bought
    <3>1. v = With(a, <<>>)
      BY <2>2
    <3> HIDE DEF v
    <3> QED BY <1>1, <2>2, <3>1, WithNothing, WithNothingAt
  <2> QED BY <2>1, <2>2
<1> HIDE DEF v
<1>3. /\ DOMAIN u = DOMAIN v \cup IF settles THEN {"rate", "split"} ELSE {}
      /\ \A k \in DOMAIN v : k \notin {"rate", "split"} => u[k] = v[k]
      /\ settles => u["rate"] = t.rate /\ u["split"] = TRUE
  <2>1. CASE settles
    BY <2>1 DEF With
  <2>2. CASE ~settles
    <3>1. u = With(v, <<>>)
      BY <2>2
    <3> HIDE DEF u
    <3> QED BY <2>2, <3>1, WithNothing, WithNothingAt
  <2> QED BY <2>1, <2>2
<1> HIDE DEF u
<1>4. Numbered(u)
  BY <1>2, <1>3, TermFields, PriceTypeNumbers DEF Numbered, IntParams
<1>5. /\ Get(c, "b", 0) = Get(u, "b", 0) /\ Get(c, "pt", 0) = Get(u, "pt", 0)
      /\ Get(c, "p", 0) = Get(u, "p", 0)
      /\ Get(c, "rate", 100) = Get(u, "rate", 100) /\ Get(c, "split", FALSE) = Get(u, "split", FALSE)
  BY <1>4, ReadBack DEF IntParams
<1>6. /\ Get(u, "b", 0) = t.fee /\ Get(u, "pt", 0) = t.priceType
  BY <1>2, <1>3 DEF Get
<1>7. Get(u, "p", 0) = IF bought THEN t.base * 100 ELSE 0
  BY <1>2, <1>3 DEF Get
<1>8. /\ Get(u, "rate", 100) = IF settles THEN t.rate ELSE 100
      /\ Get(u, "split", FALSE) = IF settles THEN TRUE ELSE FALSE
  BY <1>2, <1>3 DEF Get
<1>9. Get(c, "buy", PRICETYPE_RRTB_CPM) = IF bought THEN PRICETYPE_RRTB_CPC ELSE PRICETYPE_RRTB_CPM
  <2>1. /\ "buy" \in DOMAIN c <=> "buy" \in DOMAIN u /\ u["buy"] > 0
        /\ "buy" \in DOMAIN c => c["buy"] = u["buy"]
    BY <1>4, Ciphered DEF IntParams
  <2>2. "buy" \in DOMAIN u <=> bought
    BY <1>2, <1>3
  <2>3. bought => u["buy"] = PRICETYPE_RRTB_CPC
    BY <1>2, <1>3
  <2> QED BY <2>1, <2>2, <2>3, PriceTypeNumbers DEF Get
<1>10. "deal" \notin DOMAIN c
  <2>1. "deal" \in DOMAIN c => "deal" \in DOMAIN u
    BY <1>4, Ciphered
  <2> QED BY <1>2, <1>3, <2>1
<1> HIDE DEF c
<1>11. Reads(c, t.fee, IF bought THEN t.base * 100 ELSE 0, FALSE,
             IF settles THEN t.rate ELSE 100, IF settles THEN TRUE ELSE FALSE, t.priceType,
             IF bought THEN PRICETYPE_RRTB_CPC ELSE PRICETYPE_RRTB_CPM)
  BY <1>5, <1>6, <1>7, <1>8, <1>9, <1>10 DEF Reads
<1> QED BY <1>11 DEF c, u, v, a, BuildResponseForSsp

\* The fee rate and the price that the rules are applied to.
RateOf(rate) == IF rate <= 100 THEN 100 ELSE rate
OfferOf(fixed, offer, decodePrice) == IF fixed /\ offer = 0 THEN decodePrice ELSE offer
LEMMA RateRead ==
  ASSUME NEW url
  PROVE  (IF Get(url, "rate", 100) <= 100 THEN 100 ELSE url["rate"]) = RateOf(Get(url, "rate", 100))
<1>1. CASE "rate" \in DOMAIN url
  BY <1>1 DEF Get, RateOf
<1>2. CASE "rate" \notin DOMAIN url
  <2>1. 100 <= 100
    BY SMTT(20)
  <2> QED BY <1>2, <2>1 DEF Get, RateOf
<1> QED BY <1>1, <1>2

\* The price rules for an ad of an exchange whose price and deal are in the
\* url.
LEMMA DspPrices ==
  ASSUME NEW t \in AdTerms, NEW url,
         Reads(url, t.fee, t.win, t.deal # 0, t.rate, TRUE, t.priceType, PRICETYPE_RRTB_CPM)
  PROVE  LET fixed == t.deal # 0 \/ t.adx = "fixed"
             offerPrice == OfferOf(fixed, t.fee, t.win)
         IN /\ ParseObjectToLogItem(t.adx, url, "SHOW") =
                 CalcPriceShow(fixed, t.win, offerPrice, RateOf(t.rate), TRUE, t.priceType,
                               PRICETYPE_RRTB_CPM)
            /\ ParseObjectToLogItem(t.adx, url, "CLICK") =
                 CalcPriceClick(t.win, offerPrice, TRUE, t.priceType, PRICETYPE_RRTB_CPM)
<1>1. (IF Get(url, "rate", 100) <= 100 THEN 100 ELSE url["rate"]) = RateOf(t.rate)
  BY RateRead DEF Reads
<1>2. ("p" \in DOMAIN url /\ "deal" \in DOMAIN url) = (t.deal # 0)
  BY DEF Reads
<1> QED BY <1>1, <1>2 DEF ParseObjectToLogItem, Reads, OfferOf

\* An exchange's show request books what is due at the show.
LEMMA ShowBooksDue ==
  ASSUME NEW t \in AdTerms, t.adx # "ssp"
  PROVE  ParseObjectToLogItem(t.adx, ShowRequest(t), "SHOW") = Due(t, "SHOW")
<1> DEFINE fixed == t.deal # 0 \/ t.adx = "fixed"
<1>1. ParseObjectToLogItem(t.adx, ShowRequest(t), "SHOW") =
        CalcPriceShow(fixed, t.win, OfferOf(fixed, t.fee, t.win), RateOf(t.rate), TRUE, t.priceType,
                      PRICETYPE_RRTB_CPM)
  BY ShowReads, DspPrices
<1>2. CASE IsCpc(t.priceType)
  BY <1>1, <1>2 DEF CalcPriceShow, Due, DueCost, BoughtAt, SettledAt
<1>3. CASE ~IsCpc(t.priceType)
  <2>1. DueSpend(t) = IF fixed THEN OfferOf(fixed, t.fee, t.win) ELSE Ceil(t.win * RateOf(t.rate), 100)
    BY <1>3 DEF DueSpend, OfferOf, RateOf
  <2> QED BY <1>1, <1>3, <2>1 DEF CalcPriceShow, Due, DueCost, BoughtAt, SettledAt
<1> QED BY <1>2, <1>3

\* The click on the page of an exchange's show books what is due at the
\* click.
LEMMA PageBooksDue ==
  ASSUME NEW t \in AdTerms, t.adx # "ssp"
  PROVE  ParseObjectToLogItem(t.adx, Cipher(BuildResponseForDsp(ShowRequest(t))), "CLICK")
           = Due(t, "CLICK")
<1> DEFINE fixed == t.deal # 0 \/ t.adx = "fixed"
           url == Cipher(BuildResponseForDsp(ShowRequest(t)))
<1>1. Reads(url, t.fee, t.win, t.deal # 0, t.rate, TRUE, t.priceType, PRICETYPE_RRTB_CPM)
  BY PageReads
<1> HIDE DEF url
<1>2. ParseObjectToLogItem(t.adx, url, "CLICK") =
        CalcPriceClick(t.win, OfferOf(fixed, t.fee, t.win), TRUE, t.priceType, PRICETYPE_RRTB_CPM)
  BY <1>1, DspPrices
<1>3. CASE IsCpc(t.priceType)
  <2>1. DueSpend(t) = OfferOf(fixed, t.fee, t.win) * 1000
    BY <1>3, SMTT(20) DEF DueSpend, OfferOf
  <2> QED BY <1>2, <1>3, <2>1, SMTT(20) DEF CalcPriceClick, Due, BoughtAt, SettledAt, url
<1>4. CASE ~IsCpc(t.priceType)
  BY <1>2, <1>4, SMTT(20) DEF CalcPriceClick, Due, BoughtAt, SettledAt, url
<1> QED BY <1>3, <1>4

\* The click on a url handed out with a bid books what is due at the click,
\* if what the advertiser pays for it does not depend on the auction.
LEMMA ClickBooksDue ==
  ASSUME NEW t \in AdTerms, t.adx # "ssp",
         IsCpc(t.priceType) /\ t.adx # "fixed" /\ t.deal # 0 => t.fee # 0
  PROVE  ParseObjectToLogItem(t.adx, Cipher(ClickUrl(t)), "CLICK") = Due(t, "CLICK")
<1> DEFINE url == Cipher(ClickUrl(t))
           offerPrice == OfferOf(t.adx = "fixed", t.fee, PriceOf(t))
<1>1. Reads(url, t.fee, PriceOf(t), FALSE, t.rate, TRUE, t.priceType, PRICETYPE_RRTB_CPM)
  BY ClickReads
<1> HIDE DEF url
<1>2. ("p" \in DOMAIN url /\ "deal" \in DOMAIN url) = FALSE
  BY <1>1 DEF Reads
<1>3. ParseObjectToLogItem(t.adx, url, "CLICK") =
        CalcPriceClick(PriceOf(t), offerPrice, TRUE, t.priceType, PRICETYPE_RRTB_CPM)
  BY <1>1, <1>2 DEF ParseObjectToLogItem, Reads, OfferOf
<1>4. CASE IsCpc(t.priceType)
  <2>1. offerPrice = IF t.adx = "fixed" /\ t.fee = 0 THEN t.win ELSE t.fee
    BY DEF OfferOf, PriceOf
  <2>2. DueSpend(t) = (IF t.adx = "fixed" /\ t.fee = 0 THEN t.win ELSE t.fee) * 1000
    BY <1>4, SMTT(20) DEF DueSpend
  <2> HIDE DEF offerPrice
  <2> QED BY <1>3, <1>4, <2>1, <2>2, SMTT(20) DEF CalcPriceClick, Due, BoughtAt, SettledAt, url
<1>5. CASE ~IsCpc(t.priceType)
  BY <1>3, <1>5, SMTT(20) DEF CalcPriceClick, Due, BoughtAt, SettledAt, url
<1> QED BY <1>4, <1>5

\* The click on an SSP placement books what is due at the click.
LEMMA SspBooksDue ==
  ASSUME NEW t \in AdTerms, t.adx = "ssp"
  PROVE  ParseObjectToLogItem(t.adx, Cipher(BuildResponseForSsp(t)), "CLICK") = Due(t, "CLICK")
<1> DEFINE url == Cipher(BuildResponseForSsp(t))
           bought == t.buyType = PRICETYPE_RRTB_CPC
           settles == IsCpc(t.priceType)
           cost == IF bought THEN t.base * 100 ELSE 0
           split == IF settles THEN TRUE ELSE FALSE
           buyType == IF bought THEN PRICETYPE_RRTB_CPC ELSE PRICETYPE_RRTB_CPM
           rate == IF settles THEN t.rate ELSE 100
<1>1. Reads(url, t.fee, cost, FALSE, rate, split, t.priceType, buyType)
  BY SspReads
<1> HIDE DEF url, cost, split, buyType, rate
<1>2. ("p" \in DOMAIN url /\ "deal" \in DOMAIN url) = FALSE
  BY <1>1 DEF Reads
<1>3. ParseObjectToLogItem(t.adx, url, "CLICK") =
        CalcPriceClick(cost, t.fee, split, t.priceType, buyType)
  BY <1>1, <1>2 DEF ParseObjectToLogItem, Reads
<1>4. DueCost(t) = IF bought THEN t.base * 100 * 1000 ELSE t.base * 100
  BY DEF DueCost, BoughtAt
<1>5. settles => DueSpend(t) = t.fee * 1000
  BY SMTT(20) DEF DueSpend
<1>6. Due(t, "CLICK") = [cost |-> IF bought THEN t.base * 100 * 1000 ELSE 0,
                         spend |-> IF settles THEN t.fee * 1000 ELSE 0, split |-> split]
  <2>1. BoughtAt(t) = "CLICK" <=> bought
    BY DEF BoughtAt
  <2>2. (SettledAt(t) = "CLICK") = split
    BY DEF SettledAt, split
  <2>3. SettledAt(t) = "CLICK" <=> settles
    BY DEF SettledAt
  <2> HIDE DEF settles, bought
  <2>4. (IF BoughtAt(t) = "CLICK" THEN DueCost(t) ELSE 0)
          = IF bought THEN t.base * 100 * 1000 ELSE 0
    BY <1>4, <2>1, SMTT(20)
  <2>5. (IF SettledAt(t) = "CLICK" THEN DueSpend(t) ELSE 0) = IF settles THEN t.fee * 1000 ELSE 0
    BY <1>5, <2>3, SMTT(20)
  <2> QED BY <2>2, <2>4, <2>5 DEF Due
<1>7. buyType = PRICETYPE_RRTB_CPM <=> ~bought
  BY PriceTypeNumbers DEF buyType
<1>8. (settles /\ split) = split
  BY DEF split
<1>9. CalcPriceClick(cost, t.fee, split, t.priceType, buyType) =
        [cost |-> IF bought THEN cost * 1000 ELSE 0,
         spend |-> IF settles THEN t.fee * 1000 ELSE 0, split |-> split]
  <2> HIDE DEF bought
  <2> QED BY <1>7, <1>8, SMTT(20) DEF CalcPriceClick
<1>10. bought => cost * 1000 = t.base * 100 * 1000
  BY DEF cost
<1> QED BY <1>3, <1>6, <1>9, <1>10, SMTT(20) DEF url

\* A placement of the server's own books what is due at the show.
LEMMA SspShowDue ==
  ASSUME NEW t \in AdTerms, t.adx = "ssp"
  PROVE  SspShowPrice(t) = Due(t, "SHOW")
<1> DEFINE bought == t.buyType = PRICETYPE_RRTB_CPC
           settles == IsCpc(t.priceType)
<1>1. (BoughtAt(t) = "SHOW" <=> ~bought) /\ (BoughtAt(t) # "SHOW" <=> BoughtAt(t) = "CLICK")
  BY DEF BoughtAt
<1>2. (SettledAt(t) = "SHOW") = ~settles
  BY DEF SettledAt
<1>3. ~settles => DueSpend(t) = t.fee
  BY SMTT(20) DEF DueSpend
<1>4. ~bought => DueCost(t) = t.base * 100
  BY <1>1, SMTT(20) DEF DueCost
<1> HIDE DEF settles, bought
<1>5. SspShowPrice(t) = [cost |-> IF bought THEN 0 ELSE t.base * 100,
                         spend |-> IF settles THEN 0 ELSE t.fee, split |-> ~settles]
  BY DEF SspShowPrice, settles, bought
<1> QED BY <1>1, <1>2, <1>3, <1>4, <1>5, SMTT(20) DEF Due

-----------------------------------------------------------------------------
(* What Delivery logs.                                                     *)

\* A request is a record with these fields.
IsRequest(r) ==
  DOMAIN r = {"nr", "kind", "user", "ad", "booking", "landing", "source", "at", "owner", "from"}
ClickSteps == {"generateSourceId", "putSource", "putIndex", "countClick", "logClick"}

\* A request of a show or a click has booked what is due before its first
\* call to Aerospike, and only a click gets to the steps of one.
WorkerCharged(p, r) ==
  /\ IsRequest(r)
  /\ r.kind \in {"SHOW", "CLICK"} => r.booking = Due(Terms[r.ad], r.kind)
  /\ p \in ClickSteps => r.kind = "CLICK"

\* A url that is clicked will book what is due.
LinkCharged(link) ==
  /\ link.ad \in Ads
  /\ ParseObjectToLogItem(Terms[link.ad].adx, link.url, "CLICK") = Due(Terms[link.ad], "CLICK")
LogCharged(l) ==
  l.type \in {"SHOW", "CLICK"} /\ l.ad # None => l.booking = Due(Terms[l.ad], l.type)

ChargeInv ==
  /\ traffic.ads \subseteq Ads
  /\ pc = [w \in Workers |-> pc[w]] /\ req = [w \in Workers |-> req[w]]
  /\ \A w \in Workers : WorkerCharged(pc[w], req[w])
  /\ \A link \in links : LinkCharged(link)
  /\ \A l \in logs : LogCharged(l)

\* Urls and logs that a step adds are charged like the ones there are.
NewCharged ==
  /\ traffic' = traffic
  /\ \A link \in links' : link \in links \/ LinkCharged(link)
  /\ \A l \in logs' : l \in logs \/ LogCharged(l)

\* A worker that takes a step leaves the others alone.
LEMMA WorkerKeeps ==
  ASSUME ChargeInv, NewCharged, NEW w \in Workers, NEW p, NEW r, WorkerCharged(p, r),
         pc' = [pc EXCEPT ![w] = p], req' = [req EXCEPT ![w] = r]
  PROVE  ChargeInv'
<1>1. ASSUME NEW v \in Workers PROVE WorkerCharged(pc'[v], req'[v])
  <2>1. CASE v = w
    <3>1. pc'[v] = p /\ req'[v] = r
      BY <2>1 DEF ChargeInv
    <3> QED BY <3>1
  <2>2. CASE v # w
    <3>1. pc'[v] = pc[v] /\ req'[v] = req[v]
      BY <2>2 DEF ChargeInv
    <3> QED BY <3>1 DEF ChargeInv
  <2> QED BY <2>1, <2>2
<1>2. /\ pc' = [v \in Workers |-> pc'[v]] /\ req' = [v \in Workers |-> req'[v]]
  BY DEF ChargeInv
<1>3. /\ traffic'.ads \subseteq Ads
      /\ \A link \in links' : LinkCharged(link)
      /\ \A l \in logs' : LogCharged(l)
  BY DEF ChargeInv, NewCharged
<1> QED BY <1>1, <1>2, <1>3 DEF ChargeInv, LinkCharged, LogCharged, WorkerCharged

\* No worker takes a step.
LEMMA OthersKeep ==
  ASSUME ChargeInv, NewCharged, pc' = pc, req' = req
  PROVE  ChargeInv'
<1>1. /\ traffic'.ads \subseteq Ads
      /\ \A link \in links' : LinkCharged(link)
      /\ \A l \in logs' : LogCharged(l)
  BY DEF ChargeInv, NewCharged
<1> QED BY <1>1 DEF ChargeInv, LinkCharged, LogCharged, WorkerCharged

LEMMA IdleCharged == WorkerCharged("idle", Idle)
BY DEF WorkerCharged, IsRequest, Idle, ClickSteps

\* The fields of a new request and of a log.
LEMMA NewRequest ==
  ASSUME NEW kind, NEW user, NEW ad, NEW booking
  PROVE  /\ IsRequest(Request(kind, user, ad, booking))
         /\ Request(kind, user, ad, booking).kind = kind
         /\ Request(kind, user, ad, booking).ad = ad
         /\ Request(kind, user, ad, booking).booking = booking
BY DEF Request, Idle, IsRequest

LEMMA LogOf ==
  ASSUME NEW r, NEW type, NEW status,
         type \in {"SHOW", "CLICK"} /\ r.ad # None => r.booking = Due(Terms[r.ad], type)
  PROVE  LogCharged(Log(r, type, status))
<1>1. /\ Log(r, type, status).type = type /\ Log(r, type, status).ad = r.ad
      /\ Log(r, type, status).booking = r.booking
  BY DEF Log
<1> QED BY <1>1 DEF LogCharged

\* The terms of an ad that runs.
LEMMA RunningAd ==
  ASSUME ChargeInv, NEW ad \in traffic.ads
  PROVE  ad \in Ads /\ Terms[ad] \in AdTerms
BY ConstantsAssumption DEF ChargeInv

\* A placement of the server's own: the show is booked at once, the url of
\* the page books the click.
LEMMA ShowForSspCharged ==
  ASSUME ChargeInv, NEW w \in Workers, ShowForSsp(w)
  PROVE  ChargeInv'
<1>1. PICK u \in Users, ad \in {a \in traffic.ads : Terms[a].adx = "ssp"} :
        LET r == Request("BID", u, ad, SspShowPrice(Terms[ad])) IN
        /\ logs' = logs \cup {Log(r, "SHOW", 200)}
        /\ links' = links \cup {[ad |-> ad, user |-> None, url |-> Cipher(BuildResponseForSsp(Terms[ad]))]}
        /\ Continue(w, "daily", r)
  BY DEF ShowForSsp
<1> DEFINE t == Terms[ad]
           r == Request("BID", u, ad, SspShowPrice(t))
           l == Log(r, "SHOW", 200)
           link == [ad |-> ad, user |-> None, url |-> Cipher(BuildResponseForSsp(t))]
<1>2. t \in AdTerms /\ ad \in Ads /\ t.adx = "ssp"
  BY RunningAd
<1>3. LinkCharged(link)
  BY <1>2, SspBooksDue DEF LinkCharged
<1>4. IsRequest(r) /\ r.kind = "BID" /\ r.ad = ad /\ r.booking = SspShowPrice(t)
  BY NewRequest, SMTT(20)
<1> HIDE DEF r, link
<1>5. LogCharged(l)
  <2>1. r.booking = Due(Terms[r.ad], "SHOW")
    BY <1>2, <1>4, SspShowDue
  <2> QED BY <2>1, LogOf, SMTT(20)
<1>6. WorkerCharged("daily", r)
  BY <1>4 DEF WorkerCharged, ClickSteps
<1> HIDE DEF l
<1>7. logs' = logs \cup {l} /\ links' = links \cup {link} /\ Continue(w, "daily", r)
  BY <1>1 DEF l, link, r
<1>8. NewCharged
  BY <1>3, <1>5, <1>7 DEF NewCharged, ShowForSsp
<1> QED BY <1>6, <1>7, <1>8, WorkerKeeps DEF Continue

\* No placement, or no ad for it: the log is of nothing.
LEMMA ShowForSspFailedCharged ==
  ASSUME ChargeInv, NEW w \in Workers, ShowForSspFailed(w)
  PROVE  ChargeInv'
<1>1. PICK u \in Users, outcome \in {<<"SHOW", 200>>, <<"BID", 500>>} :
        logs' = logs \cup {Log(Request("BID", u, None, NoBooking), outcome[1], outcome[2])}
  BY DEF ShowForSspFailed
<1>2. LogCharged(Log(Request("BID", u, None, NoBooking), outcome[1], outcome[2]))
  <2>1. Request("BID", u, None, NoBooking).ad = None
    BY NewRequest, SMTT(20)
  <2> QED BY <2>1, LogOf, SMTT(20)
<1>3. NewCharged /\ pc' = pc /\ req' = req
  BY <1>1, <1>2 DEF NewCharged, ShowForSspFailed
<1> QED BY <1>3, OthersKeep

\* An exchange's show: its request has booked the show, the url of the page
\* books the click.
LEMMA ShowForDspCharged ==
  ASSUME ChargeInv, NEW w \in Workers, ShowForDsp(w)
  PROVE  ChargeInv'
<1>1. PICK u \in Users, ad \in {a \in traffic.ads : Terms[a].adx # "ssp"},
           of \in {"both", "creative", "log"}, found \in BOOLEAN :
       LET url == ShowRequest(Terms[ad])
           r == Request("SHOW", u, ad, ParseObjectToLogItem(Terms[ad].adx, url, "SHOW"))
       IN IF of # "log" /\ ~found
            THEN /\ logs' = IF of = "both" THEN logs \cup {Log(r, "SHOW", 500)} ELSE logs
                 /\ UNCHANGED <<pc, req, links, counting>>
            ELSE /\ links' = IF of = "log" THEN links ELSE links \cup
                      {[ad |-> ad, user |-> u, url |-> Cipher(BuildResponseForDsp(url))]}
                 /\ IF of = "creative" THEN UNCHANGED <<pc, req, counting>>
                    ELSE CountShow(ad) /\ Continue(w, "daily", r)
                 /\ UNCHANGED logs
  BY DEF ShowForDsp
<1> DEFINE t == Terms[ad]
           url == ShowRequest(t)
           r == Request("SHOW", u, ad, ParseObjectToLogItem(t.adx, url, "SHOW"))
           l == Log(r, "SHOW", 500)
           link == [ad |-> ad, user |-> u, url |-> Cipher(BuildResponseForDsp(url))]
<1>2. t \in AdTerms /\ ad \in Ads /\ t.adx # "ssp"
  BY RunningAd
<1>3. LinkCharged(link)
  BY <1>2, PageBooksDue DEF LinkCharged
<1>4. IsRequest(r) /\ r.kind = "SHOW" /\ r.ad = ad /\ r.booking = Due(t, "SHOW")
  <2>1. ParseObjectToLogItem(t.adx, url, "SHOW") = Due(t, "SHOW")
    BY <1>2, ShowBooksDue
  <2> QED BY <2>1, NewRequest, SMTT(20)
<1> HIDE DEF r, link
<1>5. LogCharged(l)
  <2>1. r.booking = Due(Terms[r.ad], "SHOW")
    BY <1>4
  <2> QED BY <2>1, LogOf, SMTT(20)
<1>6. WorkerCharged("daily", r)
  BY <1>4 DEF WorkerCharged, ClickSteps
<1> HIDE DEF l
<1>7. /\ logs' = logs \/ logs' = logs \cup {l}
      /\ links' = links \/ links' = links \cup {link}
      /\ (pc' = pc /\ req' = req) \/ Continue(w, "daily", r)
  BY <1>1 DEF l, link, r
<1>8. NewCharged
  BY <1>3, <1>5, <1>7 DEF NewCharged, ShowForDsp
<1> QED BY <1>6, <1>7, <1>8, WorkerKeeps, OthersKeep DEF Continue

\* The log at the end of a show.
LEMMA FrequencyCharged ==
  ASSUME ChargeInv, NEW w \in Workers, CountFrequency(w) \/ FrequencyFails(w)
  PROVE  ChargeInv'
<1> DEFINE l == Log(req[w], req[w].kind, 200)
<1>1. WorkerCharged(pc[w], req[w])
  BY DEF ChargeInv
<1>2. WorkerCharged("hourly", req[w])
  BY <1>1 DEF WorkerCharged, ClickSteps
<1>3. LogCharged(l)
  <2>1. req[w].kind \in {"SHOW", "CLICK"} => req[w].booking = Due(Terms[req[w].ad], req[w].kind)
    BY <1>1 DEF WorkerCharged
  <2> QED BY <2>1, LogOf, SMTT(20)
<1> HIDE DEF l
<1>4. /\ \/ Continue(w, "hourly", req[w]) /\ logs' = logs
         \/ Finish(w) /\ logs' = logs \cup {l}
      /\ traffic' = traffic /\ links' = links
  BY DEF CountFrequency, FrequencyFails, AfterFrequency, l
<1>5. NewCharged
  BY <1>3, <1>4 DEF NewCharged
<1> QED BY <1>2, <1>4, <1>5, IdleCharged, WorkerKeeps DEF Continue, Finish

\* A click books what its url says.
LEMMA ClickCharged ==
  ASSUME ChargeInv, NEW w \in Workers, Click(w)
  PROVE  ChargeInv'
<1>1. PICK link \in links, u \in Users, landing \in BOOLEAN :
        LET r == ClickRequest(link, u, landing) IN
        /\ link.user \in {None, u}
        /\ IF landing THEN Continue(w, "generateSourceId", r) /\ UNCHANGED logs
           ELSE logs' = logs \cup {Log(r, "CLICK", 302)} /\ UNCHANGED <<pc, req>>
  BY DEF Click
<1> DEFINE booking == ParseObjectToLogItem(Terms[link.ad].adx, link.url, "CLICK")
           q == Request("CLICK", u, link.ad, booking)
           r == ClickRequest(link, u, landing)
           l == Log(r, "CLICK", 302)
<1>2. booking = Due(Terms[link.ad], "CLICK")
  BY DEF ChargeInv, LinkCharged
<1> HIDE DEF booking
<1>3. IsRequest(q) /\ q.kind = "CLICK" /\ q.ad = link.ad /\ q.booking = booking
  BY NewRequest, SMTT(20)
<1> HIDE DEF q
<1>4. r = [q EXCEPT !.owner = Terms[link.ad].owner, !.landing = landing]
  BY DEF ClickRequest, q, booking
<1> HIDE DEF r
<1>5. IsRequest(r) /\ r.kind = "CLICK" /\ r.ad = link.ad /\ r.booking = booking
  BY <1>3, <1>4 DEF IsRequest
<1>6. WorkerCharged("generateSourceId", r)
  BY <1>2, <1>5 DEF WorkerCharged
<1>7. LogCharged(l)
  <2>1. r.booking = Due(Terms[r.ad], "CLICK")
    BY <1>2, <1>5
  <2> QED BY <2>1, LogOf, SMTT(20)
<1> HIDE DEF l
<1>8. /\ logs' = logs \/ logs' = logs \cup {l}
      /\ (pc' = pc /\ req' = req) \/ Continue(w, "generateSourceId", r)
  BY <1>1 DEF l, r
<1>9. NewCharged
  BY <1>7, <1>8 DEF NewCharged, Click
<1> QED BY <1>6, <1>8, <1>9, WorkerKeeps, OthersKeep DEF Continue

\* The steps of a click keep its request but for the source id.
LEMMA ClickStepCharged ==
  ASSUME ChargeInv, NEW w \in Workers,
         GenerateSourceId(w) \/ PutSource(w) \/ PutIndex(w) \/ CountClick(w)
  PROVE  ChargeInv'
<1> DEFINE r == [req[w] EXCEPT !.source = lastId]
<1>1. WorkerCharged(pc[w], req[w]) /\ pc[w] \in ClickSteps
  BY DEF ChargeInv, GenerateSourceId, PutSource, PutIndex, CountClick, ClickSteps
<1>2. IsRequest(r) /\ r.kind = req[w].kind /\ r.ad = req[w].ad /\ r.booking = req[w].booking
  BY <1>1 DEF WorkerCharged, IsRequest
<1> HIDE DEF r
<1>3. \A p \in ClickSteps : WorkerCharged(p, req[w]) /\ WorkerCharged(p, r)
  BY <1>1, <1>2 DEF WorkerCharged
<1>4. NewCharged
  BY DEF NewCharged, GenerateSourceId, PutSource, PutIndex, CountClick
<1>5. \E p \in ClickSteps : Continue(w, p, req[w]) \/ Continue(w, p, r)
  BY DEF GenerateSourceId, PutSource, PutIndex, CountClick, Write, ClickSteps, r
<1> QED BY <1>3, <1>4, <1>5, WorkerKeeps DEF Continue

\* The log of a click.
LEMMA LogClickCharged ==
  ASSUME ChargeInv, NEW w \in Workers, LogClick(w)
  PROVE  ChargeInv'
<1> DEFINE l == Log(req[w], "CLICK", 302)
<1>1. WorkerCharged(pc[w], req[w]) /\ pc[w] \in ClickSteps
  BY DEF ChargeInv, LogClick, ClickSteps
<1>2. req[w].booking = Due(Terms[req[w].ad], "CLICK")
  BY <1>1 DEF WorkerCharged
<1>3. LogCharged(l)
  BY <1>2, LogOf, SMTT(20)
<1> HIDE DEF l
<1>4. logs' = logs \cup {l} /\ Finish(w) /\ traffic' = traffic /\ links' = links
  BY DEF LogClick, l
<1>5. NewCharged
  BY <1>3, <1>4 DEF NewCharged
<1> QED BY <1>4, <1>5, IdleCharged, WorkerKeeps DEF Finish

\* Traces book nothing, and what they log is neither a show nor a click.
LEMMA TraceCharged ==
  ASSUME ChargeInv, NEW w \in Workers, Trace(w)
  PROVE  ChargeInv'
<1>1. ASSUME NEW u, NEW owner, NEW source, NEW from, NEW p \in {"getSource", "getIndex"}
      PROVE  WorkerCharged(p, TraceRequest(u, owner, source, from))
  <2> DEFINE q == Request("TRACK", u, None, NoBooking)
             r == TraceRequest(u, owner, source, from)
  <2>1. IsRequest(q) /\ q.kind = "TRACK"
    BY NewRequest, SMTT(20)
  <2> HIDE DEF q
  <2>2. r = [q EXCEPT !.owner = owner, !.source = source, !.from = from]
    BY DEF TraceRequest, q
  <2> HIDE DEF r
  <2>3. IsRequest(r) /\ r.kind = "TRACK"
    BY <2>1, <2>2 DEF IsRequest
  <2>4. WorkerCharged(p, r)
    BY <2>3 DEF WorkerCharged, ClickSteps
  <2> QED BY <2>4 DEF r
<1>2. \E p \in {"getSource", "getIndex"} : \E u, owner, source, from :
        Continue(w, p, TraceRequest(u, owner, source, from))
  BY DEF Trace
<1>3. NewCharged
  BY DEF NewCharged, Trace
<1> QED BY <1>1, <1>2, <1>3, WorkerKeeps DEF Continue

LEMMA TraceStepCharged ==
  ASSUME ChargeInv, NEW w \in Workers, GetIndex(w) \/ GetSource(w)
  PROVE  ChargeInv'
<1>1. WorkerCharged(pc[w], req[w])
  BY DEF ChargeInv
<1>2. CASE GetIndex(w)
  <2> DEFINE r == [req[w] EXCEPT !.source = index[<<req[w].user, req[w].owner>>]]
  <2>1. IsRequest(r) /\ r.kind = req[w].kind /\ r.ad = req[w].ad /\ r.booking = req[w].booking
    BY <1>1 DEF WorkerCharged, IsRequest
  <2> HIDE DEF r
  <2>2. WorkerCharged("getSource", req[w]) /\ WorkerCharged("getSource", r)
    BY <1>1, <2>1 DEF WorkerCharged, ClickSteps
  <2>3. NewCharged
    BY <1>2 DEF NewCharged, GetIndex
  <2>4. Continue(w, "getSource", req[w]) \/ Continue(w, "getSource", r)
    BY <1>2 DEF GetIndex, r
  <2> QED BY <2>2, <2>3, <2>4, WorkerKeeps DEF Continue
<1>3. CASE GetSource(w)
  <2>1. \E record, pageView : logs' = logs \cup {TraceLog(req[w], record, pageView)}
    BY <1>3 DEF GetSource
  <2>2. ASSUME NEW record, NEW pageView
        PROVE  TraceLog(req[w], record, pageView).type \in {"ARRIVE", "TRACK"}
    BY SMTT(20) DEF TraceLog, Log
  <2>3. ASSUME NEW record, NEW pageView PROVE LogCharged(TraceLog(req[w], record, pageView))
    BY <2>2 DEF LogCharged
  <2>4. NewCharged
    BY <1>3, <2>1, <2>3 DEF NewCharged, GetSource
  <2> QED BY <1>3, <2>4, IdleCharged, WorkerKeeps DEF GetSource, Finish
<1> QED BY <1>2, <1>3

\* Nothing else touches requests, urls and logs, except that a worker dies.
LEMMA OtherStepCharged ==
  ASSUME ChargeInv,
         \/ \E w \in Workers : Dies(w)
         \/ \E o \in Orders : ShowCounted(o) \/ ShowLost(o)
         \/ \E t \in Totals : PutLands(t) \/ AddLands(t) \/ FrequencyLost(t)
         \/ \E k \in Keys : FrequencyExpires(k)
         \/ \E write \in late : LateWrite(write)
         \/ TrailExpires \/ Tick \/ UNCHANGED vars
  PROVE  ChargeInv'
<1>1. NewCharged
  BY DEF NewCharged, Dies, ShowCounted, ShowLost, PutLands, AddLands, FrequencyLost,
         FrequencyExpires, LateWrite, TrailExpires, Tick, vars
<1>2. (\E w \in Workers : Finish(w)) \/ (pc' = pc /\ req' = req)
  BY DEF Dies, ShowCounted, ShowLost, PutLands, AddLands, FrequencyLost,
         FrequencyExpires, LateWrite, TrailExpires, Tick, vars
<1> QED BY <1>1, <1>2, IdleCharged, WorkerKeeps, OthersKeep DEF Finish

\* At first there are only the urls handed out with bids.
LEMMA ChargeInit == Init => ChargeInv
<1> SUFFICES ASSUME Init PROVE ChargeInv
  OBVIOUS
<1>1. traffic.ads \subseteq Ads
  BY ConstantsAssumption DEF Init, Traffic
<1>2. ASSUME NEW link \in links PROVE LinkCharged(link)
  <2>1. PICK ad \in {a \in traffic.ads : Terms[a].native}, u \in Users :
          link = [ad |-> ad, user |-> u, url |-> Cipher(ClickUrl(Terms[ad]))]
    BY SMTT(20) DEF Init
  <2>2. ad \in Ads /\ Terms[ad] \in AdTerms /\ Terms[ad].native
    BY <1>1, ConstantsAssumption
  <2>3. /\ Terms[ad].adx # "ssp"
        /\ IsCpc(Terms[ad].priceType) /\ Terms[ad].adx # "fixed" /\ Terms[ad].deal # 0
             => Terms[ad].fee # 0
    BY <2>2, TermsAssumption
  <2>4. ParseObjectToLogItem(Terms[ad].adx, Cipher(ClickUrl(Terms[ad])), "CLICK") = Due(Terms[ad], "CLICK")
    BY <2>2, <2>3, ClickBooksDue
  <2> QED BY <2>1, <2>2, <2>4 DEF LinkCharged
<1>3. /\ pc = [w \in Workers |-> pc[w]] /\ req = [w \in Workers |-> req[w]]
      /\ \A w \in Workers : pc[w] = "idle" /\ req[w] = Idle
      /\ logs = {}
  BY DEF Init
<1> QED BY <1>1, <1>2, <1>3, IdleCharged DEF ChargeInv

LEMMA ChargeNext == ChargeInv /\ [Next]_vars => ChargeInv'
BY ShowForSspCharged, ShowForSspFailedCharged, ShowForDspCharged, FrequencyCharged, ClickCharged,
   ClickStepCharged, LogClickCharged, TraceCharged, TraceStepCharged, OtherStepCharged DEF Next

(* Charged: in every state, every log SHOW and CLICK of an ad books what   *)
(* the ad's terms say is due in that phase: no cost, spend or fee is       *)
(* booked twice, at the wrong price or never, whichever of the urls of     *)
(* show_query_task, click_query_task and the bid handlers carried it.      *)
THEOREM Charged == Spec => []ChargedOnce
<1>1. ChargeInv => ChargedOnce
  BY DEF ChargeInv, ChargedOnce, LogCharged
<1> QED BY <1>1, ChargeInit, ChargeNext, PTL DEF Spec
=============================================================================
