--------------------------- MODULE InductionLemmas ---------------------------
(***************************************************************************)
(* Induction over an interval, stated for sets instead of predicates, the  *)
(* existence of the functions that the model defines by recursion, and     *)
(* arithmetic modulo a number.                                             *)
(***************************************************************************)
EXTENDS Integers, WellFoundedInduction, TLAPS

(* A set of natural numbers that is not empty has a least element. *)
LEMMA LeastElement ==
  ASSUME NEW T, T \subseteq Nat, T # {}
  PROVE  \E m \in T : \A k \in T : m <= k
<1>1. PICK m \in T : \A k \in T : ~(<<k, m>> \in OpToRel(<, Nat))
  BY NatLessThanWellFounded, WFMin
<1>2. \A k \in T : ~(k < m)
  BY <1>1 DEF OpToRel
<1> QED BY <1>2

(* Induction from 0 to N. *)
LEMMA IntervalInduction ==
  ASSUME NEW N \in Nat, NEW S, 0 \in S,
         \A n \in 1..N : n - 1 \in S => n \in S
  PROVE  0..N \subseteq S
<1> DEFINE T == (0..N) \ S
<1> SUFFICES ASSUME T # {} PROVE FALSE
  OBVIOUS
<1>1. PICK m \in T : \A k \in T : m <= k
  <2>1. T \subseteq Nat
    OBVIOUS
  <2> QED BY <2>1, LeastElement
<1>2. m \in 1..N
  OBVIOUS
<1>3. m - 1 \notin T
  BY <1>1, <1>2
<1>4. m - 1 \in S
  BY <1>2, <1>3
<1> QED BY <1>2, <1>4

(* g starts with a, and F gives each value of g from the one before. *)
Solves(g, N, a, F) == g[0] = a /\ \A n \in 1..N : g[n] = F[<<n, g[n - 1]>>]

(* A recursion from a value of S, by steps that stay in S, has a solution   *)
(* with its values in S.                                                    *)
LEMMA RecursionExists ==
  ASSUME NEW N \in Nat, NEW S, NEW a \in S,
         NEW F \in [(1..N) \X S -> S]
  PROVE  \E g \in [0..N -> S] : Solves(g, N, a, F)
<1> DEFINE Is(m, g) == Solves(g, m, a, F)
           G == {m \in 0..N : \E g \in [0..m -> S] : Is(m, g)}
<1>1. 0 \in G
  <2> DEFINE g == [n \in 0..0 |-> a]
  <2>1. g \in [0..0 -> S] /\ Is(0, g)
    BY DEF Solves
  <2> HIDE DEF Is, g
  <2> QED BY <2>1
<1>2. ASSUME NEW k \in 1..N, k - 1 \in G PROVE k \in G
  <2> DEFINE m == k - 1
  <2>1. m \in Nat /\ k = m + 1
    OBVIOUS
  <2>2. PICK g \in [0..m -> S] : Is(m, g)
    BY <1>2
  <2> DEFINE h == [n \in 0..k |-> IF n = k THEN F[<<k, g[m]>>] ELSE g[n]]
  <2>3. h \in [0..k -> S]
    <3>1. <<k, g[m]>> \in (1..N) \X S
      BY <2>1
    <3>2. F[<<k, g[m]>>] \in S
      BY <3>1
    <3> QED BY <2>1, <3>2
  <2>4. \A n \in 0..m : h[n] = g[n]
    BY <2>1
  <2>5. h[k] = F[<<k, h[m]>>]
    <3>1. h[m] = g[m] /\ h[k] = F[<<k, g[m]>>]
      BY <2>1
    <3> HIDE DEF h, m
    <3> QED BY <3>1
  <2>6. ASSUME NEW n \in 1..m PROVE h[n] = F[<<n, h[n - 1]>>]
    <3>1. n \in 0..m /\ n - 1 \in 0..m
      BY <2>1
    <3> HIDE DEF h, m
    <3> QED BY <2>2, <2>4, <3>1 DEF Solves
  <2>7. Is(k, h)
    <3>1. h[0] = a
      BY <2>1, <2>2, <2>4 DEF Solves
    <3>2. \A n \in 1..k : n = k \/ n \in 1..m
      BY <2>1
    <3> HIDE DEF h
    <3> QED BY <2>5, <2>6, <3>1, <3>2 DEF Solves
  <2> HIDE DEF Is, h
  <2> QED BY <2>3, <2>7
<1>3. N \in G
  <2> HIDE DEF G
  <2>1. 0..N \subseteq G
    BY <1>1, <1>2, IntervalInduction
  <2> QED BY <2>1
<1> QED BY <1>3

(* As long as the values of f are in S, F gives each from the one before. *)
Follows(f, N, S, a, F) ==
    f[0] = a /\ \A n \in 1..N : f[n - 1] \in S => f[n] = F[<<n, f[n - 1]>>]

(* A function that follows the recursion keeps its values in S. *)
LEMMA RecursionValues ==
  ASSUME NEW N \in Nat, NEW S, NEW a \in S,
         NEW F \in [(1..N) \X S -> S], NEW f,
         Follows(f, N, S, a, F)
  PROVE  \A n \in 0..N : f[n] \in S
<1> DEFINE T == {n \in 0..N : f[n] \in S}
<1>1. 0 \in T
  BY DEF Follows
<1>2. ASSUME NEW n \in 1..N, n - 1 \in T PROVE n \in T
  <2>1. <<n, f[n - 1]>> \in (1..N) \X S
    BY <1>2
  <2> QED BY <1>2, <2>1 DEF Follows
<1>3. 0..N \subseteq T
  <2> HIDE DEF T
  <2> QED BY <1>1, <1>2, IntervalInduction
<1> QED BY <1>3

-----------------------------------------------------------------------------
(* Arithmetic modulo U, for any U: the integers of the code wrap around.    *)

LEMMA Division ==
  ASSUME NEW U \in Nat \ {0}, NEW a \in Int
  PROVE  a % U \in 0..(U - 1) /\ a \div U \in Int /\ a = U * (a \div U) + (a % U)
<1>1. a % U \in 0..(U - 1)
  OBVIOUS
<1>2. a \div U \in Int
  OBVIOUS
<1>3. a = U * (a \div U) + (a % U)
  OBVIOUS
<1> QED BY <1>1, <1>2, <1>3

(* A multiple of a number is not less than the number. *)
LEMMA Multiple ==
  ASSUME NEW U \in Nat \ {0}, NEW k \in Int, k >= 1
  PROVE  U * k >= U
  OBVIOUS

(* Quotient and remainder are determined. *)
LEMMA DivisionUnique ==
  ASSUME NEW U \in Nat \ {0}, NEW q \in Int, NEW r \in 0..(U - 1),
         NEW p \in Int, NEW s \in 0..(U - 1), U * q + r = U * p + s
  PROVE  q = p /\ r = s
<1>1. U * (q - p) = s - r /\ U * (p - q) = r - s
  OBVIOUS
<1>2. ~(q - p >= 1)
  <2>1. q - p >= 1 => U * (q - p) >= U
    BY Multiple
  <2> QED BY <1>1, <2>1
<1>3. ~(p - q >= 1)
  <2>1. p - q >= 1 => U * (p - q) >= U
    BY Multiple
  <2> QED BY <1>1, <2>1
<1>4. q = p
  BY <1>2, <1>3
<1> QED BY <1>4

(* They are what % and \div give. *)
LEMMA RemainderIs ==
  ASSUME NEW U \in Nat \ {0}, NEW q \in Int, NEW r \in 0..(U - 1)
  PROVE  (U * q + r) % U = r /\ (U * q + r) \div U = q
<1> DEFINE a == U * q + r
           m == a % U
           d == a \div U
<1>1. a \in Int
  OBVIOUS
<1>2. U * d + m = U * q + r /\ m \in 0..(U - 1) /\ d \in Int
  BY <1>1, Division
<1> HIDE DEF m, d
<1>3. m = r /\ d = q
  BY <1>2, DivisionUnique
<1> QED BY <1>3 DEF m, d

(* A sum may be reduced before a term is added. *)
LEMMA RemainderOfSum ==
  ASSUME NEW U \in Nat \ {0}, NEW a \in Int, NEW b \in Int
  PROVE  ((a % U) + b) % U = (a + b) % U
<1> DEFINE m == a % U
           d == a \div U
           x == (m + b) % U
           y == (m + b) \div U
<1>1. m \in 0..(U - 1) /\ d \in Int /\ a = U * d + m
  BY Division
<1>2. x \in 0..(U - 1) /\ y \in Int /\ m + b = U * y + x
  <2>1. m + b \in Int
    BY <1>1
  <2> HIDE DEF m, d
  <2> QED BY <2>1, Division
<1> HIDE DEF m, d, x, y
<1>3. a + b = U * (d + y) + x
  <2>1. a + b = U * d + (U * y + x)
    BY <1>1, <1>2
  <2>2. U * d + U * y = U * (d + y)
    BY <1>1, <1>2
  <2> QED BY <1>1, <1>2, <2>1, <2>2
<1>4. (a + b) % U = x
  <2>1. d + y \in Int
    BY <1>1, <1>2
  <2> QED BY <1>2, <1>3, <2>1, RemainderIs
<1> QED BY <1>4 DEF x, m

(* A remainder is not greater than the number, and a multiple of U that is  *)
(* not 0 is not smaller than U.                                             *)
LEMMA RemainderBounds ==
  ASSUME NEW U \in Nat \ {0}, NEW a \in Nat
  PROVE  a % U <= a /\ (a % U = 0 /\ a # 0 => a >= U)
<1> DEFINE m == a % U
           d == a \div U
<1>1. m \in 0..(U - 1) /\ d \in Int /\ a = U * d + m
  BY Division
<1> HIDE DEF m, d
<1>2. d >= 0
  <2>1. 0 - d >= 1 => U * (0 - d) >= U
    <3>1. 0 - d \in Int
      BY <1>1
    <3> QED BY <3>1, Multiple
  <2>2. U * (0 - d) = 0 - U * d
    BY <1>1
  <2> QED BY <1>1, <2>1, <2>2
<1>3. U * d >= 0
  BY <1>1, <1>2
<1>4. m <= a
  BY <1>1, <1>3
<1>5. ASSUME m = 0, a # 0 PROVE a >= U
  <2>1. d >= 1
    <3>1. d # 0
      BY <1>1, <1>5
    <3> QED BY <1>1, <1>2, <3>1
  <2> QED BY <1>1, <1>5, <2>1, Multiple
<1> QED BY <1>4, <1>5 DEF m

-----------------------------------------------------------------------------
(* Sums of integers.                                                        *)

(* The sum of f[1..n]. *)
Total(f, n) ==
    LET sum[k \in 0..n] == IF k = 0 THEN 0 ELSE sum[k - 1] + f[k]
    IN  sum[n]

(* The running totals of a sequence exist. *)
LEMMA RunningTotal ==
  ASSUME NEW N \in Nat, NEW f, \A k \in 1..N : f[k] \in Int
  PROVE  \E s \in [0..N -> Int] : /\ s[0] = 0
                                  /\ \A k \in 1..N : s[k] = s[k - 1] + f[k]
<1> DEFINE F == [x \in (1..N) \X Int |-> x[2] + f[x[1]]]
<1>1. F \in [(1..N) \X Int -> Int]
  OBVIOUS
<1>2. \A k \in 1..N, i \in Int : F[<<k, i>>] = i + f[k]
  OBVIOUS
<1>3. 0 \in Int
  OBVIOUS
<1> HIDE DEF F
<1>4. PICK s \in [0..N -> Int] : Solves(s, N, 0, F)
  BY <1>1, <1>3, RecursionExists
<1>5. \A k \in 1..N : k - 1 \in 0..N
  OBVIOUS
<1>6. \A k \in 1..N : s[k - 1] \in Int
  BY <1>5
<1> QED BY <1>2, <1>4, <1>6 DEF Solves

(* The recursive sum is the last of the running totals. *)
LEMMA TotalIs ==
  ASSUME NEW n \in Nat, NEW f, NEW s \in [0..n -> Int],
         s[0] = 0, \A k \in 1..n : s[k] = s[k - 1] + f[k]
  PROVE  Total(f, n) = s[n]
<1> DEFINE Is(r) == r = [k \in 0..n |-> IF k = 0 THEN 0 ELSE r[k - 1] + f[k]]
           sum == CHOOSE r : Is(r)
           T == {k \in 0..n : sum[k] = s[k]}
<1>1. Is(s)
  OBVIOUS
<1>2. Is(sum)
  <2> HIDE DEF Is
  <2> QED BY <1>1
<1>3. sum[0] = 0 /\ \A k \in 1..n : sum[k] = sum[k - 1] + f[k]
  <2> HIDE DEF sum
  <2>1. sum = [k \in 0..n |-> IF k = 0 THEN 0 ELSE sum[k - 1] + f[k]]
    BY <1>2
  <2>2. 0 \in 0..n /\ \A k \in 1..n : k \in 0..n /\ k # 0
    OBVIOUS
  <2> HIDE DEF Is
  <2> QED BY <2>1, <2>2
<1>4. Total(f, n) = sum[n]
  BY DEF Total
<1> HIDE DEF sum
<1>5. 0 \in T
  BY <1>3
<1>6. \A k \in 1..n : k - 1 \in T => k \in T
  BY <1>3
<1>7. n \in T
  <2> HIDE DEF T
  <2>1. 0..n \subseteq T
    BY <1>5, <1>6, IntervalInduction
  <2> QED BY <2>1
<1> QED BY <1>4, <1>7

(* The sum is built up term by term. *)
LEMMA TotalSteps ==
  ASSUME NEW N \in Nat, NEW f, \A k \in 1..N : f[k] \in Int
  PROVE  /\ Total(f, 0) = 0
         /\ \A n \in 0..N : Total(f, n) \in Int
         /\ \A n \in 1..N : Total(f, n) = Total(f, n - 1) + f[n]
<1>1. PICK s \in [0..N -> Int] : /\ s[0] = 0
                                 /\ \A k \in 1..N : s[k] = s[k - 1] + f[k]
  BY RunningTotal
<1>2. ASSUME NEW n \in 0..N PROVE Total(f, n) = s[n]
  <2> DEFINE r == [k \in 0..n |-> s[k]]
  <2>1. r \in [0..n -> Int] /\ r[0] = 0 /\ \A k \in 1..n : r[k] = r[k - 1] + f[k]
    <3>1. n \in Nat /\ \A k \in 0..n : k \in 0..N
      OBVIOUS
    <3>2. \A k \in 1..n : k \in 1..N /\ k \in 0..n /\ k - 1 \in 0..n
      OBVIOUS
    <3> QED BY <1>1, <3>1, <3>2
  <2>2. r[n] = s[n]
    OBVIOUS
  <2>3. n \in Nat
    OBVIOUS
  <2> HIDE DEF r
  <2>4. Total(f, n) = r[n]
    BY <2>1, <2>3, TotalIs
  <2> QED BY <2>2, <2>4
<1>3. \A n \in 1..N : n \in 0..N /\ n - 1 \in 0..N
  OBVIOUS
<1>4. 0 \in 0..N
  OBVIOUS
<1> QED BY <1>1, <1>2, <1>3, <1>4

(* A relation between two sums that holds for no terms and is kept by each  *)
(* term: equal terms give equal sums, and smaller terms a smaller sum.      *)
LEMMA TotalSame ==
  ASSUME NEW N \in Nat, NEW f, NEW g, \A k \in 1..N : f[k] \in Int /\ g[k] = f[k]
  PROVE  Total(g, N) = Total(f, N)
<1> DEFINE T == {n \in 0..N : Total(g, n) = Total(f, n)}
<1>1. /\ Total(f, 0) = 0 /\ Total(g, 0) = 0
      /\ \A n \in 1..N : Total(f, n) = Total(f, n - 1) + f[n]
      /\ \A n \in 1..N : Total(g, n) = Total(g, n - 1) + g[n]
  BY TotalSteps
<1>2. 0 \in T /\ \A n \in 1..N : n - 1 \in T => n \in T
  BY <1>1
<1>3. N \in T
  <2> HIDE DEF T
  <2>1. 0..N \subseteq T
    BY <1>2, IntervalInduction
  <2> QED BY <2>1
<1> QED BY <1>3

(* A sum of larger numbers is not smaller. *)
LEMMA TotalMonotone ==
  ASSUME NEW N \in Nat, NEW f, NEW g,
         \A k \in 1..N : f[k] \in Int /\ g[k] \in Int /\ f[k] <= g[k]
  PROVE  Total(f, N) <= Total(g, N)
<1> DEFINE T == {n \in 0..N : Total(f, n) <= Total(g, n)}
<1>1. /\ Total(f, 0) = 0 /\ Total(g, 0) = 0
      /\ \A n \in 0..N : Total(f, n) \in Int
      /\ \A n \in 0..N : Total(g, n) \in Int
      /\ \A n \in 1..N : Total(f, n) = Total(f, n - 1) + f[n]
      /\ \A n \in 1..N : Total(g, n) = Total(g, n - 1) + g[n]
  BY TotalSteps
<1>2. ASSUME NEW n \in 1..N, n - 1 \in T PROVE n \in T
  <2>1. n - 1 \in 0..N /\ n \in 0..N
    OBVIOUS
  <2>2. Total(f, n - 1) <= Total(g, n - 1)
    BY <1>2
  <2>3. Total(f, n) <= Total(g, n)
    BY <1>1, <2>1, <2>2
  <2> QED BY <2>1, <2>3
<1>3. 0 \in T
  BY <1>1
<1>4. N \in T
  <2> HIDE DEF T
  <2>1. 0..N \subseteq T
    BY <1>2, <1>3, IntervalInduction
  <2> QED BY <2>1
<1> QED BY <1>4

(* The sum of sums. *)
LEMMA TotalPlus ==
  ASSUME NEW N \in Nat, NEW f, NEW g, NEW h,
         \A k \in 1..N : f[k] \in Int /\ g[k] \in Int /\ h[k] = f[k] + g[k]
  PROVE  Total(h, N) = Total(f, N) + Total(g, N)
<1> DEFINE T == {n \in 0..N : Total(h, n) = Total(f, n) + Total(g, n)}
<1>1. /\ Total(f, 0) = 0 /\ Total(g, 0) = 0 /\ Total(h, 0) = 0
      /\ \A n \in 0..N : Total(f, n) \in Int
      /\ \A n \in 0..N : Total(g, n) \in Int
      /\ \A n \in 1..N : Total(f, n) = Total(f, n - 1) + f[n]
      /\ \A n \in 1..N : Total(g, n) = Total(g, n - 1) + g[n]
      /\ \A n \in 1..N : Total(h, n) = Total(h, n - 1) + h[n]
  <2>1. \A k \in 1..N : h[k] \in Int
    OBVIOUS
  <2> QED BY <2>1, TotalSteps
<1>2. ASSUME NEW n \in 1..N, n - 1 \in T PROVE n \in T
  <2>1. n - 1 \in 0..N /\ n \in 0..N
    OBVIOUS
  <2>2. Total(h, n - 1) = Total(f, n - 1) + Total(g, n - 1)
    BY <1>2
  <2>3. Total(h, n) = Total(f, n) + Total(g, n)
    BY <1>1, <2>1, <2>2
  <2> QED BY <2>1, <2>3
<1>3. 0 \in T
  BY <1>1
<1>4. N \in T
  <2> HIDE DEF T
  <2>1. 0..N \subseteq T
    BY <1>2, <1>3, IntervalInduction
  <2> QED BY <2>1
<1> QED BY <1>4

(* The sum of f, without its term at m. *)
LEMMA TotalWithout ==
  ASSUME NEW N \in Nat \ {0}, NEW f, \A k \in 1..N : f[k] \in Int,
         NEW m \in 1..N, NEW g,
         \A k \in 1..(N - 1) : g[k] = IF k < m THEN f[k] ELSE f[k + 1]
  PROVE  Total(g, N - 1) = Total(f, N) - f[m]
<1> DEFINE M == N - 1
           T == {n \in 0..M : Total(g, n) = IF n < m THEN Total(f, n)
                                            ELSE Total(f, n + 1) - f[m]}
<1>1. M \in Nat /\ N = M + 1 /\ \A k \in 1..M : k \in 1..N /\ k + 1 \in 1..N
  OBVIOUS
<1>2. \A k \in 1..M : g[k] \in Int
  BY <1>1
<1> HIDE DEF M
<1>3. /\ Total(f, 0) = 0 /\ Total(g, 0) = 0
      /\ \A n \in 0..N : Total(f, n) \in Int
      /\ \A n \in 0..M : Total(g, n) \in Int
      /\ \A n \in 1..N : Total(f, n) = Total(f, n - 1) + f[n]
      /\ \A n \in 1..M : Total(g, n) = Total(g, n - 1) + g[n]
  BY <1>1, <1>2, TotalSteps
<1>4. 0 \in T
  BY <1>1, <1>3
<1>5. ASSUME NEW n \in 1..M, n - 1 \in T PROVE n \in T
  <2>1. /\ n \in Int /\ n \in 0..M /\ n - 1 \in 0..M
        /\ n \in 1..N /\ n + 1 \in 1..N /\ (n + 1) - 1 = n /\ (n - 1) + 1 = n
        /\ n - 1 \in 0..N /\ n \in 0..N /\ n + 1 \in 0..N
    BY <1>1
  <2>2. Total(g, n) = Total(g, n - 1) + g[n]
    BY <1>3
  <2>3. Total(f, n + 1) = Total(f, n) + f[n + 1] /\ Total(f, n) = Total(f, n - 1) + f[n]
    BY <1>3, <2>1
  <2>4. f[n] \in Int /\ f[n + 1] \in Int /\ f[m] \in Int
    BY <2>1
  <2>5. Total(f, n) \in Int /\ Total(f, n - 1) \in Int
    BY <1>3, <2>1
  <2>6. CASE n < m
    <3>1. Total(g, n - 1) = Total(f, n - 1) /\ g[n] = f[n]
      BY <1>1, <1>5, <2>1, <2>6 DEF M
    <3>2. Total(g, n) = Total(f, n)
      BY <2>2, <2>3, <3>1
    <3> QED BY <2>1, <2>6, <3>2
  <2>7. CASE n = m
    <3>1. Total(g, n - 1) = Total(f, n - 1) /\ g[n] = f[n + 1]
      BY <1>1, <1>5, <2>1, <2>7 DEF M
    <3>2. Total(g, n) = Total(f, n + 1) - f[m]
      BY <2>2, <2>3, <2>4, <2>5, <2>7, <3>1
    <3> QED BY <2>1, <2>7, <3>2
  <2>8. CASE n > m
    <3>1. Total(g, n - 1) = Total(f, n) - f[m] /\ g[n] = f[n + 1]
      BY <1>1, <1>5, <2>1, <2>8 DEF M
    <3>2. Total(g, n) = Total(f, n + 1) - f[m]
      BY <2>2, <2>3, <2>4, <2>5, <3>1
    <3> QED BY <2>1, <2>8, <3>2
  <2> QED BY <2>1, <2>6, <2>7, <2>8
<1>6. M \in T
  <2> HIDE DEF T
  <2>1. 0..M \subseteq T
    BY <1>1, <1>4, <1>5, IntervalInduction
  <2> QED BY <1>1, <2>1
<1>7. Total(g, M) = IF M < m THEN Total(f, M) ELSE Total(f, N) - f[m]
  BY <1>1, <1>6
<1>8. M < m => m = N /\ Total(f, M) = Total(f, N) - f[m]
  <2>1. N \in 1..N /\ N - 1 = M /\ M \in 0..N
    BY <1>1
  <2>2. Total(f, N) = Total(f, M) + f[N] /\ Total(f, M) \in Int /\ f[N] \in Int
    BY <1>3, <2>1
  <2> QED BY <1>1, <2>2
<1> QED BY <1>7, <1>8 DEF M

(* The sum of f followed by g. *)
LEMMA TotalConcat ==
  ASSUME NEW M \in Nat, NEW N \in Nat, NEW L, L = M + N, NEW f, NEW g, NEW h,
         \A k \in 1..M : f[k] \in Int /\ h[k] = f[k],
         \A k \in 1..N : g[k] \in Int /\ h[M + k] = g[k]
  PROVE  Total(h, L) = Total(f, M) + Total(g, N)
<1> DEFINE T == {n \in 0..N : Total(h, M + n) = Total(f, M) + Total(g, n)}
<1>1. M + N \in Nat /\ \A k \in 1..(M + N) : h[k] \in Int
  <2>1. \A k \in 1..(M + N) : k \in 1..M \/ (k - M \in 1..N /\ M + (k - M) = k)
    OBVIOUS
  <2> QED BY <2>1
<1>2. /\ \A n \in 1..(M + N) : Total(h, n) = Total(h, n - 1) + h[n]
      /\ Total(h, M) \in Int
  BY <1>1, TotalSteps
<1>3. /\ Total(g, 0) = 0
      /\ \A n \in 0..N : Total(g, n) \in Int
      /\ \A n \in 1..N : Total(g, n) = Total(g, n - 1) + g[n]
  BY TotalSteps
<1>4. Total(h, M) = Total(f, M)
  BY TotalSame
<1>5. 0 \in T
  BY <1>2, <1>3, <1>4
<1>6. ASSUME NEW n \in 1..N, n - 1 \in T PROVE n \in T
  <2>1. M + n \in 1..(M + N) /\ (M + n) - 1 = M + (n - 1) /\ n - 1 \in 0..N /\ n \in 0..N
    OBVIOUS
  <2>2. Total(h, M + n) = Total(h, M + (n - 1)) + h[M + n]
    BY <1>2, <2>1
  <2>3. Total(h, M + (n - 1)) = Total(f, M) + Total(g, n - 1)
    BY <1>6
  <2>4. h[M + n] = g[n] /\ g[n] \in Int /\ Total(g, n - 1) \in Int /\ Total(f, M) \in Int
    BY <1>2, <1>3, <1>4, <2>1
  <2>5. Total(g, n) = Total(g, n - 1) + g[n]
    BY <1>3
  <2>6. Total(h, M + n) = Total(f, M) + Total(g, n)
    <3> DEFINE a == Total(h, M + n)
               b == Total(f, M)
               c == Total(g, n - 1)
    <3> HIDE DEF a, b, c
    <3>1. a = (b + c) + g[n] /\ b \in Int /\ c \in Int /\ g[n] \in Int
      BY <2>2, <2>3, <2>4 DEF a, b, c
    <3>2. a = b + (c + g[n])
      BY <3>1
    <3> QED BY <2>5, <3>2 DEF a, b, c
  <2> QED BY <2>1, <2>6
<1>7. N \in T
  <2> HIDE DEF T
  <2>1. 0..N \subseteq T
    BY <1>5, <1>6, IntervalInduction
  <2> QED BY <2>1
<1> QED BY <1>7

(* A sum of numbers that are not negative grows with every term. *)
LEMMA TotalPrefix ==
  ASSUME NEW N \in Nat, NEW f, \A k \in 1..N : f[k] \in Nat, NEW m \in 0..N
  PROVE  Total(f, m) <= Total(f, N)
<1> DEFINE M == N - m
           T == {n \in 0..M : Total(f, m) <= Total(f, m + n)}
<1>1. /\ \A n \in 0..N : Total(f, n) \in Int
      /\ \A n \in 1..N : Total(f, n) = Total(f, n - 1) + f[n]
  <2>1. \A k \in 1..N : f[k] \in Int
    OBVIOUS
  <2> QED BY <2>1, TotalSteps
<1>2. M \in Nat /\ m + 0 = m /\ m + M = N
  OBVIOUS
<1>3. 0 \in T
  BY <1>1, <1>2
<1>4. ASSUME NEW n \in 1..M, n - 1 \in T PROVE n \in T
  <2>1. m + n \in 1..N /\ (m + n) - 1 = m + (n - 1) /\ m + (n - 1) \in 0..N /\ m + n \in 0..N
    OBVIOUS
  <2>2. Total(f, m + n) = Total(f, m + (n - 1)) + f[m + n] /\ f[m + n] \in Nat
    BY <1>1, <2>1
  <2>3. Total(f, m) <= Total(f, m + (n - 1))
    BY <1>4
  <2>4. Total(f, m) \in Int /\ Total(f, m + (n - 1)) \in Int
    BY <1>1, <2>1
  <2> DEFINE a == Total(f, m)
             b == Total(f, m + (n - 1))
             c == f[m + n]
             d == Total(f, m + n)
  <2>5. a \in Int /\ b \in Int /\ c \in Nat /\ a <= b /\ d = b + c
    BY <2>2, <2>3, <2>4
  <2>6. n \in 0..M
    OBVIOUS
  <2> HIDE DEF a, b, c, d
  <2>7. a <= d
    BY <2>5
  <2> QED BY <2>6, <2>7 DEF a, d
<1>5. M \in T
  <2> HIDE DEF T
  <2>1. 0..M \subseteq T
    BY <1>2, <1>3, <1>4, IntervalInduction
  <2> QED BY <1>2, <2>1
<1> QED BY <1>2, <1>5

=============================================================================
