---------------------------- MODULE SessionProofs ----------------------------
(***************************************************************************)
(* Theorems about sessions in which no blockchain file is loaded: the      *)
(* coins there are, the places of the entries that a block spends, and the *)
(* entries the list has of each output hash.                               *)
(* What a pending transaction refers to is then in the list of unspent     *)
(* outputs, once for each input of the pool that refers to it.             *)
(***************************************************************************)
EXTENDS CliProofs

-----------------------------------------------------------------------------
(* A sum in uint32_t arithmetic is the sum, reduced at the end. *)
LEMMA Sum32IsTotal ==
  ASSUME NEW N \in Nat, NEW f, \A k \in 1..N : f[k] \in Int
  PROVE  Sum32(f, N) = Total(f, N) % UINT32
<1> DEFINE s == [n \in 0..N |-> Total(f, n) % UINT32]
           Is(r) == r = [k \in 0..N |-> IF k = 0 THEN 0
                                        ELSE (r[k - 1] + f[k]) % UINT32]
           sum == CHOOSE r : Is(r)
           T == {k \in 0..N : sum[k] = Total(f, k) % UINT32}
<1>1. /\ Total(f, 0) = 0
      /\ \A n \in 0..N : Total(f, n) \in Int
      /\ \A n \in 1..N : Total(f, n) = Total(f, n - 1) + f[n]
  BY TotalSteps
<1>2. UINT32 \in Nat \ {0} /\ 0 % UINT32 = 0
  BY AmountAssumption
<1>3. ASSUME NEW n \in 1..N
      PROVE  Total(f, n) % UINT32 = ((Total(f, n - 1) % UINT32) + f[n]) % UINT32
  <2> DEFINE a == Total(f, n - 1)
             b == f[n]
  <2>1. a \in Int /\ b \in Int /\ Total(f, n) = a + b
    <3>1. n - 1 \in 0..N
      OBVIOUS
    <3> QED BY <1>1, <3>1
  <2> HIDE DEF a, b
  <2>2. ((a % UINT32) + b) % UINT32 = (a + b) % UINT32
    BY <1>2, <2>1, RemainderOfSum
  <2> QED BY <2>1, <2>2 DEF a, b
<1>4. Is(s)
  <2>1. \A k \in 1..N : k - 1 \in 0..N
    OBVIOUS
  <2>2. \A k \in 0..N : s[k] = IF k = 0 THEN 0 ELSE (s[k - 1] + f[k]) % UINT32
    <3> SUFFICES ASSUME NEW k \in 0..N
                 PROVE  s[k] = IF k = 0 THEN 0 ELSE (s[k - 1] + f[k]) % UINT32
      OBVIOUS
    <3>1. CASE k = 0
      BY <1>1, <1>2, <3>1
    <3>2. CASE k # 0
      <4>1. k \in 1..N /\ s[k - 1] = Total(f, k - 1) % UINT32
        BY <2>1, <3>2
      <4>2. s[k] = Total(f, k) % UINT32
        OBVIOUS
      <4> HIDE DEF s
      <4> QED BY <1>3, <3>2, <4>1, <4>2
    <3> QED BY <3>1, <3>2
  <2>3. s = [k \in 0..N |-> s[k]]
    OBVIOUS
  <2> HIDE DEF s
  <2> QED BY <2>2, <2>3
<1>5. Is(sum)
  <2> HIDE DEF Is, s
  <2> QED BY <1>4
<1>6. sum[0] = 0 /\ \A k \in 1..N : sum[k] = (sum[k - 1] + f[k]) % UINT32
  <2> HIDE DEF sum
  <2>1. sum = [k \in 0..N |-> IF k = 0 THEN 0 ELSE (sum[k - 1] + f[k]) % UINT32]
    BY <1>5
  <2>2. 0 \in 0..N /\ \A k \in 1..N : k \in 0..N /\ k # 0
    OBVIOUS
  <2> HIDE DEF Is
  <2> QED BY <2>1, <2>2
<1>7. Sum32(f, N) = sum[N]
  BY DEF Sum32
<1> HIDE DEF sum
<1>8. 0 \in T
  BY <1>1, <1>2, <1>6
<1>9. \A n \in 1..N : n - 1 \in T => n \in T
  <2> SUFFICES ASSUME NEW n \in 1..N, n - 1 \in T PROVE n \in T
    OBVIOUS
  <2>1. sum[n - 1] = Total(f, n - 1) % UINT32 /\ n \in 0..N
    OBVIOUS
  <2>2. sum[n] = Total(f, n) % UINT32
    BY <1>3, <1>6, <2>1
  <2> QED BY <2>1, <2>2
<1>10. N \in T
  <2> HIDE DEF T
  <2>1. 0..N \subseteq T
    BY <1>8, <1>9, IntervalInduction
  <2> QED BY <2>1
<1> QED BY <1>7, <1>10

-----------------------------------------------------------------------------
(* Sums over lists.                                                         *)

(* The sum of the weights of the elements of a list. *)
Weight(w, list) == Total([i \in 1..Len(list) |-> w[list[i]]], Len(list))

(* The weight of a list is a number. *)
LEMMA WeightType ==
  ASSUME NEW E, NEW w \in [E -> Int], NEW list \in Seq(E)
  PROVE  Weight(w, list) \in Int
<1> DEFINE f == [i \in 1..Len(list) |-> w[list[i]]]
<1>1. Len(list) \in Nat /\ \A i \in 1..Len(list) : f[i] \in Int
  OBVIOUS
<1>2. Len(list) \in 0..Len(list)
  BY <1>1
<1> HIDE DEF f
<1>3. Total(f, Len(list)) \in Int
  BY <1>1, <1>2, TotalSteps
<1> QED BY <1>3 DEF Weight, f

(* It grows with the weights of the entries. *)
LEMMA WeightLess ==
  ASSUME NEW E, NEW w \in [E -> Int], NEW v \in [E -> Int], NEW list \in Seq(E),
         \A e \in E : w[e] <= v[e]
  PROVE  Weight(w, list) <= Weight(v, list)
<1> DEFINE f == [i \in 1..Len(list) |-> w[list[i]]]
           g == [i \in 1..Len(list) |-> v[list[i]]]
<1>1. Len(list) \in Nat
  OBVIOUS
<1>2. \A i \in 1..Len(list) : f[i] \in Int /\ g[i] \in Int /\ f[i] <= g[i]
  OBVIOUS
<1> HIDE DEF f, g
<1>3. Total(f, Len(list)) <= Total(g, Len(list))
  BY <1>1, <1>2, TotalMonotone
<1> QED BY <1>3 DEF Weight, f, g

(* It is 0 when nothing in the list weighs anything. *)
LEMMA WeightZero ==
  ASSUME NEW E, NEW w, NEW list \in Seq(E), \A i \in 1..Len(list) : w[list[i]] = 0
  PROVE  Weight(w, list) = 0
<1> DEFINE f == [i \in 1..Len(list) |-> w[list[i]]]
           T == {n \in 0..Len(list) : Total(f, n) = 0}
<1>1. Len(list) \in Nat /\ \A i \in 1..Len(list) : f[i] = 0
  OBVIOUS
<1> HIDE DEF f
<1>2. /\ Total(f, 0) = 0
      /\ \A n \in 1..Len(list) : Total(f, n) = Total(f, n - 1) + f[n]
  <2>1. \A k \in 1..Len(list) : f[k] \in Int
    BY <1>1
  <2> QED BY <1>1, <2>1, TotalSteps
<1>3. 0 \in T /\ \A n \in 1..Len(list) : n - 1 \in T => n \in T
  BY <1>1, <1>2
<1>4. Len(list) \in T
  <2> HIDE DEF T
  <2>1. 0..Len(list) \subseteq T
    BY <1>1, <1>3, IntervalInduction
  <2> QED BY <1>1, <2>1
<1> QED BY <1>4 DEF Weight, f

(* An element that leaves a list takes its weight with it. *)
LEMMA WeightWithout ==
  ASSUME NEW E, NEW w \in [E -> Int], NEW list \in Seq(E), NEW m \in 1..Len(list)
  PROVE  Weight(w, WithoutNode(list, m)) = Weight(w, list) - w[list[m]]
<1> DEFINE N == Len(list)
           rest == WithoutNode(list, m)
           f == [i \in 1..N |-> w[list[i]]]
           g == [i \in 1..Len(rest) |-> w[rest[i]]]
<1>1. N \in Nat \ {0} /\ \A i \in 1..N : f[i] \in Int
  OBVIOUS
<1>2. /\ rest \in Seq(E) /\ Len(rest) = N - 1
      /\ \A j \in 1..(N - 1) : rest[j] = IF j < m THEN list[j] ELSE list[j + 1]
  BY WithoutNodeType
<1>3. \A k \in 1..(N - 1) : g[k] = IF k < m THEN f[k] ELSE f[k + 1]
  <2> HIDE DEF rest
  <2>1. \A k \in 1..(N - 1) : k \in 1..N /\ k + 1 \in 1..N
    BY <1>1
  <2> QED BY <1>2, <2>1
<1>4. Total(g, N - 1) = Total(f, N) - f[m]
  <2> HIDE DEF f, g, N
  <2>1. m \in 1..N
    BY DEF N
  <2> QED BY <1>1, <1>3, <2>1, TotalWithout
<1> QED BY <1>2, <1>4 DEF Weight

(* The weights of two parts add up. *)
LEMMA WeightConcat ==
  ASSUME NEW E, NEW w \in [E -> Int], NEW a \in Seq(E), NEW b \in Seq(E)
  PROVE  Weight(w, a \o b) = Weight(w, a) + Weight(w, b)
<1> DEFINE M == Len(a)
           N == Len(b)
           f == [i \in 1..M |-> w[a[i]]]
           g == [i \in 1..N |-> w[b[i]]]
           h == [i \in 1..Len(a \o b) |-> w[(a \o b)[i]]]
<1>1. /\ M \in Nat /\ N \in Nat /\ Len(a \o b) = M + N
      /\ \A i \in 1..M : i \in 1..(M + N) /\ (a \o b)[i] = a[i]
      /\ \A i \in 1..N : M + i \in 1..(M + N) /\ (a \o b)[M + i] = b[i]
  OBVIOUS
<1>2. /\ \A i \in 1..M : f[i] \in Int /\ h[i] = f[i]
      /\ \A i \in 1..N : g[i] \in Int /\ h[M + i] = g[i]
  <2>1. \A i \in 1..M : f[i] \in Int /\ h[i] = f[i]
    BY <1>1
  <2>2. \A i \in 1..N : g[i] \in Int /\ h[M + i] = g[i]
    BY <1>1
  <2> QED BY <2>1, <2>2
<1>3. Total(h, Len(a \o b)) = Total(f, M) + Total(g, N)
  <2>1. M \in Nat /\ N \in Nat /\ Len(a \o b) = M + N
    BY <1>1
  <2>2. \A k \in 1..M : f[k] \in Int /\ h[k] = f[k]
    BY <1>2
  <2>3. \A k \in 1..N : g[k] \in Int /\ h[M + k] = g[k]
    BY <1>2
  <2> HIDE DEF f, g, h, M, N
  <2> QED BY <2>1, <2>2, <2>3, TotalConcat, SMTT(30)
<1> QED BY <1>1, <1>3 DEF Weight

(* An entry that is appended adds its weight. *)
LEMMA WeightAppend ==
  ASSUME NEW E, NEW w \in [E -> Int], NEW list \in Seq(E), NEW e \in E
  PROVE  Weight(w, Append(list, e)) = Weight(w, list) + w[e]
<1> DEFINE f == [i \in 1..1 |-> w[e]]
<1>1. Append(list, e) = list \o <<e>> /\ <<e>> \in Seq(E)
  OBVIOUS
<1>2. Weight(w, <<e>>) = w[e]
  <2> DEFINE g == [i \in 1..Len(<<e>>) |-> w[<<e>>[i]]]
  <2>1. g[1] = w[e] /\ w[e] \in Int /\ \A k \in 1..1 : g[k] \in Int
    OBVIOUS
  <2> HIDE DEF g
  <2>2. Total(g, 0) = 0 /\ \A n \in 1..1 : Total(g, n) = Total(g, n - 1) + g[n]
    BY <2>1, TotalSteps
  <2>3. Total(g, 1) = g[1]
    BY <2>1, <2>2
  <2> QED BY <2>1, <2>3 DEF Weight, g
<1>3. Weight(w, list \o <<e>>) = Weight(w, list) + Weight(w, <<e>>)
  BY <1>1, WeightConcat
<1> QED BY <1>1, <1>2, <1>3

(* Sequences with the same elements at the same places. *)
LEMMA SameSequence ==
  ASSUME NEW E, NEW a \in Seq(E), NEW b \in Seq(E), Len(a) = Len(b),
         \A j \in 1..Len(a) : a[j] = b[j]
  PROVE  a = b
  OBVIOUS

(* Sorting keeps the weight: each turn inserts one more element. *)
LEMMA WeightInsert ==
  ASSUME NEW E, NEW w \in [E -> Int], NEW list \in Seq(E), NEW e \in E
  PROVE  Weight(w, InsertByAmount(list, e)) = Weight(w, list) + w[e]
<1> DEFINE N == Len(list)
           longer == InsertByAmount(list, e)
<1>1. longer \in Seq(E) /\ N \in Nat
  BY InsertType
<1>2. Len(longer) = N + 1
  BY InsertPlace
<1>3. PICK p \in 0..N : \A j \in 1..(N + 1) :
         longer[j] = IF j <= p THEN list[j] ELSE IF j = p + 1 THEN e ELSE list[j - 1]
  BY InsertPlace
<1> HIDE DEF longer
<1> DEFINE m == p + 1
<1>4. m \in 1..Len(longer) /\ longer[m] = e
  BY <1>1, <1>2, <1>3
<1>5. WithoutNode(longer, m) = list
  <2>1. /\ WithoutNode(longer, m) \in Seq(E)
        /\ Len(WithoutNode(longer, m)) = N
        /\ \A j \in 1..N : WithoutNode(longer, m)[j]
                              = IF j < m THEN longer[j] ELSE longer[j + 1]
    <3>1. (N + 1) - 1 = N
      BY <1>1
    <3> HIDE DEF m
    <3> QED BY <1>1, <1>2, <1>4, <3>1, WithoutNodeType
  <2>2. \A j \in 1..N : (IF j < m THEN longer[j] ELSE longer[j + 1]) = list[j]
    <3> SUFFICES ASSUME NEW j \in 1..N
                 PROVE  (IF j < m THEN longer[j] ELSE longer[j + 1]) = list[j]
      OBVIOUS
    <3>1. j \in 1..(N + 1) /\ j + 1 \in 1..(N + 1) /\ (j + 1) - 1 = j
      BY <1>1
    <3>2. CASE j < m
      BY <1>3, <3>1, <3>2
    <3>3. CASE ~(j < m)
      BY <1>3, <3>1, <3>3
    <3> QED BY <3>2, <3>3
  <2> DEFINE rest == WithoutNode(longer, m)
  <2>3. rest \in Seq(E) /\ Len(rest) = Len(list) /\ \A j \in 1..Len(rest) : rest[j] = list[j]
    BY <2>1, <2>2
  <2> HIDE DEF rest
  <2>4. rest = list
    BY <2>3, SameSequence
  <2> QED BY <2>4 DEF rest
<1>6. Weight(w, list) = Weight(w, longer) - w[e]
  <2> HIDE DEF m
  <2> QED BY <1>1, <1>4, <1>5, WeightWithout
<1>7. Weight(w, longer) \in Int /\ w[e] \in Int
  BY <1>1, WeightType
<1> QED BY <1>6, <1>7 DEF longer

(* The list that list has sorted weighs the same. *)
LEMMA WeightSort ==
  ASSUME NEW E, NEW w \in [E -> Int], NEW list \in Seq(E)
  PROVE  Weight(w, SortByAmount(list)) = Weight(w, list)
<1> DEFINE N == Len(list)
           f == [i \in 1..N |-> w[list[i]]]
<1>1. PICK run \in [0..N -> Seq(E)] :
            /\ run[0] = <<>>
            /\ \A n \in 1..N : run[n] = InsertByAmount(run[n - 1], list[n])
            /\ SortByAmount(list) = run[N]
  BY SortTurns
<1> DEFINE T == {n \in 0..N : Weight(w, run[n]) = Total(f, n)}
<1>2. N \in Nat /\ \A i \in 1..N : f[i] \in Int /\ f[i] = w[list[i]] /\ list[i] \in E
  OBVIOUS
<1>3. Total(f, N) = Weight(w, list)
  BY DEF Weight
<1> HIDE DEF f, N
<1>4. /\ Total(f, 0) = 0
      /\ \A n \in 1..N : Total(f, n) = Total(f, n - 1) + f[n]
  <2>1. N \in Nat /\ \A i \in 1..N : f[i] \in Int
    BY <1>2
  <2> QED BY <2>1, TotalSteps
<1>5. 0 \in T
  <2>1. run[0] \in Seq(E) /\ \A i \in 1..Len(run[0]) : w[run[0][i]] = 0
    BY <1>1
  <2>2. Weight(w, run[0]) = 0
    BY <2>1, WeightZero
  <2> QED BY <1>2, <1>4, <2>2
<1>6. ASSUME NEW n \in 1..N, n - 1 \in T PROVE n \in T
  <2>1. n - 1 \in 0..N /\ n \in 0..N
    BY <1>2
  <2>2. run[n - 1] \in Seq(E) /\ list[n] \in E
    BY <1>2, <2>1
  <2>3. Weight(w, run[n]) = Weight(w, run[n - 1]) + w[list[n]]
    BY <1>1, <2>2, WeightInsert, SMTT(30)
  <2>4. Weight(w, run[n - 1]) = Total(f, n - 1)
    BY <1>6
  <2> QED BY <1>2, <1>4, <2>1, <2>3, <2>4
<1>7. N \in T
  <2> HIDE DEF T
  <2>1. 0..N \subseteq T
    BY <1>2, <1>5, <1>6, IntervalInduction
  <2> QED BY <1>2, <2>1
<1> QED BY <1>1, <1>3, <1>7

-----------------------------------------------------------------------------
(* The list while the inputs of a transaction are spent.                    *)

(* c gives each output hash a number: the sums of these numbers over a list *)
(* of entries, and over the first n inputs of a transaction.                *)
Held(c, list) == Total([i \in 1..Len(list) |-> c[list[i].out.hash]], Len(list))

(* What the first n inputs of a transaction refer to is worth. *)
Spends(c, tx, n) ==
    Total([k \in 1..Len(tx.inputs) |-> c[tx.inputs[k].tx_out_hash]], n)

(* The numbers that count one hash. *)
Counting(h, H) == [x \in H |-> IF x = h THEN 1 ELSE 0]

(* The entries of E have hashes of H. *)
Hashed(E, H) == \A e \in E : e.out.hash \in H

(* w weighs each entry by the number of its hash. *)
Weighs(w, E, c) ==
    /\ w \in [E -> Int]
    /\ \A e \in E : w[e] = c[e.out.hash]
    /\ \A list \in Seq(E) : Held(c, list) = Weight(w, list)

(* What a list holds is a weight, so that the lemmas on weights apply to    *)
(* it.                                                                      *)
LEMMA HeldIsWeight ==
  ASSUME NEW E, NEW H, Hashed(E, H), NEW c \in [H -> Int]
  PROVE  \E w : Weighs(w, E, c)
<1> DEFINE w == [e \in E |-> c[e.out.hash]]
<1>1. w \in [E -> Int] /\ \A e \in E : w[e] = c[e.out.hash]
  BY DEF Hashed
<1>2. ASSUME NEW list \in Seq(E) PROVE Held(c, list) = Weight(w, list)
  <2>1. [i \in 1..Len(list) |-> c[list[i].out.hash]] = [i \in 1..Len(list) |-> w[list[i]]]
    <3>1. \A i \in 1..Len(list) : list[i] \in E
      OBVIOUS
    <3> HIDE DEF w
    <3> QED BY <1>1, <3>1
  <2> HIDE DEF w
  <2> QED BY <2>1 DEF Held, Weight
<1> HIDE DEF w
<1> QED BY <1>1, <1>2 DEF Weighs

(* What a list holds is a number. *)
LEMMA HeldType ==
  ASSUME NEW E, NEW H, Hashed(E, H), NEW c \in [H -> Int], NEW list \in Seq(E)
  PROVE  Held(c, list) \in Int
<1>1. PICK w : Weighs(w, E, c)
  BY HeldIsWeight
<1> QED BY <1>1, WeightType DEF Weighs

(* Two parts hold together what the list holds. *)
LEMMA HeldConcat ==
  ASSUME NEW E, NEW H, Hashed(E, H), NEW c \in [H -> Int],
         NEW a \in Seq(E), NEW b \in Seq(E)
  PROVE  Held(c, a \o b) = Held(c, a) + Held(c, b)
<1>1. PICK w : Weighs(w, E, c)
  BY HeldIsWeight
<1>2. a \o b \in Seq(E)
  OBVIOUS
<1>3. Weight(w, a \o b) = Weight(w, a) + Weight(w, b)
  BY <1>1, WeightConcat DEF Weighs
<1>4. Held(c, a) = Weight(w, a) /\ Held(c, b) = Weight(w, b)
  BY <1>1 DEF Weighs
<1>5. Held(c, a \o b) = Weight(w, a \o b)
  BY <1>1, <1>2 DEF Weighs
<1> QED BY <1>3, <1>4, <1>5

(* An entry that is taken out is what the list holds less. *)
LEMMA HeldWithout ==
  ASSUME NEW E, NEW H, Hashed(E, H), NEW c \in [H -> Int],
         NEW list \in Seq(E), NEW m \in 1..Len(list)
  PROVE  Held(c, WithoutNode(list, m)) = Held(c, list) - c[list[m].out.hash]
<1>1. PICK w : Weighs(w, E, c)
  BY HeldIsWeight
<1>2. WithoutNode(list, m) \in Seq(E) /\ list[m] \in E
  BY WithoutNodeType
<1> QED BY <1>1, <1>2, WeightWithout DEF Weighs

(* The sorted list holds the same. *)
LEMMA HeldSort ==
  ASSUME NEW E, NEW H, Hashed(E, H), NEW c \in [H -> Int], NEW list \in Seq(E)
  PROVE  Held(c, SortByAmount(list)) = Held(c, list)
<1>1. PICK w : Weighs(w, E, c)
  BY HeldIsWeight
<1>2. SortByAmount(list) \in Seq(E)
  BY SortType
<1> QED BY <1>1, <1>2, WeightSort DEF Weighs

(* A hash that is held is the hash of an entry. *)
LEMMA HeldFound ==
  ASSUME NEW E, NEW H, Hashed(E, H), NEW h \in H, NEW list \in Seq(E),
         Held(Counting(h, H), list) # 0
  PROVE  \E i \in 1..Len(list) : list[i].out.hash = h
<1> DEFINE c == Counting(h, H)
<1>1. c \in [H -> Int] /\ \A x \in H : x # h => c[x] = 0
  BY DEF Counting
<1> HIDE DEF c
<1>2. PICK w : Weighs(w, E, c)
  BY <1>1, HeldIsWeight
<1>3. SUFFICES ASSUME \A i \in 1..Len(list) : list[i].out.hash # h PROVE FALSE
  OBVIOUS
<1>4. \A i \in 1..Len(list) : w[list[i]] = 0
  <2>1. \A i \in 1..Len(list) : list[i] \in E
    OBVIOUS
  <2> QED BY <1>1, <1>2, <1>3, <2>1 DEF Hashed, Weighs
<1>5. Held(c, list) = 0
  BY <1>2, <1>4, WeightZero DEF Weighs
<1> QED BY <1>5 DEF c

(* The parts of a list. *)
LEMMA ConcatParts ==
  ASSUME NEW E, NEW a \in Seq(E), NEW b \in Seq(E), NEW list, list = a \o b
  PROVE  /\ list \in Seq(E)
         /\ Len(a) \in Nat /\ Len(b) \in Nat /\ Len(list) = Len(a) + Len(b)
         /\ \A i \in 1..Len(a) : i \in 1..Len(list) /\ list[i] = a[i]
         /\ \A i \in 1..Len(b) : Len(a) + i \in 1..Len(list) /\ list[Len(a) + i] = b[i]
  OBVIOUS

(* Unlinking a node of the front part leaves the rest as it is. *)
LEMMA WithoutFront ==
  ASSUME NEW E, NEW rest \in Seq(E), NEW new \in Seq(E), NEW m \in 1..Len(rest)
  PROVE  WithoutNode(rest \o new, m) = WithoutNode(rest, m) \o new
<1> DEFINE list == rest \o new
           M == Len(rest)
           N == Len(new)
           a == WithoutNode(list, m)
           b == WithoutNode(rest, m)
           d == b \o new
<1>1. M \in Nat /\ N \in Nat /\ m \in 1..M /\ Len(list) = M + N
  BY ConcatParts
<1>2. /\ list \in Seq(E)
      /\ \A i \in 1..M : list[i] = rest[i]
      /\ \A i \in 1..N : list[M + i] = new[i]
  BY ConcatParts
<1> HIDE DEF list
<1>3. m \in 1..Len(list)
  BY <1>1
<1>4. /\ a \in Seq(E) /\ Len(a) = Len(list) - 1
      /\ \A j \in 1..(Len(list) - 1) : a[j] = IF j < m THEN list[j] ELSE list[j + 1]
  BY <1>2, <1>3, WithoutNodeType
<1>5. /\ b \in Seq(E) /\ Len(b) = M - 1
      /\ \A j \in 1..(M - 1) : b[j] = IF j < m THEN rest[j] ELSE rest[j + 1]
  BY WithoutNodeType
<1> HIDE DEF a, b, M, N
<1>6. /\ d \in Seq(E) /\ Len(d) = Len(b) + Len(new)
      /\ \A j \in 1..Len(b) : d[j] = b[j]
      /\ \A i \in 1..Len(new) : d[Len(b) + i] = new[i]
  <2>1. b \in Seq(E) /\ new \in Seq(E)
    BY <1>5
  <2> QED BY <2>1, ConcatParts
<1> HIDE DEF d
<1>7. ASSUME NEW j \in 1..(M + N - 1) PROVE a[j] = d[j]
  <2>1. CASE j \in 1..(M - 1)
    <3>1. j \in 1..M /\ j + 1 \in 1..M /\ j \in 1..(Len(list) - 1)
      BY <1>1, <2>1
    <3>2. a[j] = IF j < m THEN rest[j] ELSE rest[j + 1]
      BY <1>2, <1>4, <3>1
    <3>3. d[j] = IF j < m THEN rest[j] ELSE rest[j + 1]
      BY <1>5, <1>6, <2>1
    <3> QED BY <3>2, <3>3
  <2>2. CASE j \notin 1..(M - 1)
    <3> DEFINE i == j - (M - 1)
    <3>1. i \in 1..N /\ (M - 1) + i = j /\ M + i = j + 1 /\ ~(j < m)
      BY <1>1, <2>2
    <3> HIDE DEF i
    <3>2. d[j] = new[i]
      BY <1>5, <1>6, <3>1 DEF N
    <3>3. list[j + 1] = new[i]
      BY <1>2, <3>1
    <3> QED BY <1>1, <1>4, <3>1, <3>2, <3>3
  <2> QED BY <2>1, <2>2
<1>8. Len(a) = Len(d) /\ Len(a) = M + N - 1
  <2>1. Len(d) = (M - 1) + N
    BY <1>5, <1>6 DEF N
  <2> QED BY <1>1, <1>4, <2>1
<1>9. a = d
  BY <1>4, <1>6, <1>7, <1>8, SameSequence
<1> QED BY <1>9 DEF a, b, d, list

(* The place of the first entry with a hash. *)
Place(list, hash) == First({i \in 1..Len(list) : list[i].out.hash = hash})

(* The first entry an input finds is in the front part of the list when     *)
(* there is one.                                                            *)
LEMMA SpendFront ==
  ASSUME NEW E, NEW rest \in Seq(E), NEW new \in Seq(E), NEW in,
         NEW k \in 1..Len(rest), rest[k].out.hash = in.tx_out_hash
  PROVE  LET list == rest \o new
             m == Place(list, in.tx_out_hash)
         IN  /\ m \in 1..Len(rest)
             /\ rest[m].out.hash = in.tx_out_hash
             /\ SpendInput(list, in) = WithoutNode(rest, m) \o new
<1> DEFINE list == rest \o new
           hits == {i \in 1..Len(list) : list[i].out.hash = in.tx_out_hash}
           m == First(hits)
<1>1. /\ Len(rest) \in Nat /\ Len(list) \in Nat
      /\ \A i \in 1..Len(rest) : i \in 1..Len(list) /\ list[i] = rest[i]
  BY ConcatParts
<1> HIDE DEF list
<1>2. k \in hits /\ hits \subseteq 1..Len(list) /\ hits # {}
  BY <1>1
<1>3. \A i \in hits : i \in Nat /\ i >= 1 /\ list[i].out.hash = in.tx_out_hash
  OBVIOUS
<1>4. SpendInput(list, in) = RemoveNode(list, hits)
  BY DEF SpendInput
<1> HIDE DEF hits, m
<1>5. m \in hits /\ m <= k
  <2>1. First(hits) \in hits /\ \A j \in hits : First(hits) <= j
    BY <1>1, <1>2, FirstHit
  <2> QED BY <1>2, <2>1 DEF m
<1>6. m \in 1..Len(rest)
  <2>1. m \in Nat /\ m >= 1
    BY <1>3, <1>5
  <2>2. k \in Nat /\ k <= Len(rest)
    BY <1>1
  <2>3. m <= Len(rest)
    BY <1>1, <1>5, <2>1, <2>2
  <2> QED BY <1>1, <2>1, <2>3
<1>7. rest[m].out.hash = in.tx_out_hash
  BY <1>1, <1>3, <1>5, <1>6
<1>8. SpendInput(list, in) = WithoutNode(list, m)
  BY <1>2, <1>4 DEF RemoveNode, m
<1>9. WithoutNode(list, m) = WithoutNode(rest, m) \o new
  BY <1>6, WithoutFront DEF list
<1>10. m = Place(list, in.tx_out_hash)
  BY DEF Place, m, hits
<1> QED BY <1>6, <1>7, <1>8, <1>9, <1>10 DEF list

(* What is left of a list after the first n inputs of a transaction, as far *)
(* as sums over the hashes tell.                                            *)
Remains(rest, old, H, tx, n) ==
    \A c \in [H -> Int] : Held(c, rest) = Held(c, old) - Spends(c, tx, n)

(* The inputs of a transaction refer to hashes of H. *)
HashedInputs(tx, H) ==
    /\ Len(tx.inputs) \in Nat
    /\ \A n \in 1..Len(tx.inputs) : tx.inputs[n].tx_out_hash \in H

(* Of every hash the list has as many entries as the transaction has        *)
(* inputs.                                                                  *)
Supplied(tx, H, list) ==
    \A h \in H : Spends(Counting(h, H), tx, Len(tx.inputs)) <= Held(Counting(h, H), list)

(* Each input adds what it refers to. *)
LEMMA SpendsSteps ==
  ASSUME NEW H, NEW c \in [H -> Int], NEW tx, HashedInputs(tx, H)
  PROVE  /\ Spends(c, tx, 0) = 0
         /\ \A n \in 0..Len(tx.inputs) : Spends(c, tx, n) \in Int
         /\ \A n \in 1..Len(tx.inputs) :
               Spends(c, tx, n) = Spends(c, tx, n - 1) + c[tx.inputs[n].tx_out_hash]
<1> DEFINE N == Len(tx.inputs)
           f == [k \in 1..N |-> c[tx.inputs[k].tx_out_hash]]
<1>1. N \in Nat /\ \A k \in 1..N : f[k] = c[tx.inputs[k].tx_out_hash] /\ f[k] \in Int
  BY DEF HashedInputs
<1>2. \A n : Spends(c, tx, n) = Total(f, n)
  BY DEF Spends
<1> HIDE DEF f, N
<1>3. /\ Total(f, 0) = 0
      /\ \A n \in 0..N : Total(f, n) \in Int
      /\ \A n \in 1..N : Total(f, n) = Total(f, n - 1) + f[n]
  BY <1>1, TotalSteps
<1> QED BY <1>1, <1>2, <1>3 DEF N

(* The first inputs do not refer to more than all of them. *)
LEMMA SpendsPrefix ==
  ASSUME NEW H, NEW h \in H, NEW tx, HashedInputs(tx, H), NEW n \in 0..Len(tx.inputs)
  PROVE  Spends(Counting(h, H), tx, n) <= Spends(Counting(h, H), tx, Len(tx.inputs))
<1> DEFINE c == Counting(h, H)
           N == Len(tx.inputs)
           f == [k \in 1..N |-> c[tx.inputs[k].tx_out_hash]]
<1>1. \A x \in H : c[x] \in Nat
  BY DEF Counting
<1> HIDE DEF c
<1>2. N \in Nat /\ n \in 0..N /\ \A k \in 1..N : f[k] \in Nat
  BY <1>1 DEF HashedInputs
<1>3. Spends(c, tx, n) = Total(f, n) /\ Spends(c, tx, N) = Total(f, N)
  BY DEF Spends
<1> HIDE DEF f, N
<1>4. Total(f, n) <= Total(f, N)
  BY <1>2, TotalPrefix
<1> QED BY <1>3, <1>4 DEF c, N

(* The next input finds its entry in what is left of the front part.        *)
LEMMA NextFound ==
  ASSUME NEW E, NEW H, Hashed(E, H), NEW old \in Seq(E), NEW tx,
         HashedInputs(tx, H), Supplied(tx, H, old),
         NEW n \in 1..Len(tx.inputs), NEW rest \in Seq(E), Remains(rest, old, H, tx, n - 1)
  PROVE  \E k \in 1..Len(rest) : rest[k].out.hash = tx.inputs[n].tx_out_hash
<1> DEFINE h == tx.inputs[n].tx_out_hash
           c == Counting(h, H)
<1>1. h \in H /\ n - 1 \in 0..Len(tx.inputs) /\ n \in 0..Len(tx.inputs)
  BY DEF HashedInputs
<1>2. c \in [H -> Int] /\ c[h] = 1
  BY <1>1 DEF Counting
<1>3. Spends(c, tx, n) <= Spends(c, tx, Len(tx.inputs))
  BY <1>1, SpendsPrefix
<1>4. Spends(c, tx, Len(tx.inputs)) <= Held(c, old)
  BY <1>1 DEF Supplied
<1> HIDE DEF c
<1>5. Held(c, rest) = Held(c, old) - Spends(c, tx, n - 1)
  BY <1>2 DEF Remains
<1>6. /\ Spends(c, tx, n) = Spends(c, tx, n - 1) + 1
      /\ Spends(c, tx, n) \in Int /\ Spends(c, tx, n - 1) \in Int
      /\ Spends(c, tx, Len(tx.inputs)) \in Int
  <2>1. Len(tx.inputs) \in 0..Len(tx.inputs)
    BY DEF HashedInputs
  <2> QED BY <1>1, <1>2, <2>1, SpendsSteps, SMTT(30)
<1>7. Held(c, old) \in Int
  BY <1>2, HeldType
<1>8. Held(c, rest) # 0
  <2> DEFINE a == Held(c, old)
             b == Spends(c, tx, n - 1)
             d == Spends(c, tx, Len(tx.inputs))
  <2>1. a \in Int /\ b \in Int /\ d \in Int /\ b + 1 <= d /\ d <= a
    BY <1>3, <1>4, <1>6, <1>7
  <2>2. Held(c, rest) = a - b
    BY <1>5
  <2> HIDE DEF a, b, d
  <2> QED BY <2>1, <2>2
<1> QED BY <1>1, <1>8, HeldFound DEF c

(* When it is unlinked, one input more is accounted for.                    *)
LEMMA NextRemains ==
  ASSUME NEW E, NEW H, Hashed(E, H), NEW old \in Seq(E), NEW tx, HashedInputs(tx, H),
         NEW n \in 1..Len(tx.inputs), NEW rest \in Seq(E), Remains(rest, old, H, tx, n - 1),
         NEW m \in 1..Len(rest), rest[m].out.hash = tx.inputs[n].tx_out_hash
  PROVE  Remains(WithoutNode(rest, m), old, H, tx, n)
<1> DEFINE h == tx.inputs[n].tx_out_hash
<1>1. SUFFICES ASSUME NEW c \in [H -> Int]
               PROVE  Held(c, WithoutNode(rest, m)) = Held(c, old) - Spends(c, tx, n)
  BY DEF Remains
<1>2. Held(c, WithoutNode(rest, m)) = Held(c, rest) - c[h]
  <2>1. Held(c, WithoutNode(rest, m)) = Held(c, rest) - c[rest[m].out.hash]
    BY HeldWithout
  <2> QED BY <2>1
<1>3. Held(c, rest) = Held(c, old) - Spends(c, tx, n - 1)
  BY DEF Remains
<1>4. Spends(c, tx, n) = Spends(c, tx, n - 1) + c[h]
  BY SpendsSteps
<1>5. Held(c, old) \in Int /\ Spends(c, tx, n - 1) \in Int /\ c[h] \in Int
  <2>1. n - 1 \in 0..Len(tx.inputs) /\ h \in H
    BY DEF HashedInputs
  <2> QED BY <2>1, HeldType, SpendsSteps
<1> DEFINE a == Held(c, old)
           b == Spends(c, tx, n - 1)
           d == c[h]
<1> HIDE DEF a, b, d
<1>6. (a - b) - d = a - (b + d)
  BY <1>5, SMTT(30) DEF a, b, d
<1> QED BY <1>2, <1>3, <1>4, <1>6 DEF a, b, d

(* The list after n inputs: what is left of the front part, then the rest   *)
(* of the list as it was.                                                   *)
LEMMA SpendAll ==
  ASSUME NEW E, NEW H, Hashed(E, H), NEW old \in Seq(E), NEW new \in Seq(E), NEW tx,
         HashedInputs(tx, H), Supplied(tx, H, old)
  PROVE  \A n \in 0..Len(tx.inputs) : \E rest \in Seq(E) :
            /\ Spending(old \o new, tx)[n] = rest \o new
            /\ Remains(rest, old, H, tx, n)
<1> DEFINE N == Len(tx.inputs)
           list == old \o new
           run == Spending(list, tx)
           T == {n \in 0..N : \E rest \in Seq(E) : /\ run[n] = rest \o new
                                                  /\ Remains(rest, old, H, tx, n)}
<1>1. N \in Nat
  BY DEF HashedInputs
<1>2. run[0] = list /\ \A n \in 1..N : run[n] = SpendInput(run[n - 1], tx.inputs[n])
  <2>1. list \in Seq(E)
    OBVIOUS
  <2> HIDE DEF list
  <2> QED BY <1>1, <2>1, SpendTurns
<1> HIDE DEF run
<1>3. 0 \in T
  <2>1. Remains(old, old, H, tx, 0)
    <3> SUFFICES ASSUME NEW c \in [H -> Int]
                 PROVE  Held(c, old) = Held(c, old) - Spends(c, tx, 0)
      BY DEF Remains
    <3>1. Spends(c, tx, 0) = 0 /\ Held(c, old) \in Int
      BY SpendsSteps, HeldType
    <3> QED BY <3>1
  <2> QED BY <1>1, <1>2, <2>1
<1>4. ASSUME NEW n \in 1..N, n - 1 \in T PROVE n \in T
  <2>1. PICK rest \in Seq(E) : run[n - 1] = rest \o new /\ Remains(rest, old, H, tx, n - 1)
    BY <1>4
  <2> HIDE DEF T
  <2>2. n \in 1..Len(tx.inputs) /\ Remains(rest, old, H, tx, n - 1)
    BY <2>1
  <2>3. PICK k \in 1..Len(rest) : rest[k].out.hash = tx.inputs[n].tx_out_hash
    BY <2>2, NextFound
  <2> DEFINE m == Place(rest \o new, tx.inputs[n].tx_out_hash)
             left == WithoutNode(rest, m)
  <2>4. /\ m \in 1..Len(rest)
        /\ rest[m].out.hash = tx.inputs[n].tx_out_hash
        /\ SpendInput(rest \o new, tx.inputs[n]) = left \o new
    <3> DEFINE in == tx.inputs[n]
    <3>1. rest[k].out.hash = in.tx_out_hash
      BY <2>3
    <3> HIDE DEF in
    <3>2. LET both == rest \o new
              p == Place(both, in.tx_out_hash)
          IN  /\ p \in 1..Len(rest)
              /\ rest[p].out.hash = in.tx_out_hash
              /\ SpendInput(both, in) = WithoutNode(rest, p) \o new
      BY <3>1, SpendFront
    <3> QED BY <3>2 DEF in
  <2> HIDE DEF m
  <2>5. left \in Seq(E)
    BY <2>4, WithoutNodeType
  <2>6. Remains(left, old, H, tx, n)
    BY <2>2, <2>4, NextRemains
  <2> HIDE DEF left
  <2>7. run[n] = left \o new
    BY <1>2, <2>1, <2>4
  <2>8. n \in 0..N
    OBVIOUS
  <2> QED BY <2>5, <2>6, <2>7, <2>8 DEF T
<1>5. 0..N \subseteq T
  <2> HIDE DEF T
  <2> QED BY <1>1, <1>3, <1>4, IntervalInduction
<1> QED BY <1>5 DEF run

-----------------------------------------------------------------------------
(* The value of a hash.                                                     *)

IsOutput(out) == \E amount \in Amount, key \in Keys : out = TxOutCreate(amount, key)

(* The hashes of the outputs there can be. *)
OutputHashes == {SHA256(<<"out", amount, key>>) : amount \in Amount, key \in Keys}

(* Outputs of different amounts have different hashes. *)
AmountsTold ==
    \A a, b \in Amount, p, q \in Keys :
        SHA256(<<"out", a, p>>) = SHA256(<<"out", b, q>>) => a = b

(* The amount of the outputs with a hash. *)
Values ==
    [h \in OutputHashes |-> CHOOSE a \in Amount : \E key \in Keys : h = SHA256(<<"out", a, key>>)]

(* The value of a hash is a number. *)
LEMMA ValuesType == Values \in [OutputHashes -> Int]
<1>1. Amount \subseteq Int
  BY AmountAssumption DEF Amount
<1> DEFINE v(h) == CHOOSE a \in Amount : \E key \in Keys : h = SHA256(<<"out", a, key>>)
<1>2. ASSUME NEW h \in OutputHashes PROVE v(h) \in Int
  <2>1. \E a \in Amount : \E key \in Keys : h = SHA256(<<"out", a, key>>)
    BY DEF OutputHashes
  <2>2. v(h) \in Amount
    BY <2>1
  <2> QED BY <1>1, <2>2
<1> QED BY <1>2 DEF Values

(* The value of the hash of an output is its amount. *)
LEMMA ValueOfOutput ==
  ASSUME AmountsTold, NEW out, IsOutput(out)
  PROVE  out.hash \in OutputHashes /\ out.amount \in Amount /\ Values[out.hash] = out.amount
<1>1. PICK amount \in Amount, key \in Keys : out = TxOutCreate(amount, key)
  BY DEF IsOutput
<1>2. out.hash = SHA256(<<"out", amount, key>>) /\ out.amount = amount
  BY <1>1 DEF TxOutCreate
<1>3. out.hash \in OutputHashes
  BY <1>2 DEF OutputHashes
<1> DEFINE v == CHOOSE a \in Amount : \E p \in Keys : out.hash = SHA256(<<"out", a, p>>)
<1>4. Values[out.hash] = v
  BY <1>3 DEF Values
<1>5. v \in Amount /\ \E p \in Keys : out.hash = SHA256(<<"out", v, p>>)
  BY <1>2
<1> HIDE DEF v
<1>6. v = amount
  BY <1>2, <1>5 DEF AmountsTold
<1> QED BY <1>2, <1>3, <1>4, <1>6

(* Entries whose output is what tx_out_create makes. *)
Genuine(E) == \A e \in E : IsOutput(e.out)

(* Genuine entries have the hashes of outputs. *)
LEMMA GenuineHashed ==
  ASSUME AmountsTold, NEW E, Genuine(E)
  PROVE  Hashed(E, OutputHashes)
  BY ValueOfOutput DEF Genuine, Hashed

(* What a list is worth. *)
LEMMA HeldValues ==
  ASSUME AmountsTold, NEW E, Genuine(E), NEW list \in Seq(E)
  PROVE  Held(Values, list) = Total([i \in 1..Len(list) |-> list[i].out.amount], Len(list))
<1>1. \A i \in 1..Len(list) : Values[list[i].out.hash] = list[i].out.amount
  <2>1. \A i \in 1..Len(list) : IsOutput(list[i].out)
    BY DEF Genuine
  <2> QED BY <2>1, ValueOfOutput
<1>2. [i \in 1..Len(list) |-> Values[list[i].out.hash]]
        = [i \in 1..Len(list) |-> list[i].out.amount]
  BY <1>1
<1> QED BY <1>2 DEF Held

-----------------------------------------------------------------------------
(* The list while the transactions of a block are processed.                *)

Paid(tx) == Total([o \in 1..Len(tx.outputs) |-> tx.outputs[o].amount], Len(tx.outputs))

(* The inputs of the transaction are worth as much as its outputs. *)
Even(tx) ==
    /\ HashedInputs(tx, OutputHashes)
    /\ Len(tx.outputs) \in Nat
    /\ \A o \in 1..Len(tx.outputs) : IsOutput(tx.outputs[o])
    /\ Spends(Values, tx, Len(tx.inputs)) % UINT32 = Paid(tx) % UINT32

(* Replacing a term by one of the same remainder. *)
LEMMA SameRemainder ==
  ASSUME NEW U \in Nat \ {0}, NEW a \in Int, NEW b \in Int, NEW d \in Int, b % U = d % U
  PROVE  ((a - b) + d) % U = a % U
<1>1. a - b \in Int /\ b + (a - b) = a /\ d + (a - b) = (a - b) + d
  OBVIOUS
<1> DEFINE x == a - b
<1> HIDE DEF x
<1>2. ((b % U) + x) % U = (b + x) % U
  BY <1>1, RemainderOfSum DEF x
<1>3. ((d % U) + x) % U = (d + x) % U
  BY <1>1, RemainderOfSum DEF x
<1> QED BY <1>1, <1>2, <1>3 DEF x

(* The new entries of a transaction are worth what it pays. *)
LEMMA NewValues ==
  ASSUME AmountsTold, NEW E, Genuine(E), NEW tx, NEW hash, Len(tx.outputs) \in Nat,
         NewUnspent(tx, hash) \in Seq(E)
  PROVE  /\ Len(NewUnspent(tx, hash)) = Len(tx.outputs)
         /\ Held(Values, NewUnspent(tx, hash)) = Paid(tx)
<1> DEFINE new == NewUnspent(tx, hash)
           N == Len(tx.outputs)
<1>1. Len(new) = N /\ \A o \in 1..N : new[o].out.amount = tx.outputs[o].amount
  BY DEF NewUnspent, UnspentTxOutCreate
<1>2. [i \in 1..Len(new) |-> new[i].out.amount] = [o \in 1..N |-> tx.outputs[o].amount]
  <2> HIDE DEF new
  <2> QED BY <1>1
<1>3. Held(Values, new) = Total([i \in 1..Len(new) |-> new[i].out.amount], Len(new))
  <2> HIDE DEF new
  <2>1. new \in Seq(E)
    BY DEF new
  <2> QED BY <2>1, HeldValues
<1> QED BY <1>1, <1>2, <1>3 DEF Paid

(* How often the outputs of a transaction, and of the first t transactions  *)
(* of a block, have a hash.                                                 *)
Makes(c, tx) ==
    Total([o \in 1..Len(tx.outputs) |-> c[tx.outputs[o].hash]], Len(tx.outputs))

(* What the outputs of the first t transactions of a block are worth. *)
BlockMakes(c, txs, t) == Total([i \in 1..Len(txs) |-> Makes(c, txs[i])], t)

(* The new entries of a transaction hold what its outputs make. *)
LEMMA NewHeld ==
  ASSUME NEW c, NEW tx, NEW hash, Len(tx.outputs) \in Nat
  PROVE  Held(c, NewUnspent(tx, hash)) = Makes(c, tx)
<1> DEFINE new == NewUnspent(tx, hash)
           N == Len(tx.outputs)
<1>1. Len(new) = N /\ \A o \in 1..N : new[o].out.hash = tx.outputs[o].hash
  BY DEF NewUnspent, UnspentTxOutCreate
<1> HIDE DEF new
<1>2. [i \in 1..Len(new) |-> c[new[i].out.hash]] = [o \in 1..N |-> c[tx.outputs[o].hash]]
  BY <1>1
<1> QED BY <1>1, <1>2 DEF Held, Makes, new

(* Three parts of a list. *)
LEMMA ConcatAssoc ==
  ASSUME NEW E, NEW a \in Seq(E), NEW b \in Seq(E), NEW d \in Seq(E)
  PROVE  (a \o b) \o d = a \o (b \o d) /\ b \o d \in Seq(E) /\ a \o b \in Seq(E)
  OBVIOUS

(* What one transaction does to a list of which it spends the front part.   *)
Processed(old, new, tx, E, list) ==
    \E rest \in Seq(E), added \in Seq(E) :
        /\ list = rest \o added
        /\ Len(new) > 0 => Len(added) > 0
        /\ Remains(rest, old, OutputHashes, tx, Len(tx.inputs))
        /\ \A c \in [OutputHashes -> Int] : Held(c, added) = Held(c, new) + Makes(c, tx)
        /\ Held(Values, list) % UINT32 = Held(Values, old \o new) % UINT32

(* An even transaction takes from the front part what it spends, and adds   *)
(* its outputs behind.                                                      *)
LEMMA TransactionProcessed ==
  ASSUME AmountsTold, NEW E, Genuine(E), NEW old \in Seq(E), NEW new \in Seq(E),
         NEW tx, Even(tx), Supplied(tx, OutputHashes, old),
         NEW hash, NewUnspent(tx, hash) \in Seq(E)
  PROVE  Processed(old, new, tx, E, ProcessTransaction(old \o new, tx, hash))
<1> DEFINE H == OutputHashes
           N == Len(tx.inputs)
           created == NewUnspent(tx, hash)
           added == new \o created
<1>1. HashedInputs(tx, H) /\ N \in 0..N
  BY DEF Even, HashedInputs
<1>2. Hashed(E, H)
  BY GenuineHashed
<1> HIDE DEF H
<1>3. PICK rest \in Seq(E) : /\ Spending(old \o new, tx)[N] = rest \o new
                             /\ Remains(rest, old, H, tx, N)
  BY <1>1, <1>2, SpendAll DEF H
<1>4. ProcessTransaction(old \o new, tx, hash) = (rest \o new) \o created
  BY <1>3 DEF ProcessTransaction, SpendInputs
<1>5. created \in Seq(E)
  OBVIOUS
<1> HIDE DEF created
<1>6. (rest \o new) \o created = rest \o added /\ added \in Seq(E)
  BY <1>5, ConcatAssoc, SMTT(30)
<1>7. Len(new) > 0 => Len(added) > 0
  <2>1. Len(new) \in Nat /\ Len(created) \in Nat /\ Len(added) = Len(new) + Len(created)
    BY <1>5, ConcatParts
  <2> HIDE DEF added
  <2> QED BY <2>1
<1>11. \A c \in [H -> Int] : Held(c, added) = Held(c, new) + Makes(c, tx)
  <2>1. \A c \in [H -> Int] : Held(c, new \o created) = Held(c, new) + Held(c, created)
    BY <1>2, <1>5, HeldConcat
  <2>2. \A c : Held(c, created) = Makes(c, tx)
    BY NewHeld DEF Even, created
  <2> QED BY <2>1, <2>2
<1>8. Held(Values, (rest \o new) \o created) % UINT32 = Held(Values, old \o new) % UINT32
  <2> DEFINE a == Held(Values, rest)
             b == Held(Values, old)
             d == Held(Values, new)
             s == Spends(Values, tx, N)
             p == Held(Values, created)
  <2>1. Values \in [H -> Int]
    BY ValuesType DEF H
  <2>2. a \in Int /\ b \in Int /\ d \in Int /\ p \in Int
    BY <1>2, <1>5, <2>1, HeldType
  <2>3. s \in Int
    BY <1>1, <2>1, SpendsSteps
  <2>4. a = b - s
    BY <1>3, <2>1 DEF Remains
  <2>5. p = Paid(tx)
    BY NewValues DEF Even, created
  <2>6. s % UINT32 = p % UINT32
    BY <2>5 DEF Even
  <2>7. Held(Values, old \o new) = b + d
    BY <1>2, <2>1, HeldConcat
  <2>8. Held(Values, rest \o new) = a + d
    BY <1>2, <2>1, HeldConcat
  <2>9. rest \o new \in Seq(E)
    BY ConcatAssoc
  <2>10. Held(Values, (rest \o new) \o created) = Held(Values, rest \o new) + p
    BY <1>2, <1>5, <2>1, <2>9, HeldConcat
  <2> HIDE DEF a, b, d, s, p
  <2> DEFINE x == b + d
  <2>11. Held(Values, (rest \o new) \o created) = (x - s) + p /\ x \in Int
    BY <2>2, <2>3, <2>4, <2>8, <2>10
  <2> HIDE DEF x
  <2>12. ((x - s) + p) % UINT32 = x % UINT32
    <3>1. UINT32 \in Nat \ {0}
      BY AmountAssumption
    <3>2. s \in Int /\ p \in Int /\ x \in Int
      BY <2>2, <2>3, <2>11
    <3> QED BY <2>6, <3>1, <3>2, SameRemainder
  <2> QED BY <2>7, <2>11, <2>12 DEF x
<1> HIDE DEF added
<1> DEFINE list == ProcessTransaction(old \o new, tx, hash)
<1>9. list = rest \o added /\ Held(Values, list) % UINT32 = Held(Values, old \o new) % UINT32
  BY <1>4, <1>6, <1>8
<1>10. Remains(rest, old, OutputHashes, tx, Len(tx.inputs))
  BY <1>3 DEF H
<1>12. \A c \in [OutputHashes -> Int] : Held(c, added) = Held(c, new) + Makes(c, tx)
  BY <1>11 DEF H
<1> HIDE DEF list
<1> QED BY <1>6, <1>7, <1>9, <1>10, <1>12 DEF Processed, list

(* No input finds its entry at the end of a list that has more entries      *)
(* behind the part it spends.                                               *)
LEMMA NotTheTail ==
  ASSUME AmountsTold, NEW E, Genuine(E), NEW old \in Seq(E), NEW new \in Seq(E),
         Len(new) > 0, NEW tx, Even(tx), Supplied(tx, OutputHashes, old),
         NEW n \in 1..Len(tx.inputs)
  PROVE  LET list == Spending(old \o new, tx)[n - 1]
         IN  Place(list, tx.inputs[n].tx_out_hash) # Len(list)
<1> DEFINE H == OutputHashes
           list == Spending(old \o new, tx)[n - 1]
           h == tx.inputs[n].tx_out_hash
<1>1. HashedInputs(tx, H) /\ n - 1 \in 0..Len(tx.inputs)
  BY DEF Even, HashedInputs
<1>2. Hashed(E, H)
  BY GenuineHashed
<1>3. PICK rest \in Seq(E) : list = rest \o new /\ Remains(rest, old, H, tx, n - 1)
  BY <1>1, <1>2, SpendAll
<1> HIDE DEF list, H
<1>4. PICK k \in 1..Len(rest) : rest[k].out.hash = h
  BY <1>1, <1>2, <1>3, NextFound DEF H
<1>5. Place(rest \o new, h) \in 1..Len(rest)
  BY <1>4, SpendFront
<1>6. Len(rest) \in Nat /\ Len(new) \in Nat /\ Len(list) = Len(rest) + Len(new)
  BY <1>3, ConcatParts
<1>7. Place(list, h) \in 1..Len(rest)
  BY <1>3, <1>5
<1>8. Place(list, h) # Len(list)
  BY <1>6, <1>7
<1> QED BY <1>8 DEF list

(* What the transactions of a block spend, up to the one at t; the coinbase *)
(* spends nothing.                                                          *)
BlockSpends(c, txs, t) ==
    Total([i \in 1..Len(txs) |->
             IF i = 1 THEN 0 ELSE Spends(c, txs[i], Len(txs[i].inputs))], t)

(* A block for a list that has an entry for each of its inputs.             *)
IsCoinbase(tx) ==
    /\ Len(tx.inputs) = 1
    /\ tx.inputs[1].tx_out_hash \notin OutputHashes
    /\ Len(tx.outputs) = 1
    /\ tx.outputs[1].amount = COINBASE_AMOUNT

(* A block whose inputs the list can supply together: a coinbase, and       *)
(* transactions that pay out what they spend.                               *)
Payable(txs, u) ==
    /\ Len(txs) \in Nat
    /\ Len(txs) > 0
    /\ IsCoinbase(txs[1])
    /\ \A t \in 2..Len(txs) : Even(txs[t])
    /\ \A h \in OutputHashes :
          BlockSpends(Counting(h, OutputHashes), txs, Len(txs))
            <= Held(Counting(h, OutputHashes), u)

(* Each transaction adds what it spends. *)
LEMMA BlockSpendsSteps ==
  ASSUME NEW txs, NEW u, Payable(txs, u), NEW c \in [OutputHashes -> Int]
  PROVE  /\ BlockSpends(c, txs, 1) = 0
         /\ \A t \in 1..Len(txs) : BlockSpends(c, txs, t) \in Int
         /\ \A t \in 2..Len(txs) :
               /\ Spends(c, txs[t], Len(txs[t].inputs)) \in Int
               /\ BlockSpends(c, txs, t) = BlockSpends(c, txs, t - 1)
                                             + Spends(c, txs[t], Len(txs[t].inputs))
         /\ (\A h \in OutputHashes : c[h] \in Nat) =>
               \A t \in 1..Len(txs) : BlockSpends(c, txs, t) <= BlockSpends(c, txs, Len(txs))
<1> DEFINE M == Len(txs)
           s(t) == Spends(c, txs[t], Len(txs[t].inputs))
           f == [i \in 1..M |-> IF i = 1 THEN 0 ELSE s(i)]
<1>1. M \in Nat /\ M > 0 /\ \A t \in 2..M : HashedInputs(txs[t], OutputHashes)
  BY DEF Payable, Even
<1>2. \A t \in 2..M : s(t) \in Int
  <2> SUFFICES ASSUME NEW t \in 2..M PROVE s(t) \in Int
    OBVIOUS
  <2>1. HashedInputs(txs[t], OutputHashes)
    BY <1>1
  <2>2. Len(txs[t].inputs) \in 0..Len(txs[t].inputs)
    BY <2>1 DEF HashedInputs
  <2> QED BY <2>1, <2>2, SpendsSteps
<1>3. \A t : BlockSpends(c, txs, t) = Total(f, t)
  BY DEF BlockSpends
<1> HIDE DEF s
<1>4. /\ f[1] = 0
      /\ \A t \in 2..M : f[t] = s(t)
      /\ \A t \in 1..M : f[t] \in Int
  BY <1>1, <1>2
<1> HIDE DEF f, M
<1>5. /\ Total(f, 0) = 0
      /\ \A t \in 0..M : Total(f, t) \in Int
      /\ \A t \in 1..M : Total(f, t) = Total(f, t - 1) + f[t]
  BY <1>1, <1>4, TotalSteps
<1>6. Total(f, 1) = 0
  <2>1. 1 \in 1..M
    BY <1>1
  <2> QED BY <1>4, <1>5, <2>1
<1>7. ASSUME \A h \in OutputHashes : c[h] \in Nat, NEW t \in 1..M
      PROVE  Total(f, t) <= Total(f, M)
  <2>1. ASSUME NEW i \in 2..M PROVE s(i) \in Nat
    <3>1. HashedInputs(txs[i], OutputHashes) /\ Len(txs[i].inputs) \in Nat
      BY <1>1, <2>1 DEF HashedInputs
    <3> DEFINE N == Len(txs[i].inputs)
               g == [k \in 1..N |-> c[txs[i].inputs[k].tx_out_hash]]
    <3>2. N \in Nat /\ 0 \in 0..N /\ \A k \in 1..N : g[k] \in Nat
      BY <1>7, <3>1 DEF HashedInputs
    <3>3. s(i) = Total(g, N)
      BY DEF s, Spends
    <3> HIDE DEF g, N
    <3>4. Total(g, 0) <= Total(g, N)
      BY <3>2, TotalPrefix
    <3>5. Total(g, 0) = 0
      <4>1. \A k \in 1..N : g[k] \in Int
        BY <3>2
      <4> QED BY <3>2, <4>1, TotalSteps
    <3>6. s(i) \in Int
      BY <1>2, <2>1
    <3> QED BY <3>3, <3>4, <3>5, <3>6
  <2>2. \A i \in 1..M : f[i] \in Nat
    BY <1>1, <1>4, <2>1
  <2>3. t \in 0..M
    OBVIOUS
  <2> QED BY <1>1, <2>2, <2>3, TotalPrefix
<1>8. \A t \in 2..M : t \in 1..M
  BY <1>1
<1>9. \A t \in 1..M : t \in 0..M
  BY <1>1
<1>10. /\ \A t \in 1..M : BlockSpends(c, txs, t) \in Int
       /\ \A t \in 2..M : BlockSpends(c, txs, t) = BlockSpends(c, txs, t - 1) + s(t)
  BY <1>3, <1>4, <1>5, <1>8, <1>9
<1>11. (\A h \in OutputHashes : c[h] \in Nat) =>
           \A t \in 1..M : BlockSpends(c, txs, t) <= BlockSpends(c, txs, M)
  BY <1>3, <1>7
<1> QED BY <1>2, <1>3, <1>6, <1>10, <1>11 DEF s, M

(* What a block makes is built up transaction by transaction. *)
MakesInSteps(c, txs, hash) ==
    /\ BlockMakes(c, txs, 0) = 0
    /\ \A t \in 0..Len(txs) : BlockMakes(c, txs, t) \in Int
    /\ \A t \in 1..Len(txs) :
          /\ Makes(c, txs[t]) = Held(c, NewUnspent(txs[t], hash))
          /\ Makes(c, txs[t]) \in Int
          /\ BlockMakes(c, txs, t) = BlockMakes(c, txs, t - 1) + Makes(c, txs[t])

(* Each transaction adds what it makes. *)
LEMMA BlockMakesSteps ==
  ASSUME NEW E, Hashed(E, OutputHashes), NEW u, NEW txs, Payable(txs, u), NEW hash,
         \A t \in 1..Len(txs) : NewUnspent(txs[t], hash) \in Seq(E),
         NEW c \in [OutputHashes -> Int]
  PROVE  MakesInSteps(c, txs, hash)
<1> DEFINE M == Len(txs)
           f == [i \in 1..M |-> Makes(c, txs[i])]
<1>1. M \in Nat /\ \A t \in 1..M : Len(txs[t].outputs) \in Nat
  <2>1. \A t \in 1..M : t = 1 \/ t \in 2..M
    BY DEF Payable
  <2> QED BY <2>1 DEF Payable, IsCoinbase, Even
<1>2. \A t \in 1..M : Makes(c, txs[t]) = Held(c, NewUnspent(txs[t], hash)) /\ Makes(c, txs[t]) \in Int
  BY <1>1, NewHeld, HeldType
<1>3. \A t : BlockMakes(c, txs, t) = Total(f, t)
  BY DEF BlockMakes
<1>4. \A t \in 1..M : f[t] = Makes(c, txs[t]) /\ f[t] \in Int
  BY <1>2
<1> HIDE DEF f, M
<1>5. /\ Total(f, 0) = 0
      /\ \A t \in 0..M : Total(f, t) \in Int
      /\ \A t \in 1..M : Total(f, t) = Total(f, t - 1) + f[t]
  BY <1>1, <1>4, TotalSteps
<1> QED BY <1>2, <1>3, <1>4, <1>5 DEF M, MakesInSteps

(* The list after some transactions of a block: what is left of the list    *)
(* before it, and behind that what the block added.                         *)
Divided(old, new, u, txs, t, list) ==
    /\ list = old \o new
    /\ Len(new) > 0
    /\ \A c \in [OutputHashes -> Int] : Held(c, old) = Held(c, u) - BlockSpends(c, txs, t)
    /\ \A c \in [OutputHashes -> Int] : Held(c, new) = BlockMakes(c, txs, t)
    /\ Held(Values, list) % UINT32 = (Held(Values, u) + COINBASE_AMOUNT) % UINT32

(* What is left of the list can supply the next transaction. *)
LEMMA SuppliedNext ==
  ASSUME NEW E, Hashed(E, OutputHashes), NEW u \in Seq(E), NEW txs, Payable(txs, u),
         NEW t \in 2..Len(txs), NEW old, NEW new, NEW list,
         Divided(old, new, u, txs, t - 1, list)
  PROVE  Supplied(txs[t], OutputHashes, old)
<1> SUFFICES ASSUME NEW h \in OutputHashes
             PROVE  Spends(Counting(h, OutputHashes), txs[t], Len(txs[t].inputs))
                      <= Held(Counting(h, OutputHashes), old)
  BY DEF Supplied
<1> DEFINE c == Counting(h, OutputHashes)
           M == Len(txs)
           a == Held(c, u)
           b == BlockSpends(c, txs, t - 1)
           s == Spends(c, txs[t], Len(txs[t].inputs))
           d == BlockSpends(c, txs, t)
           e == BlockSpends(c, txs, M)
<1>1. c \in [OutputHashes -> Int] /\ \A x \in OutputHashes : c[x] \in Nat
  BY DEF Counting
<1>2. e <= a
  BY DEF Payable
<1> HIDE DEF c
<1>3. M \in Nat /\ t \in 1..M /\ t - 1 \in 1..M /\ M \in 1..M
  BY DEF Payable
<1>4. d = b + s /\ b \in Int /\ s \in Int /\ e \in Int /\ d <= e
  BY <1>1, <1>3, BlockSpendsSteps
<1>5. a \in Int
  BY <1>1, HeldType
<1>6. Held(c, old) = a - b
  BY <1>1 DEF Divided
<1> HIDE DEF a, b, s, d, e
<1>7. s <= a - b
  BY <1>2, <1>4, <1>5
<1> QED BY <1>6, <1>7 DEF c, s

(* The input of a coinbase finds no entry. *)
LEMMA CoinbaseFindsNothing ==
  ASSUME NEW E, Hashed(E, OutputHashes), NEW u \in Seq(E), NEW h, h \notin OutputHashes
  PROVE  {i \in 1..Len(u) : u[i].out.hash = h} = {} /\ Place(u, h) = 0
<1>1. \A i \in 1..Len(u) : u[i].out.hash # h
  BY DEF Hashed
<1>2. {i \in 1..Len(u) : u[i].out.hash = h} = {}
  BY <1>1
<1> QED BY <1>2 DEF Place, First

(* A coinbase leaves the entries before it alone. *)
LEMMA CoinbaseAppends ==
  ASSUME NEW E, Hashed(E, OutputHashes), NEW u \in Seq(E), NEW tx, IsCoinbase(tx), NEW hash
  PROVE  ProcessTransaction(u, tx, hash) = u \o NewUnspent(tx, hash)
<1> DEFINE run == Spending(u, tx)
<1>1. Len(tx.inputs) = 1 /\ Len(tx.inputs) \in Nat
  BY DEF IsCoinbase
<1>2. run[0] = u /\ run[1] = SpendInput(u, tx.inputs[1])
  <2>1. run[0] = u /\ \A n \in 1..Len(tx.inputs) : run[n] = SpendInput(run[n - 1], tx.inputs[n])
    BY <1>1, SpendTurns
  <2> HIDE DEF run
  <2>2. 1 \in 1..Len(tx.inputs)
    BY <1>1
  <2>3. run[1] = SpendInput(run[0], tx.inputs[1])
    BY <2>1, <2>2
  <2> QED BY <2>1, <2>3
<1>3. SpendInput(u, tx.inputs[1]) = u
  <2>1. {i \in 1..Len(u) : u[i].out.hash = tx.inputs[1].tx_out_hash} = {}
    BY CoinbaseFindsNothing DEF IsCoinbase
  <2> QED BY <2>1 DEF SpendInput, RemoveNode
<1> QED BY <1>1, <1>2, <1>3 DEF ProcessTransaction, SpendInputs

(* The coinbase, which comes first, only adds its output. *)
LEMMA CoinbaseProcessed ==
  ASSUME AmountsTold, NEW E, Genuine(E), NEW u \in Seq(E), NEW txs, Payable(txs, u),
         NEW hash, \A t \in 1..Len(txs) : NewUnspent(txs[t], hash) \in Seq(E)
  PROVE  \E new \in Seq(E) : Divided(u, new, u, txs, 1, ProcessTransaction(u, txs[1], hash))
<1> DEFINE tx == txs[1]
           new == NewUnspent(tx, hash)
           list == ProcessTransaction(u, tx, hash)
<1>1. IsCoinbase(tx)
  BY DEF Payable
<1>2. Hashed(E, OutputHashes)
  BY GenuineHashed
<1>3. list = u \o new
  <2> HIDE DEF tx
  <2> QED BY <1>1, <1>2, CoinbaseAppends
<1>0. 1 \in 1..Len(txs) /\ new \in Seq(E)
  BY DEF Payable
<1>4. Len(new) = 1 /\ Held(Values, new) = COINBASE_AMOUNT
  <2>1. Len(tx.outputs) \in Nat /\ Len(tx.outputs) = 1
    BY <1>1 DEF IsCoinbase
  <2>2. Len(new) = Len(tx.outputs) /\ Held(Values, new) = Paid(tx)
    BY <1>0, <2>1, NewValues
  <2> DEFINE f == [o \in 1..Len(tx.outputs) |-> tx.outputs[o].amount]
  <2>3. f[1] = COINBASE_AMOUNT /\ COINBASE_AMOUNT \in Int
    BY <1>1, AmountAssumption DEF IsCoinbase
  <2>4. Paid(tx) = Total(f, 1)
    BY <2>1 DEF Paid
  <2> HIDE DEF f
  <2>5. \A k \in 1..1 : f[k] \in Int
    BY <2>3
  <2>6. Total(f, 0) = 0 /\ \A n \in 1..1 : Total(f, n) = Total(f, n - 1) + f[n]
    BY <2>5, TotalSteps
  <2>7. Total(f, 1) = COINBASE_AMOUNT
    BY <2>3, <2>6
  <2> QED BY <2>1, <2>2, <2>4, <2>7
<1>5. new \in Seq(E)
  BY <1>0
<1>9. ASSUME NEW c \in [OutputHashes -> Int] PROVE Held(c, new) = BlockMakes(c, txs, 1)
  <2> HIDE DEF new
  <2>1. MakesInSteps(c, txs, hash)
    BY <1>2, BlockMakesSteps
  <2>2. BlockMakes(c, txs, 0) = 0
    BY <2>1 DEF MakesInSteps
  <2>3. /\ Makes(c, txs[1]) = Held(c, NewUnspent(txs[1], hash))
        /\ Makes(c, txs[1]) \in Int
        /\ BlockMakes(c, txs, 1) = BlockMakes(c, txs, 1 - 1) + Makes(c, txs[1])
    BY <1>0, <2>1 DEF MakesInSteps
  <2>4. NewUnspent(txs[1], hash) = new
    BY DEF new
  <2> QED BY <2>2, <2>3, <2>4
<1> HIDE DEF new
<1>6. Held(Values, u \o new) = Held(Values, u) + COINBASE_AMOUNT
  BY <1>2, <1>4, <1>5, ValuesType, HeldConcat
<1>7. ASSUME NEW c \in [OutputHashes -> Int]
       PROVE  Held(c, u) = Held(c, u) - BlockSpends(c, txs, 1)
  <2>1. Held(c, u) \in Int /\ BlockSpends(c, txs, 1) = 0
    BY <1>2, HeldType, BlockSpendsSteps
  <2> QED BY <2>1
<1> HIDE DEF list
<1>8. Divided(u, new, u, txs, 1, list)
  BY <1>3, <1>4, <1>6, <1>7, <1>9 DEF Divided
<1> QED BY <1>5, <1>8 DEF list

(* The list stays divided by the next transaction. *)
LEMMA NextProcessed ==
  ASSUME AmountsTold, NEW E, Genuine(E), NEW u \in Seq(E), NEW txs, Payable(txs, u),
         NEW t \in 2..Len(txs),
         NEW hash, \A i \in 1..Len(txs) : NewUnspent(txs[i], hash) \in Seq(E),
         NEW old \in Seq(E), NEW new \in Seq(E), NEW list,
         Divided(old, new, u, txs, t - 1, list)
  PROVE  \E rest \in Seq(E), added \in Seq(E) :
            Divided(rest, added, u, txs, t, ProcessTransaction(list, txs[t], hash))
<1> DEFINE tx == txs[t]
           longer == ProcessTransaction(list, tx, hash)
           N == Len(tx.inputs)
<1>1. Even(tx)
  BY DEF Payable
<1>2. Supplied(tx, OutputHashes, old) /\ Hashed(E, OutputHashes)
  BY GenuineHashed, SuppliedNext
<1>3. list = old \o new /\ Len(new) > 0
  BY DEF Divided
<1>4. Processed(old, new, tx, E, longer)
  <2>1. t \in 1..Len(txs)
    BY DEF Payable
  <2>2. NewUnspent(tx, hash) \in Seq(E)
    BY <2>1
  <2> QED BY <1>1, <1>2, <1>3, <2>2, TransactionProcessed
<1> HIDE DEF longer
<1>5. PICK rest \in Seq(E), added \in Seq(E) :
        /\ longer = rest \o added
        /\ Len(new) > 0 => Len(added) > 0
        /\ Remains(rest, old, OutputHashes, tx, N)
        /\ \A c \in [OutputHashes -> Int] : Held(c, added) = Held(c, new) + Makes(c, tx)
        /\ Held(Values, longer) % UINT32 = Held(Values, old \o new) % UINT32
  BY <1>4 DEF Processed
<1>6. ASSUME NEW c \in [OutputHashes -> Int]
      PROVE  Held(c, rest) = Held(c, u) - BlockSpends(c, txs, t)
  <2> DEFINE a == Held(c, u)
             b == BlockSpends(c, txs, t - 1)
             s == Spends(c, tx, N)
             d == BlockSpends(c, txs, t)
  <2>1. Held(c, rest) = Held(c, old) - s
    BY <1>5 DEF Remains
  <2>2. Held(c, old) = a - b
    BY DEF Divided
  <2>3. t - 1 \in 1..Len(txs)
    BY DEF Payable
  <2>4. d = b + s /\ s \in Int /\ b \in Int
    BY <2>3, BlockSpendsSteps
  <2>5. a \in Int
    BY <1>2, HeldType
  <2> HIDE DEF a, b, s, d
  <2>6. (a - b) - s = a - d
    BY <2>4, <2>5
  <2> QED BY <2>1, <2>2, <2>6 DEF a, d
<1>7. Held(Values, longer) % UINT32 = (Held(Values, u) + COINBASE_AMOUNT) % UINT32
  BY <1>3, <1>5 DEF Divided
<1>9. ASSUME NEW c \in [OutputHashes -> Int]
      PROVE  Held(c, added) = BlockMakes(c, txs, t)
  <2>1. t \in 1..Len(txs)
    BY DEF Payable
  <2>2. BlockMakes(c, txs, t) = BlockMakes(c, txs, t - 1) + Makes(c, tx)
    <3>1. MakesInSteps(c, txs, hash)
      BY <1>2, BlockMakesSteps
    <3> QED BY <2>1, <3>1 DEF MakesInSteps
  <2>3. Held(c, new) = BlockMakes(c, txs, t - 1)
    BY DEF Divided
  <2> QED BY <1>5, <2>2, <2>3
<1>8. Divided(rest, added, u, txs, t, longer)
  BY <1>3, <1>5, <1>6, <1>7, <1>9 DEF Divided
<1> QED BY <1>8 DEF longer

(* After each transaction of the block the list is a rest of the old one    *)
(* before what the block made.                                              *)
LEMMA BlockDivided ==
  ASSUME AmountsTold, NEW E, Genuine(E), NEW u, NEW txs, NEW hash,
         EntriesIn(E, u, txs, hash), Payable(txs, u)
  PROVE  \A t \in 1..Len(txs) : \E old \in Seq(E), new \in Seq(E) :
            Divided(old, new, u, txs, t, Updating(u, txs, hash)[t])
<1> DEFINE M == Len(txs)
           run == Updating(u, txs, hash)
           D(t) == \E old \in Seq(E), new \in Seq(E) : Divided(old, new, u, txs, t, run[t])
           T == {t \in 0..M : t = 0 \/ D(t)}
<1>1. M \in Nat /\ M > 0
  BY DEF Payable
<1>2. u \in Seq(E) /\ \A t \in 1..M : NewUnspent(txs[t], hash) \in Seq(E)
  BY DEF EntriesIn
<1>3. /\ run[0] = u
      /\ \A t \in 1..M : run[t] = ProcessTransaction(run[t - 1], txs[t], hash)
  BY <1>1, EntryTurns
<1> HIDE DEF run
<1>4. 0 \in T
  BY <1>1
<1>5. ASSUME NEW t \in 1..M, t - 1 \in T PROVE t \in T
  <2>1. t \in 0..M
    OBVIOUS
  <2>2. CASE t = 1
    <3>1. run[1] = ProcessTransaction(u, txs[1], hash)
      BY <1>3, <2>2
    <3>3. PICK new \in Seq(E) : Divided(u, new, u, txs, 1, run[1])
      BY <1>2, <3>1, CoinbaseProcessed
    <3> QED BY <1>2, <2>1, <2>2, <3>3
  <2>3. CASE t # 1
    <3>1. t \in 2..M /\ t - 1 # 0
      BY <2>3
    <3>2. PICK old \in Seq(E), new \in Seq(E) : Divided(old, new, u, txs, t - 1, run[t - 1])
      BY <1>5, <3>1
    <3>3. t \in 2..Len(txs) /\ \A i \in 1..Len(txs) : NewUnspent(txs[i], hash) \in Seq(E)
      BY <1>2, <3>1
    <3> DEFINE list == run[t - 1]
               next == run[t]
    <3>4. next = ProcessTransaction(list, txs[t], hash) /\ Divided(old, new, u, txs, t - 1, list)
      BY <1>3, <3>2
    <3> HIDE DEF list, next, T, M
    <3>5. \E rest \in Seq(E), added \in Seq(E) :
             Divided(rest, added, u, txs, t, ProcessTransaction(list, txs[t], hash))
      BY <1>2, <3>3, <3>4, NextProcessed
    <3> QED BY <2>1, <3>4, <3>5 DEF next, T
  <2> QED BY <2>2, <2>3
<1>6. 0..M \subseteq T
  <2> HIDE DEF T
  <2> QED BY <1>1, <1>4, <1>5, IntervalInduction
<1>7. \A t \in 1..M : D(t)
  BY <1>6
<1> QED BY <1>7 DEF run

(* A block adds the coinbase to what the list is worth, and nothing else.   *)
LEMMA BlockWorth ==
  ASSUME AmountsTold, NEW E, Genuine(E), NEW u, NEW txs, NEW hash,
         EntriesIn(E, u, txs, hash), Payable(txs, u)
  PROVE  Held(Values, UpdateUnspent(txs, hash, u)) % UINT32
           = (Held(Values, u) + COINBASE_AMOUNT) % UINT32
<1>1. Len(txs) \in Nat /\ Len(txs) \in 1..Len(txs)
  BY DEF Payable
<1>2. UpdateUnspent(txs, hash, u) = Updating(u, txs, hash)[Len(txs)]
  BY DEF UpdateUnspent
<1>3. PICK old \in Seq(E), new \in Seq(E) :
        Divided(old, new, u, txs, Len(txs), Updating(u, txs, hash)[Len(txs)])
  BY <1>1, BlockDivided
<1> QED BY <1>2, <1>3 DEF Divided

(* None of its inputs frees the tail of the list.                           *)
LEMMA BlockKeepsTail ==
  ASSUME AmountsTold, NEW E, Genuine(E), NEW u, NEW txs, NEW hash,
         EntriesIn(E, u, txs, hash), Payable(txs, u)
  PROVE  ~TailFreed(txs, hash, u)
<1> DEFINE run == Updating(u, txs, hash)
           list(t, n) == Spending(run[t - 1], txs[t])[n - 1]
<1>1. SUFFICES ASSUME NEW t \in 1..Len(txs), NEW n \in 1..Len(txs[t].inputs)
               PROVE  ~(/\ Len(list(t, n)) > 1
                        /\ Len(list(t, n)) = Place(list(t, n), txs[t].inputs[n].tx_out_hash))
  BY DEF TailFreed, Place
<1>2. Hashed(E, OutputHashes) /\ u \in Seq(E) /\ Len(txs) \in Nat
  BY GenuineHashed DEF EntriesIn, Payable
<1>3. run[0] = u
  BY <1>2, EntryTurns
<1> HIDE DEF run
<1>4. CASE t = 1
  <2>1. IsCoinbase(txs[1])
    BY DEF Payable
  <2>2. n = 1 /\ t - 1 = 0 /\ n - 1 = 0 /\ Len(txs[1].inputs) \in Nat
    BY <1>4, <2>1 DEF IsCoinbase
  <2>3. list(t, n) = u
    <3>1. list(t, n) = Spending(u, txs[1])[0]
      BY <1>3, <1>4, <2>2
    <3>2. Spending(u, txs[1])[0] = u
      BY <1>2, <2>2, SpendTurns
    <3> QED BY <3>1, <3>2
  <2>4. Place(u, txs[1].inputs[1].tx_out_hash) = 0
    BY <1>2, <2>1, CoinbaseFindsNothing DEF IsCoinbase
  <2> HIDE DEF list
  <2>5. Place(list(t, n), txs[t].inputs[n].tx_out_hash) = 0
    BY <1>4, <2>2, <2>3, <2>4
  <2> QED BY <2>5
<1>5. CASE t # 1
  <2>1. t \in 2..Len(txs) /\ t - 1 \in 1..Len(txs)
    BY <1>2, <1>5
  <2>2. PICK old \in Seq(E), new \in Seq(E) : Divided(old, new, u, txs, t - 1, run[t - 1])
    BY <2>1, BlockDivided DEF run
  <2>3. Even(txs[t])
    BY <2>1 DEF Payable
  <2> DEFINE before == run[t - 1]
  <2>4. Divided(old, new, u, txs, t - 1, before)
    BY <2>2
  <2> HIDE DEF before
  <2>5. before = old \o new /\ Len(new) > 0
    BY <2>4 DEF Divided
  <2>6. Supplied(txs[t], OutputHashes, old)
    BY <1>2, <2>1, <2>4, SuppliedNext
  <2>7. Place(Spending(old \o new, txs[t])[n - 1], txs[t].inputs[n].tx_out_hash)
           # Len(Spending(old \o new, txs[t])[n - 1])
    BY <2>3, <2>5, <2>6, NotTheTail
  <2>8. list(t, n) = Spending(old \o new, txs[t])[n - 1]
    BY <2>5 DEF before
  <2> HIDE DEF list
  <2> QED BY <2>7, <2>8
<1> QED BY <1>4, <1>5

-----------------------------------------------------------------------------
(* What the pool refers to is in the list.                                  *)

Refers(R, tx) ==
    Total([n \in 1..Len(tx.inputs) |-> IF Reference(tx.inputs[n]) \in R THEN 1 ELSE 0],
          Len(tx.inputs))

(* How many inputs of the transactions have a reference in R. *)
ReferAll(R, txs) == Total([i \in 1..Len(txs) |-> Refers(R, txs[i])], Len(txs))

(* How many entries of the list have one. *)
Listed(R, u) ==
    Total([i \in 1..Len(u) |-> IF Reference(TxInCreate(u[i])) \in R THEN 1 ELSE 0], Len(u))

(* Whatever references one looks at, the list has as many entries with them *)
(* as the transactions have inputs.                                         *)
Backed(txs, u) == \A R : ReferAll(R, txs) <= Listed(R, u)

(* That is a natural number. *)
LEMMA RefersType ==
  ASSUME NEW R, NEW tx, Len(tx.inputs) \in Nat
  PROVE  Refers(R, tx) \in Nat
<1> DEFINE N == Len(tx.inputs)
           f == [n \in 1..N |-> IF Reference(tx.inputs[n]) \in R THEN 1 ELSE 0]
<1>1. N \in Nat /\ 0 \in 0..N /\ N \in 0..N /\ \A n \in 1..N : f[n] \in Nat /\ f[n] \in Int
  OBVIOUS
<1> HIDE DEF f, N
<1>2. Total(f, 0) = 0 /\ Total(f, N) \in Int
  BY <1>1, TotalSteps
<1>3. Total(f, 0) <= Total(f, N)
  BY <1>1, TotalPrefix
<1>4. Total(f, N) \in Nat
  BY <1>2, <1>3
<1> QED BY <1>4 DEF Refers, f, N

(* The numbers of references of transactions, as weights. *)
RefersWeights(w, R, D) ==
    /\ w \in [D -> Int]
    /\ \A tx \in D : w[tx] = Refers(R, tx) /\ w[tx] >= 0
    /\ \A txs \in Seq(D) : ReferAll(R, txs) = Weight(w, txs)

(* Counting the inputs of transactions is a weight. *)
LEMMA ReferAllIsWeight ==
  ASSUME NEW R, NEW D, \A tx \in D : Len(tx.inputs) \in Nat
  PROVE  \E w : RefersWeights(w, R, D)
<1> DEFINE w == [tx \in D |-> Refers(R, tx)]
<1>1. \A tx \in D : Refers(R, tx) \in Nat
  BY RefersType
<1>2. w \in [D -> Int] /\ \A tx \in D : w[tx] = Refers(R, tx) /\ w[tx] >= 0
  BY <1>1
<1>3. ASSUME NEW txs \in Seq(D) PROVE ReferAll(R, txs) = Weight(w, txs)
  <2>1. [i \in 1..Len(txs) |-> Refers(R, txs[i])] = [i \in 1..Len(txs) |-> w[txs[i]]]
    <3>1. \A i \in 1..Len(txs) : txs[i] \in D
      OBVIOUS
    <3> HIDE DEF w
    <3> QED BY <1>2, <3>1
  <2> HIDE DEF w
  <2> QED BY <2>1 DEF ReferAll, Weight
<1> HIDE DEF w
<1> QED BY <1>2, <1>3 DEF RefersWeights

(* w counts the entries that have a reference in R. *)
ListedWeights(w, R, E) ==
    /\ w \in [E -> Int]
    /\ \A u \in Seq(E) : Listed(R, u) = Weight(w, u)

(* Counting entries is a weight. *)
LEMMA ListedIsWeight ==
  ASSUME NEW R, NEW E
  PROVE  \E w : ListedWeights(w, R, E)
<1> DEFINE w == [e \in E |-> IF Reference(TxInCreate(e)) \in R THEN 1 ELSE 0]
<1>1. w \in [E -> Int]
     /\ \A e \in E : w[e] = IF Reference(TxInCreate(e)) \in R THEN 1 ELSE 0
  OBVIOUS
<1>2. ASSUME NEW u \in Seq(E) PROVE Listed(R, u) = Weight(w, u)
  <2>1. [i \in 1..Len(u) |-> IF Reference(TxInCreate(u[i])) \in R THEN 1 ELSE 0]
          = [i \in 1..Len(u) |-> w[u[i]]]
    <3>1. \A i \in 1..Len(u) : u[i] \in E
      OBVIOUS
    <3> HIDE DEF w
    <3> QED BY <1>1, <3>1
  <2> HIDE DEF w
  <2> QED BY <2>1 DEF Listed, Weight
<1> HIDE DEF w
<1> QED BY <1>1, <1>2 DEF ListedWeights

(* Sorting the list loses nothing. *)
LEMMA BackedSorted ==
  ASSUME NEW txs, NEW u, IsSeq(u), Backed(txs, u)
  PROVE  Backed(txs, SortByAmount(u))
<1> DEFINE E == Members(u)
<1>1. u \in Seq(E)
  BY SeqOfMembers
<1> HIDE DEF E
<1>2. SUFFICES ASSUME NEW R PROVE Listed(R, SortByAmount(u)) = Listed(R, u)
  BY DEF Backed
<1>3. PICK w : ListedWeights(w, R, E)
  BY ListedIsWeight
<1>4. w \in [E -> Int] /\ SortByAmount(u) \in Seq(E)
  BY <1>1, <1>3, SortType DEF ListedWeights
<1>5. Weight(w, SortByAmount(u)) = Weight(w, u)
  BY <1>1, <1>4, WeightSort
<1> QED BY <1>1, <1>3, <1>4, <1>5 DEF ListedWeights

(* It gives a number. *)
LEMMA ListedType ==
  ASSUME NEW u, IsSeq(u), NEW R
  PROVE  Listed(R, u) \in Int
<1>1. PICK w : ListedWeights(w, R, Members(u))
  BY ListedIsWeight
<1> QED BY <1>1, SeqOfMembers, WeightType DEF ListedWeights

(* The purge only removes. *)
LEMMA BackedWithout ==
  ASSUME NEW D, \A tx \in D : Len(tx.inputs) \in Nat, NEW txs \in Seq(D),
         NEW u, IsSeq(u), Backed(txs, u), NEW m \in 1..Len(txs)
  PROVE  Backed(WithoutNode(txs, m), u)
<1> SUFFICES ASSUME NEW R PROVE ReferAll(R, WithoutNode(txs, m)) <= Listed(R, u)
  BY DEF Backed
<1>1. PICK w : RefersWeights(w, R, D)
  BY ReferAllIsWeight
<1>2. w \in [D -> Int] /\ WithoutNode(txs, m) \in Seq(D) /\ w[txs[m]] >= 0 /\ w[txs[m]] \in Int
  <2>1. txs[m] \in D
    OBVIOUS
  <2> QED BY <1>1, <2>1, WithoutNodeType DEF RefersWeights
<1>3. Weight(w, WithoutNode(txs, m)) = Weight(w, txs) - w[txs[m]]
  BY <1>2, WeightWithout
<1>4. Weight(w, txs) \in Int /\ Weight(w, txs) <= Listed(R, u)
  <2>1. Weight(w, txs) = ReferAll(R, txs)
    BY <1>1 DEF RefersWeights
  <2> QED BY <1>2, <2>1, WeightType DEF Backed
<1>5. Listed(R, u) \in Int
  BY ListedType
<1> DEFINE a == Weight(w, txs)
           b == w[txs[m]]
           l == Listed(R, u)
<1> HIDE DEF a, b, l
<1>6. a - b <= l
  BY <1>2, <1>4, <1>5 DEF a, b, l
<1>7. ReferAll(R, WithoutNode(txs, m)) = a - b
  BY <1>1, <1>2, <1>3 DEF RefersWeights, a, b
<1> QED BY <1>6, <1>7 DEF l

(* What the purge keeps is backed. *)
LEMMA BackedPurged ==
  ASSUME NEW txs, IsTransactionList(txs), NEW v, NEW u, IsSeq(u), Backed(txs, u)
  PROVE  Backed(Purge(txs, v), u)
<1> DEFINE D == Members(txs)
           S == {s \in Seq(D) : Backed(s, u)}
<1>1. txs \in Seq(D) /\ \A tx \in D : Len(tx.inputs) \in Nat
  BY SeqOfMembers DEF IsTransactionList, IsTransaction, IsSeq, Members
<1> HIDE DEF D
<1>2. ASSUME NEW s \in S PROVE RemoveInvalid(s, v) \in S
  <2> DEFINE hits == {i \in 1..Len(s) : ~TransactionIsValid(s[i], v)}
  <2>1. s \in Seq(D) /\ Backed(s, u) /\ Len(s) \in Nat /\ hits \subseteq 1..Len(s)
    BY <1>2
  <2>2. RemoveInvalid(s, v) = RemoveNode(s, hits)
    BY DEF RemoveInvalid
  <2> HIDE DEF hits
  <2>3. CASE hits = {}
    BY <2>1, <2>2, <2>3 DEF RemoveNode
  <2>4. CASE hits # {}
    <3> DEFINE m == First(hits)
    <3>1. m \in 1..Len(s)
      BY <2>1, <2>4, FirstHit
    <3>2. RemoveInvalid(s, v) = WithoutNode(s, m)
      BY <2>2, <2>4 DEF RemoveNode
    <3> HIDE DEF m
    <3>3. Backed(WithoutNode(s, m), u) /\ WithoutNode(s, m) \in Seq(D)
      BY <1>1, <2>1, <3>1, BackedWithout, WithoutNodeType
    <3> QED BY <3>2, <3>3
  <2> QED BY <2>3, <2>4
<1>3. Purge(txs, v) \in S
  <2>1. txs \in S /\ S \in SUBSET Seq(D)
    BY <1>1
  <2> HIDE DEF S
  <2> QED BY <1>2, <2>1, PurgeStays
<1> QED BY <1>3

(* What a list of transactions refers to. *)
AllReferences(txs) == UNION {References(txs[i]) : i \in 1..Len(txs)}

(* An entry that a transaction of the pool refers to is not selected.       *)
LEMMA SelectableUnused ==
  ASSUME NEW e, NEW sender, NEW txs, Selectable(e, sender, txs)
  PROVE  Reference(TxInCreate(e)) \notin AllReferences(txs)
<1> SUFFICES ASSUME NEW i \in 1..Len(txs), NEW n \in 1..Len(txs[i].inputs),
                    Reference(TxInCreate(e)) = Reference(txs[i].inputs[n])
             PROVE  FALSE
  BY DEF AllReferences, References
<1>1. /\ txs[i].inputs[n].block_hash = e.block_hash
      /\ txs[i].inputs[n].tx_id = e.tx_id
      /\ txs[i].inputs[n].tx_out_hash = e.out.hash
  BY DEF Reference, TxInCreate
<1>2. SpentBy(txs[i], e)
  BY <1>1 DEF SpentBy
<1> QED BY <1>2 DEF Selectable, UsedInPool

(* Each entry is selected at most once. *)
LEMMA SelectedListed ==
  ASSUME NEW u, IsUnspentList(u), NEW sender, NEW amount, NEW txs, NEW R,
         NEW tx, tx.inputs = Selection(sender, amount, u, txs).inputs
  PROVE  Refers(R, tx) <= Listed(R \ AllReferences(txs), u)
<1> DEFINE N == Len(u)
           I == SelectableInputs(u, sender, txs)
           Q == R \ AllReferences(txs)
           w == [in \in I |-> IF Reference(in) \in R THEN 1 ELSE 0]
           l == [k \in 1..N |-> IF Reference(TxInCreate(u[k])) \in Q THEN 1 ELSE 0]
<1>1. N \in Nat /\ \A n \in 1..N : u[n].out.amount \in Int
  BY AmountAssumption DEF IsUnspentList, IsSeq, Amount
<1>2. PICK scan : IsScan(scan, sender, amount, u, txs)
  BY <1>1, SelectionTurns
<1>3. /\ \A n \in 0..N : scan[n].inputs \in Seq(I)
      /\ scan[0] = NothingSelected
      /\ \A n \in 1..N : scan[n] = SelectNext(scan[n - 1], u[n], sender, amount, txs)
      /\ Selection(sender, amount, u, txs) = scan[N]
  BY <1>2 DEF IsScan, Selections
<1>4. /\ w \in [I -> Int]
      /\ \A in \in I : w[in] = IF Reference(in) \in R THEN 1 ELSE 0
  OBVIOUS
<1>5. \A k \in 1..N : /\ Selectable(u[k], sender, txs) => TxInCreate(u[k]) \in I
                      /\ Selectable(u[k], sender, txs) /\ Reference(TxInCreate(u[k])) \in R => l[k] = 1
                      /\ l[k] \in {0, 1}
  <2>1. \A k \in 1..N : Selectable(u[k], sender, txs) => TxInCreate(u[k]) \in I
    BY DEF SelectableInputs
  <2>2. \A k \in 1..N : Selectable(u[k], sender, txs) /\ Reference(TxInCreate(u[k])) \in R
                          => Reference(TxInCreate(u[k])) \in Q
    BY SelectableUnused
  <2> HIDE DEF I, Q
  <2> QED BY <2>1, <2>2
<1>6. Listed(Q, u) = Total(l, N)
  BY DEF Listed
<1> HIDE DEF w, l, N, I, Q
<1>7. /\ Total(l, 0) = 0
      /\ \A n \in 0..N : Total(l, n) \in Int
      /\ \A n \in 1..N : Total(l, n) = Total(l, n - 1) + l[n]
  <2>1. \A k \in 1..N : l[k] \in Int
    BY <1>5
  <2> QED BY <1>1, <2>1, TotalSteps
<1> DEFINE T == {n \in 0..N : Weight(w, scan[n].inputs) <= Total(l, n)}
<1>8. 0 \in T
  <2>1. 0 \in 0..N
    BY <1>1
  <2>2. scan[0].inputs = <<>> /\ scan[0].inputs \in Seq(I)
    BY <1>3, <2>1 DEF NothingSelected
  <2>3. \A i \in 1..Len(scan[0].inputs) : w[scan[0].inputs[i]] = 0
    BY <2>2
  <2>4. Weight(w, scan[0].inputs) = 0
    BY <2>2, <2>3, WeightZero
  <2> QED BY <1>7, <2>1, <2>4
<1>9. ASSUME NEW n \in 1..N, n - 1 \in T PROVE n \in T
  <2> DEFINE old == scan[n - 1]
             a == Weight(w, old.inputs)
             b == Total(l, n - 1)
  <2>1. n \in 0..N /\ n - 1 \in 0..N
    BY <1>1
  <2>2. a <= b
    BY <1>9
  <2> HIDE DEF T
  <2>3. scan[n] = SelectNext(old, u[n], sender, amount, txs)
    BY <1>3
  <2>4. old.inputs \in Seq(I)
    BY <1>3, <2>1
  <2> HIDE DEF old
  <2>5. a \in Int /\ b \in Int /\ l[n] \in {0, 1} /\ Total(l, n) = b + l[n]
    BY <1>4, <1>5, <1>7, <2>1, <2>4, WeightType
  <2>6. CASE scan[n] = old
    <3>1. Weight(w, scan[n].inputs) = a
      BY <2>6
    <3> HIDE DEF a, b
    <3>2. a <= b + l[n]
      BY <2>2, <2>5
    <3> QED BY <2>1, <2>5, <3>1, <3>2 DEF T
  <2>7. CASE scan[n] # old
    <3> DEFINE in == TxInCreate(u[n])
    <3>1. Selectable(u[n], sender, txs) /\ scan[n].inputs = Append(old.inputs, in)
      BY <2>3, <2>7 DEF SelectNext
    <3>2. in \in I
      BY <1>5, <3>1
    <3>3. w[in] = IF Reference(in) \in R THEN 1 ELSE 0
      BY <1>4, <3>2
    <3>4. Reference(in) \in R => l[n] = 1
      BY <1>5, <3>1
    <3> HIDE DEF in
    <3>5. Weight(w, scan[n].inputs) = a + w[in]
      BY <1>4, <2>4, <3>1, <3>2, WeightAppend
    <3>6. w[in] \in {0, 1} /\ w[in] <= l[n]
      BY <2>5, <3>3, <3>4
    <3> HIDE DEF a, b
    <3>7. a + w[in] <= b + l[n]
      BY <2>2, <2>5, <3>6
    <3> QED BY <2>1, <2>5, <3>5, <3>7 DEF T
  <2> QED BY <2>6, <2>7
<1>10. N \in T
  <2> HIDE DEF T
  <2>1. 0..N \subseteq T
    BY <1>1, <1>8, <1>9, IntervalInduction
  <2> QED BY <1>1, <2>1
<1>11. Refers(R, tx) = Weight(w, tx.inputs)
  <2>1. tx.inputs \in Seq(I)
    <3>1. N \in 0..N
      BY <1>1
    <3> QED BY <1>3, <3>1
  <2>2. \A i \in 1..Len(tx.inputs) :
           w[tx.inputs[i]] = IF Reference(tx.inputs[i]) \in R THEN 1 ELSE 0
    BY <1>4, <2>1
  <2>3. [i \in 1..Len(tx.inputs) |-> w[tx.inputs[i]]]
          = [i \in 1..Len(tx.inputs) |-> IF Reference(tx.inputs[i]) \in R THEN 1 ELSE 0]
    BY <2>2
  <2> QED BY <2>3 DEF Refers, Weight
<1>12. Weight(w, tx.inputs) <= Total(l, N)
  BY <1>3, <1>10
<1> QED BY <1>6, <1>11, <1>12 DEF Q

(* Signed, the selected inputs refer to the same entries.                   *)
LEMMA CreatedRefers ==
  ASSUME NEW u, IsUnspentList(u), NEW sender, NEW receiver, NEW amount, NEW txs, NEW R
  PROVE  LET tx == TransactionCreate(sender, receiver, amount, u, txs)
         IN  /\ Len(tx.inputs) \in Nat
             /\ Refers(R, tx) <= Listed(R \ AllReferences(txs), u)
<1> DEFINE sel == Selection(sender, amount, u, txs)
           outputs == SendAmount(sender, receiver, amount, sel.total)
           id == TransactionHash(sel.inputs, outputs)
           signed == SignInputs(sel.inputs, id, sender, u)
           tx == TransactionCreate(sender, receiver, amount, u, txs)
           raw == [inputs |-> sel.inputs]
<1>1. tx.inputs = signed
  BY DEF TransactionCreate
<1>2. sel.inputs \in Seq(SelectableInputs(u, sender, txs))
  <2>1. Len(u) \in Nat /\ \A n \in 1..Len(u) : u[n].out.amount \in Int
    BY AmountAssumption DEF IsUnspentList, IsSeq, Amount
  <2> QED BY <2>1, SelectionType
<1>3. Refers(R, raw) <= Listed(R \ AllReferences(txs), u)
  <2>1. raw.inputs = Selection(sender, amount, u, txs).inputs
    OBVIOUS
  <2> HIDE DEF raw
  <2> QED BY <2>1, SelectedListed
<1>4. /\ Len(signed) = Len(sel.inputs)
      /\ \A n \in 1..Len(sel.inputs) : Reference(signed[n]) = Reference(sel.inputs[n])
  <2> DEFINE inputs == sel.inputs
  <2>1. inputs \in Seq(SelectableInputs(u, sender, txs))
    BY <1>2
  <2> HIDE DEF inputs, id
  <2> QED BY <2>1, SignedInputs DEF inputs
<1> HIDE DEF signed, sel, tx
<1>5. Refers(R, tx) = Refers(R, raw)
  <2>1. [n \in 1..Len(tx.inputs) |-> IF Reference(tx.inputs[n]) \in R THEN 1 ELSE 0]
          = [n \in 1..Len(sel.inputs) |-> IF Reference(sel.inputs[n]) \in R THEN 1 ELSE 0]
    BY <1>1, <1>4
  <2>2. raw.inputs = sel.inputs
    OBVIOUS
  <2> HIDE DEF raw
  <2> QED BY <1>1, <1>4, <2>1, <2>2 DEF Refers
<1>6. Len(tx.inputs) \in Nat
  BY <1>1, <1>2, <1>4
<1> QED BY <1>3, <1>5, <1>6 DEF tx

(* References that the transactions do not have do not count.               *)
LEMMA ReferAllOwn ==
  ASSUME NEW txs, NEW R
  PROVE  ReferAll(R \cap AllReferences(txs), txs) = ReferAll(R, txs)
<1> DEFINE Q == R \cap AllReferences(txs)
<1>1. ASSUME NEW i \in 1..Len(txs) PROVE Refers(Q, txs[i]) = Refers(R, txs[i])
  <2> DEFINE inputs == txs[i].inputs
  <2>1. ASSUME NEW n \in 1..Len(inputs)
        PROVE  Reference(inputs[n]) \in Q <=> Reference(inputs[n]) \in R
    <3>1. Reference(inputs[n]) \in References(txs[i])
      BY DEF References
    <3>2. Reference(inputs[n]) \in AllReferences(txs)
      BY <3>1 DEF AllReferences
    <3> QED BY <3>2
  <2> HIDE DEF Q, inputs
  <2>2. [n \in 1..Len(inputs) |-> IF Reference(inputs[n]) \in Q THEN 1 ELSE 0]
          = [n \in 1..Len(inputs) |-> IF Reference(inputs[n]) \in R THEN 1 ELSE 0]
    BY <2>1
  <2> QED BY <2>2 DEF Refers, inputs
<1> HIDE DEF Q
<1>2. [i \in 1..Len(txs) |-> Refers(Q, txs[i])] = [i \in 1..Len(txs) |-> Refers(R, txs[i])]
  BY <1>1
<1>3. ReferAll(Q, txs) = ReferAll(R, txs)
  BY <1>2 DEF ReferAll
<1> QED BY <1>3 DEF Q

(* An entry is counted in one of two parts. *)
LEMMA ListedParts ==
  ASSUME NEW u, IsSeq(u), NEW R, NEW P
  PROVE  Listed(R, u) = Listed(R \cap P, u) + Listed(R \ P, u)
<1> DEFINE N == Len(u)
           f == [i \in 1..N |-> IF Reference(TxInCreate(u[i])) \in R \cap P THEN 1 ELSE 0]
           g == [i \in 1..N |-> IF Reference(TxInCreate(u[i])) \in R \ P THEN 1 ELSE 0]
           h == [i \in 1..N |-> IF Reference(TxInCreate(u[i])) \in R THEN 1 ELSE 0]
<1>1. N \in Nat
  BY DEF IsSeq
<1>2. \A k \in 1..N : f[k] \in Int /\ g[k] \in Int /\ h[k] = f[k] + g[k]
  OBVIOUS
<1>3. /\ Listed(R, u) = Total(h, N)
      /\ Listed(R \cap P, u) = Total(f, N)
      /\ Listed(R \ P, u) = Total(g, N)
  BY DEF Listed
<1> HIDE DEF f, g, h, N
<1>4. Total(h, N) = Total(f, N) + Total(g, N)
  BY <1>1, <1>2, TotalPlus
<1> QED BY <1>3, <1>4

(* A transaction that refers to unused entries only can join the pool.      *)
LEMMA BackedAppend ==
  ASSUME NEW txs, IsTransactionList(txs), NEW u, IsSeq(u), Backed(txs, u), NEW tx,
         Len(tx.inputs) \in Nat,
         \A R : Refers(R, tx) <= Listed(R \ AllReferences(txs), u)
  PROVE  Backed(Append(txs, tx), u)
<1> SUFFICES ASSUME NEW R PROVE ReferAll(R, Append(txs, tx)) <= Listed(R, u)
  BY DEF Backed
<1> DEFINE D == Members(txs) \cup {tx}
           P == AllReferences(txs)
<1>1. txs \in Seq(D) /\ tx \in D /\ Append(txs, tx) \in Seq(D)
  <2>1. txs \in Seq(Members(txs))
    BY SeqOfMembers DEF IsTransactionList
  <2> QED BY <2>1
<1>2. \A d \in D : Len(d.inputs) \in Nat
  BY DEF IsTransactionList, IsTransaction, IsSeq, Members
<1> HIDE DEF D, P
<1>3. PICK w : RefersWeights(w, R, D)
  BY <1>2, ReferAllIsWeight
<1>4. w \in [D -> Int] /\ w[tx] = Refers(R, tx)
  BY <1>1, <1>3 DEF RefersWeights
<1>5. Weight(w, Append(txs, tx)) = Weight(w, txs) + w[tx] /\ Weight(w, txs) \in Int
  BY <1>1, <1>4, WeightAppend, WeightType
<1>6. ReferAll(R, Append(txs, tx)) = ReferAll(R, txs) + Refers(R, tx)
  BY <1>1, <1>3, <1>4, <1>5 DEF RefersWeights
<1>7. ReferAll(R, txs) \in Int /\ Refers(R, tx) \in Int
  BY <1>1, <1>3, <1>4, <1>5 DEF RefersWeights
<1>8. ReferAll(R, txs) <= Listed(R \cap P, u)
  <2>1. ReferAll(R \cap P, txs) = ReferAll(R, txs)
    BY ReferAllOwn DEF P
  <2>2. ReferAll(R \cap P, txs) <= Listed(R \cap P, u)
    BY DEF Backed
  <2> QED BY <2>1, <2>2
<1>9. Refers(R, tx) <= Listed(R \ P, u)
  BY DEF P
<1>10. /\ Listed(R, u) = Listed(R \cap P, u) + Listed(R \ P, u)
       /\ Listed(R \cap P, u) \in Int /\ Listed(R \ P, u) \in Int
  BY ListedParts, ListedType
<1> DEFINE a == ReferAll(R, txs)
           b == Refers(R, tx)
           m == Listed(R \cap P, u)
           n == Listed(R \ P, u)
<1> HIDE DEF a, b, m, n
<1>11. a + b <= m + n
  BY <1>7, <1>8, <1>9, <1>10 DEF a, b, m, n
<1> QED BY <1>6, <1>10, <1>11 DEF a, b, m, n

(* send keeps the pool backed: it selects entries that no pending           *)
(* transaction refers to.                                                   *)
LEMMA SendBacked ==
  ASSUME IInv, Backed(pool, unspent), NEW amount, NEW receiver, Send(amount, receiver)
  PROVE  Backed(pool', unspent)
<1> DEFINE tx == TransactionCreate(wallet, receiver, amount % UINT32, unspent, pool)
<1>1. pool' = Append(pool, tx)
  BY DEF Send
<1>2. IsUnspentList(unspent) /\ IsSeq(unspent) /\ IsTransactionList(pool)
  BY DEF IInv, TypeOK, IsUnspentList
<1>3. /\ Len(tx.inputs) \in Nat
      /\ \A R : Refers(R, tx) <= Listed(R \ AllReferences(pool), unspent)
  BY <1>2, CreatedRefers
<1> HIDE DEF tx
<1>4. Backed(Append(pool, tx), unspent)
  BY <1>2, <1>3, BackedAppend
<1> QED BY <1>1, <1>4

-----------------------------------------------------------------------------
(* A drafted block can be paid from the list.                               *)

(* Every output of the transactions is what tx_out_create makes. *)
MadeOutputs(tx) == \A o \in 1..Len(tx.outputs) : IsOutput(tx.outputs[o])

(* All of them have outputs of transaction_create. *)
Made(txs) == \A i \in 1..Len(txs) : MadeOutputs(txs[i])

(* An input of a valid transaction has the hash of an entry. *)
LEMMA ValidHash ==
  ASSUME NEW u, IsSeq(u), NEW tx, TransactionIsValid(tx, u), NEW n \in 1..Len(tx.inputs)
  PROVE  LET k == First(Matches(tx.inputs[n], u))
         IN  /\ k \in 1..Len(u)
             /\ Reference(tx.inputs[n]) = Reference(TxInCreate(u[k]))
             /\ tx.inputs[n].tx_out_hash = u[k].out.hash
<1> DEFINE hits == Matches(tx.inputs[n], u)
           k == First(hits)
<1>1. Len(u) \in Nat /\ hits \subseteq 1..Len(u)
  BY DEF IsSeq, Matches
<1>2. k # 0
  BY DEF TransactionIsValid, Matches
<1>3. hits # {}
  BY <1>2 DEF First
<1>4. k \in hits
  <2> HIDE DEF hits
  <2> QED BY <1>1, <1>3, FirstHit
<1> HIDE DEF k
<1>5. k \in 1..Len(u) /\ InOutMatch(tx.inputs[n], u[k])
  BY <1>4 DEF Matches
<1>6. /\ Reference(tx.inputs[n]) = Reference(TxInCreate(u[k]))
      /\ tx.inputs[n].tx_out_hash = u[k].out.hash
  BY <1>5 DEF InOutMatch, Reference, TxInCreate
<1> QED BY <1>5, <1>6 DEF k

(* transaction_is_valid compares what the inputs and the outputs are worth. *)
LEMMA ValidIsEven ==
  ASSUME AmountsTold, NEW u, IsSeq(u), Genuine(Members(u)),
         NEW tx, IsTransaction(tx), MadeOutputs(tx), TransactionIsValid(tx, u)
  PROVE  Even(tx)
<1> DEFINE N == Len(tx.inputs)
           M == Len(tx.outputs)
           k(n) == First(Matches(tx.inputs[n], u))
           f == [n \in 1..N |-> u[k(n)].out.amount]
           g == [o \in 1..M |-> tx.outputs[o].amount]
<1>1. N \in Nat /\ M \in Nat
  BY DEF IsTransaction, IsSeq
<1>2. \A n \in 1..N : k(n) \in 1..Len(u) /\ tx.inputs[n].tx_out_hash = u[k(n)].out.hash
  BY ValidHash
<1>3. Sum32(f, N) = Sum32(g, M)
  <2> DEFINE matched == [n \in 1..N |-> First({j \in 1..Len(u) : InOutMatch(tx.inputs[n], u[j])})]
  <2>1. matched = [n \in 1..N |-> k(n)]
    BY DEF Matches
  <2>2. Sum32([n \in 1..N |-> u[matched[n]].out.amount], N) = Sum32(g, M)
    BY DEF TransactionIsValid
  <2>3. [n \in 1..N |-> u[matched[n]].out.amount] = f
    <3> HIDE DEF k, matched
    <3>1. \A n \in 1..N : matched[n] = k(n)
      BY <2>1
    <3> QED BY <3>1
  <2> QED BY <2>2, <2>3
<1> HIDE DEF k
<1>4. \A n \in 1..N : IsOutput(u[k(n)].out)
  BY <1>2 DEF Genuine, Members
<1>5. \A n \in 1..N : /\ tx.inputs[n].tx_out_hash \in OutputHashes
                      /\ f[n] \in Int
                      /\ Values[tx.inputs[n].tx_out_hash] = f[n]
  <2>1. Amount \subseteq Int
    BY AmountAssumption DEF Amount
  <2>2. \A n \in 1..N : f[n] = u[k(n)].out.amount
    OBVIOUS
  <2> HIDE DEF f
  <2> QED BY <1>2, <1>4, <2>1, <2>2, ValueOfOutput
<1>6. Spends(Values, tx, N) = Total(f, N)
  <2>1. [n \in 1..N |-> Values[tx.inputs[n].tx_out_hash]] = [n \in 1..N |-> f[n]]
    <3> HIDE DEF f
    <3> QED BY <1>5
  <2>2. [n \in 1..N |-> f[n]] = f
    OBVIOUS
  <2> QED BY <2>1, <2>2 DEF Spends
<1>7. Paid(tx) = Total(g, M)
  BY DEF Paid
<1>8. \A o \in 1..M : g[o] \in Int
  BY AmountAssumption DEF IsTransaction, Amount
<1> HIDE DEF f, g
<1>9. Sum32(f, N) = Total(f, N) % UINT32 /\ Sum32(g, M) = Total(g, M) % UINT32
  BY <1>1, <1>5, <1>8, Sum32IsTotal
<1>10. HashedInputs(tx, OutputHashes)
  BY <1>1, <1>5 DEF HashedInputs
<1>11. Spends(Values, tx, N) % UINT32 = Paid(tx) % UINT32
  BY <1>3, <1>6, <1>7, <1>9
<1> QED BY <1>1, <1>10, <1>11 DEF Even, MadeOutputs

(* What the entries with a hash are referred to by. *)
Referred(h, u) ==
    {Reference(TxInCreate(u[j])) : j \in {i \in 1..Len(u) : u[i].out.hash = h}}

(* The entries with the references of a hash are those of the hash. *)
LEMMA ReferredHash ==
  ASSUME NEW u, NEW h, NEW j \in 1..Len(u)
  PROVE  Reference(TxInCreate(u[j])) \in Referred(h, u) <=> u[j].out.hash = h
<1>1. ASSUME Reference(TxInCreate(u[j])) \in Referred(h, u)
      PROVE  u[j].out.hash = h
  <2>1. PICK i \in 1..Len(u) : /\ u[i].out.hash = h
                               /\ Reference(TxInCreate(u[j])) = Reference(TxInCreate(u[i]))
    BY <1>1 DEF Referred
  <2> QED BY <2>1 DEF Reference, TxInCreate
<1>2. ASSUME u[j].out.hash = h
      PROVE  Reference(TxInCreate(u[j])) \in Referred(h, u)
  BY <1>2 DEF Referred
<1> QED BY <1>1, <1>2

(* Counting the hash of an output is counting these references.             *)
LEMMA SpendsAreReferences ==
  ASSUME NEW u, IsSeq(u), NEW tx, TransactionIsValid(tx, u),
         NEW H, \A n \in 1..Len(tx.inputs) : tx.inputs[n].tx_out_hash \in H, NEW h \in H
  PROVE  Spends(Counting(h, H), tx, Len(tx.inputs)) = Refers(Referred(h, u), tx)
<1> DEFINE N == Len(tx.inputs)
           R == Referred(h, u)
           c == Counting(h, H)
<1>1. ASSUME NEW n \in 1..N
      PROVE  c[tx.inputs[n].tx_out_hash] = IF Reference(tx.inputs[n]) \in R THEN 1 ELSE 0
  <2>1. PICK k \in 1..Len(u) : /\ Reference(tx.inputs[n]) = Reference(TxInCreate(u[k]))
                               /\ tx.inputs[n].tx_out_hash = u[k].out.hash
    <3> DEFINE k == First(Matches(tx.inputs[n], u))
    <3>1. /\ k \in 1..Len(u)
          /\ Reference(tx.inputs[n]) = Reference(TxInCreate(u[k]))
          /\ tx.inputs[n].tx_out_hash = u[k].out.hash
      BY ValidHash
    <3> HIDE DEF k
    <3> QED BY <3>1
  <2>2. Reference(tx.inputs[n]) \in R <=> tx.inputs[n].tx_out_hash = h
    BY <2>1, ReferredHash
  <2>3. c[tx.inputs[n].tx_out_hash] = IF tx.inputs[n].tx_out_hash = h THEN 1 ELSE 0
    BY DEF Counting
  <2> HIDE DEF R, c
  <2> QED BY <2>2, <2>3
<1> HIDE DEF c, R
<1>2. [n \in 1..N |-> c[tx.inputs[n].tx_out_hash]]
        = [n \in 1..N |-> IF Reference(tx.inputs[n]) \in R THEN 1 ELSE 0]
  BY <1>1
<1>3. Spends(c, tx, N) = Refers(R, tx)
  BY <1>2 DEF Spends, Refers
<1> QED BY <1>3 DEF c, R

(* Counting the entries of a hash is counting those with its references. *)
LEMMA HeldAreListed ==
  ASSUME NEW u, IsSeq(u), NEW H, Hashed(Members(u), H), NEW h \in H
  PROVE  Held(Counting(h, H), u) = Listed(Referred(h, u), u)
<1> DEFINE R == Referred(h, u)
           c == Counting(h, H)
<1>1. ASSUME NEW i \in 1..Len(u)
      PROVE  c[u[i].out.hash] = IF Reference(TxInCreate(u[i])) \in R THEN 1 ELSE 0
  <2>1. Reference(TxInCreate(u[i])) \in R <=> u[i].out.hash = h
    BY ReferredHash
  <2>2. u[i].out.hash \in H
    BY DEF Hashed, Members
  <2>3. c[u[i].out.hash] = IF u[i].out.hash = h THEN 1 ELSE 0
    BY <2>2 DEF Counting
  <2> HIDE DEF R, c
  <2> QED BY <2>1, <2>3
<1> HIDE DEF c, R
<1>2. [i \in 1..Len(u) |-> c[u[i].out.hash]]
        = [i \in 1..Len(u) |-> IF Reference(TxInCreate(u[i])) \in R THEN 1 ELSE 0]
  BY <1>1
<1>3. Held(c, u) = Listed(R, u)
  BY <1>2 DEF Held, Listed
<1> QED BY <1>3 DEF c, R

(* The parts of a list with a first element. *)
LEMMA ConsParts ==
  ASSUME NEW D, NEW first, NEW rest \in Seq(D), NEW list, list = <<first>> \o rest
  PROVE  /\ Len(rest) \in Nat /\ Len(list) = Len(rest) + 1
         /\ list[1] = first
         /\ \A i \in 1..Len(rest) : i + 1 \in 2..Len(list) /\ list[i + 1] = rest[i]
         /\ \A i \in 2..Len(list) : i - 1 \in 1..Len(rest) /\ list[i] = rest[i - 1]
         /\ \A i \in 1..Len(list) : i = 1 \/ i \in 2..Len(list)
<1> DEFINE E == D \cup {first}
           a == <<first>>
<1>1. a \in Seq(E) /\ rest \in Seq(E) /\ Len(a) = 1 /\ a[1] = first
  OBVIOUS
<1> HIDE DEF E, a
<1>2. /\ Len(list) = 1 + Len(rest) /\ Len(rest) \in Nat
      /\ \A i \in 1..1 : list[i] = a[i]
      /\ \A i \in 1..Len(rest) : list[1 + i] = rest[i]
  <2>1. list = a \o rest
    BY DEF a
  <2> QED BY <1>1, <2>1, ConcatParts
<1>3. \A i \in 1..Len(rest) : i + 1 \in 2..Len(list) /\ i + 1 = 1 + i
  BY <1>2
<1>4. \A i \in 2..Len(list) : i - 1 \in 1..Len(rest) /\ 1 + (i - 1) = i
  BY <1>2
<1>5. \A i \in 1..Len(list) : i = 1 \/ i \in 2..Len(list)
  BY <1>2
<1> QED BY <1>1, <1>2, <1>3, <1>4, <1>5

(* What a block spends is what the transactions behind its coinbase refer   *)
(* to.                                                                      *)
LEMMA BlockSpendsReferAll ==
  ASSUME NEW D, \A tx \in D : Len(tx.inputs) \in Nat, NEW first, NEW kept \in Seq(D),
         NEW R, NEW c,
         \A i \in 1..Len(kept) : Spends(c, kept[i], Len(kept[i].inputs)) = Refers(R, kept[i])
  PROVE  LET txs == <<first>> \o kept
         IN  BlockSpends(c, txs, Len(txs)) = ReferAll(R, kept)
<1> DEFINE txs == <<first>> \o kept
           K == Len(kept)
           s(i) == Spends(c, txs[i], Len(txs[i].inputs))
           f == [i \in 1..1 |-> 0]
           g == [i \in 1..K |-> Refers(R, kept[i])]
           h == [i \in 1..Len(txs) |-> IF i = 1 THEN 0 ELSE s(i)]
<1>1. /\ K \in Nat /\ Len(txs) = K + 1
      /\ \A i \in 1..K : i + 1 \in 2..Len(txs) /\ txs[i + 1] = kept[i]
  <2> HIDE DEF txs
  <2> QED BY ConsParts DEF txs
<1>2. BlockSpends(c, txs, Len(txs)) = Total(h, K + 1) /\ ReferAll(R, kept) = Total(g, K)
  <2>1. BlockSpends(c, txs, K + 1) = Total(h, K + 1)
    BY DEF BlockSpends
  <2> QED BY <1>1, <2>1 DEF ReferAll
<1> HIDE DEF txs
<1>3. \A k \in 1..1 : f[k] \in Int /\ f[k] = 0 /\ h[k] = f[k]
  <2>1. 1 \in 1..Len(txs)
    BY <1>1
  <2> HIDE DEF s
  <2> QED BY <2>1
<1>4. \A k \in 1..K : g[k] \in Int /\ h[1 + k] = g[k]
  <2> SUFFICES ASSUME NEW k \in 1..K PROVE g[k] \in Int /\ h[1 + k] = g[k]
    OBVIOUS
  <2>1. Refers(R, kept[k]) \in Nat /\ g[k] = Refers(R, kept[k])
    <3>1. kept[k] \in D
      OBVIOUS
    <3> QED BY <3>1, RefersType
  <2>2. k + 1 \in 2..Len(txs) /\ txs[k + 1] = kept[k] /\ 1 + k = k + 1 /\ k + 1 # 1
    BY <1>1
  <2>3. k + 1 \in 1..Len(txs)
    BY <2>2
  <2>4. h[k + 1] = s(k + 1)
    <3> HIDE DEF s
    <3> QED BY <2>2, <2>3
  <2>5. s(k + 1) = Refers(R, kept[k])
    BY <2>2
  <2> HIDE DEF s, h, g
  <2> QED BY <2>1, <2>2, <2>4, <2>5
<1> HIDE DEF f, g, h, K, s
<1>5. Total(h, K + 1) = Total(f, 1) + Total(g, K)
  <2>1. 1 \in Nat /\ K \in Nat /\ K + 1 = 1 + K
    BY <1>1
  <2> QED BY <1>3, <1>4, <2>1, TotalConcat
<1>6. Total(f, 1) = 0
  <2>1. \A k \in 1..1 : f[k] \in Int
    BY <1>3
  <2>2. Total(f, 0) = 0 /\ \A n \in 1..1 : Total(f, n) = Total(f, n - 1) + f[n]
    BY <2>1, TotalSteps
  <2>3. Total(f, 1) = Total(f, 0) + f[1]
    BY <2>2
  <2> QED BY <1>3, <2>2, <2>3
<1>7. Total(g, K) \in Int
  <2>1. K \in 0..K
    BY <1>1
  <2> QED BY <1>1, <1>4, <2>1, TotalSteps
<1>8. Total(h, K + 1) = Total(g, K)
  BY <1>5, <1>6, <1>7
<1> QED BY <1>2, <1>8 DEF txs

(* What the purge kept, behind a coinbase, is a block that the list can     *)
(* supply.                                                                  *)
LEMMA BlockPayable ==
  ASSUME AmountsTold, NEW u, IsSeq(u), Genuine(Members(u)),
         NEW kept, IsTransactionList(kept), Made(kept), Backed(kept, u),
         \A i \in 1..Len(kept) : TransactionIsValid(kept[i], u),
         NEW first, IsCoinbase(first)
  PROVE  Payable(<<first>> \o kept, u)
<1> DEFINE txs == <<first>> \o kept
           D == Members(kept)
           H == OutputHashes
<1>1. kept \in Seq(D) /\ \A tx \in D : Len(tx.inputs) \in Nat
  BY SeqOfMembers DEF IsTransactionList, IsTransaction, IsSeq, Members
<1> HIDE DEF D
<1>2. /\ Len(kept) \in Nat /\ Len(txs) = Len(kept) + 1
      /\ txs[1] = first
      /\ \A i \in 2..Len(txs) : i - 1 \in 1..Len(kept) /\ txs[i] = kept[i - 1]
  <2> HIDE DEF txs
  <2> QED BY <1>1, ConsParts DEF txs
<1>3. \A i \in 1..Len(kept) : Even(kept[i])
  BY ValidIsEven DEF IsTransactionList, Made
<1>4. ASSUME NEW h \in H
      PROVE  BlockSpends(Counting(h, H), txs, Len(txs)) <= Held(Counting(h, H), u)
  <2> DEFINE c == Counting(h, H)
             R == Referred(h, u)
  <2>1. ASSUME NEW i \in 1..Len(kept)
        PROVE  Spends(c, kept[i], Len(kept[i].inputs)) = Refers(R, kept[i])
    <3>1. \A n \in 1..Len(kept[i].inputs) : kept[i].inputs[n].tx_out_hash \in H
      BY <1>3 DEF Even, HashedInputs
    <3> QED BY <3>1, SpendsAreReferences
  <2>2. Held(c, u) = Listed(R, u)
    <3>1. Hashed(Members(u), H)
      BY GenuineHashed
    <3> HIDE DEF H
    <3> QED BY <3>1, HeldAreListed
  <2>3. ReferAll(R, kept) <= Listed(R, u)
    BY DEF Backed
  <2> HIDE DEF c, R
  <2>4. BlockSpends(c, txs, Len(txs)) = ReferAll(R, kept)
    BY <1>1, <2>1, BlockSpendsReferAll
  <2>5. BlockSpends(c, txs, Len(txs)) <= Held(c, u)
    BY <2>2, <2>3, <2>4
  <2> QED BY <2>5 DEF c
<1> HIDE DEF txs
<1>5. Len(txs) \in Nat /\ Len(txs) > 0
  BY <1>2
<1>6. \A t \in 2..Len(txs) : Even(txs[t])
  BY <1>2, <1>3
<1>7. Payable(txs, u)
  BY <1>2, <1>4, <1>5, <1>6 DEF Payable
<1> QED BY <1>7 DEF txs

-----------------------------------------------------------------------------
(* The invariant of a session.                                              *)

(* No output hash is the four bytes of an index and 28 zero bytes.          *)
IndexesTold == \A index \in 0..(UINT32 - 1) : IndexBytes(index) \notin OutputHashes

(* Every entry is an output that the client made, what the pending          *)
(* transactions refer to is in the list, and each block but the genesis     *)
(* block added one coinbase to what the list is worth.                      *)
SessionInv ==
    /\ Numbered(chain)
    /\ Genuine(Members(unspent))
    /\ Made(pool)
    /\ Backed(pool, unspent)
    /\ SupplyConserved

(* What the purge keeps is typed, made by the program, and valid. *)
LEMMA PurgedTransactions ==
  ASSUME NEW txs, IsTransactionList(txs), Made(txs), NEW u
  PROVE  /\ IsTransactionList(Purge(txs, u))
         /\ Made(Purge(txs, u))
         /\ \A i \in 1..Len(Purge(txs, u)) : TransactionIsValid(Purge(txs, u)[i], u)
<1> DEFINE E == Members(txs)
           kept == Purge(txs, u)
<1>1. txs \in Seq(E)
  BY SeqOfMembers DEF IsTransactionList
<1>2. \A tx \in E : IsTransaction(tx) /\ MadeOutputs(tx)
  BY DEF IsTransactionList, Made, Members
<1> HIDE DEF E
<1>3. kept \in Seq(E)
  <2> DEFINE S == Seq(E)
  <2>1. \A s \in S : RemoveInvalid(s, u) \in S
    <3> SUFFICES ASSUME NEW s \in Seq(E)
                 PROVE  RemoveNode(s, {i \in 1..Len(s) : ~TransactionIsValid(s[i], u)}) \in Seq(E)
      BY DEF RemoveInvalid
    <3> DEFINE hits == {i \in 1..Len(s) : ~TransactionIsValid(s[i], u)}
    <3>1. hits \subseteq 1..Len(s)
      OBVIOUS
    <3> HIDE DEF hits
    <3>2. RemoveNode(s, hits) \in Seq(E)
      BY <3>1, RemoveNodeType
    <3> QED BY <3>2 DEF hits
  <2>2. S \in SUBSET Seq(E) /\ txs \in S
    BY <1>1
  <2> HIDE DEF S
  <2>3. Purge(txs, u) \in S
    BY <2>1, <2>2, PurgeStays
  <2> QED BY <2>3 DEF S
<1>4. \A i \in 1..Len(kept) : TransactionIsValid(kept[i], u)
  BY <1>1, PurgeLeavesValid
<1> HIDE DEF kept
<1>5. IsSeq(kept) /\ \A i \in 1..Len(kept) : kept[i] \in E
  BY <1>3, SeqIsSeq
<1>6. IsTransactionList(kept) /\ Made(kept)
  BY <1>2, <1>5 DEF IsTransactionList, Made
<1> QED BY <1>4, <1>6 DEF kept

(* The input of a coinbase has no hash of an output, and its output has     *)
(* one.                                                                     *)
LEMMA CoinbaseFits ==
  ASSUME IndexesTold, NEW index \in 0..(UINT32 - 1), NEW key \in Keys
  PROVE  IsCoinbase(CoinbaseCreate(key, index)) /\ MadeOutputs(CoinbaseCreate(key, index))
<1> DEFINE tx == CoinbaseCreate(key, index)
<1>1. /\ Len(tx.inputs) = 1 /\ tx.inputs[1].tx_out_hash = IndexBytes(index)
      /\ Len(tx.outputs) = 1 /\ tx.outputs[1] = TxOutCreate(COINBASE_AMOUNT, key)
  BY DEF CoinbaseCreate
<1>2. COINBASE_AMOUNT \in Amount /\ tx.outputs[1].amount = COINBASE_AMOUNT
  BY <1>1, AmountAssumption DEF Amount, TxOutCreate
<1> HIDE DEF tx
<1>3. IsCoinbase(tx)
  BY <1>1, <1>2 DEF IsCoinbase, IndexesTold
<1>4. MadeOutputs(tx)
  <2>1. \A o \in 1..1 : o = 1
    OBVIOUS
  <2> QED BY <1>1, <1>2, <2>1 DEF MadeOutputs, IsOutput
<1> QED BY <1>3, <1>4 DEF tx

(* The block that mine drafts can be paid. *)
LEMMA DraftPayable ==
  ASSUME AmountsTold, IndexesTold, IInv, SessionInv, NEW time, CanMine(time)
  PROVE  LET block == BlockMine(DraftBlock(time))
         IN  /\ Payable(block.transactions, unspent)
             /\ IsTransactionList(block.transactions)
             /\ Made(block.transactions)
<1> DEFINE block == BlockMine(DraftBlock(time))
           txs == block.transactions
           index == block.info.index
           coinbase == CoinbaseCreate(wallet, index)
           kept == Purge(pool, unspent)
<1>1. txs = <<coinbase>> \o kept /\ index = (LastBlock.info.index + 1) % UINT32
  BY MinedFields
<1>2. index \in 0..(UINT32 - 1)
  <2>1. Len(chain) \in Nat /\ Len(chain) \in 1..Len(chain)
    BY DEF CanMine, IInv, TypeOK, IsSeq
  <2>2. LastBlock.info.index = (Len(chain) - 1) % UINT32
    BY <2>1 DEF SessionInv, Numbered, LastBlock
  <2> DEFINE last == LastBlock.info.index
  <2>3. last \in Int
    <3>1. Len(chain) - 1 \in Int
      BY <2>1
    <3>2. (Len(chain) - 1) % UINT32 \in 0..(UINT32 - 1)
      BY <3>1, ModuloType
    <3> QED BY <2>2, <3>2
  <2>4. index = (last + 1) % UINT32
    BY <1>1
  <2> HIDE DEF last, index
  <2>5. last + 1 \in Int
    BY <2>3
  <2> QED BY <2>4, <2>5, ModuloType
<1>3. wallet \in Keys
  BY DEF CanMine, IInv, TypeOK
<1> HIDE DEF block
<1>4. IsTransactionList(pool) /\ IsSeq(unspent) /\ Disjoint(pool)
  BY DEF IInv, TypeOK, IsUnspentList, PoolDisjoint
<1>5. /\ IsTransactionList(kept) /\ Made(kept)
      /\ \A i \in 1..Len(kept) : TransactionIsValid(kept[i], unspent)
  BY <1>4, PurgedTransactions DEF SessionInv
<1>6. Backed(kept, unspent)
  BY <1>4, BackedPurged DEF SessionInv
<1>7. IsTransactionList(txs)
  BY <1>1, <1>4, MinedTransactions
<1>8. IsCoinbase(coinbase) /\ MadeOutputs(coinbase)
  <2> HIDE DEF index
  <2> QED BY <1>2, <1>3, CoinbaseFits
<1> HIDE DEF coinbase, kept, txs, index
<1>9. Payable(<<coinbase>> \o kept, unspent)
  BY <1>4, <1>5, <1>6, <1>8, BlockPayable DEF SessionInv
<1>10. Made(txs)
  <2>1. kept \in Seq(Members(kept))
    BY <1>5, SeqOfMembers DEF IsTransactionList
  <2>2. /\ txs[1] = coinbase
        /\ \A i \in 2..Len(txs) : i - 1 \in 1..Len(kept) /\ txs[i] = kept[i - 1]
        /\ \A i \in 1..Len(txs) : i = 1 \/ i \in 2..Len(txs)
    BY <1>1, <2>1, ConsParts
  <2> QED BY <1>5, <1>8, <2>2 DEF Made
<1> QED BY <1>1, <1>7, <1>9, <1>10 DEF txs, block

(* New entries come from the outputs of the block. *)
LEMMA GenuineEntries ==
  ASSUME NEW E, NEW u, NEW txs, NEW hash, EntriesIn(E, u, txs, hash),
         Genuine(Members(u)), Made(txs)
  PROVE  Genuine(E)
<1> SUFFICES ASSUME NEW e \in E PROVE IsOutput(e.out)
  BY DEF Genuine
<1>1. CASE \E k \in 1..Len(u) : e = u[k]
  BY <1>1 DEF Genuine, Members
<1>2. CASE \E t \in 1..Len(txs) : \E o \in 1..Len(txs[t].outputs) :
             e = UnspentTxOutCreate(hash, txs[t].id, txs[t].outputs[o])
  <2>1. PICK t \in 1..Len(txs) : \E o \in 1..Len(txs[t].outputs) :
           e = UnspentTxOutCreate(hash, txs[t].id, txs[t].outputs[o])
    BY <1>2
  <2>2. PICK o \in 1..Len(txs[t].outputs) :
           e = UnspentTxOutCreate(hash, txs[t].id, txs[t].outputs[o])
    BY <2>1
  <2>3. e.out = txs[t].outputs[o]
    BY <2>2 DEF UnspentTxOutCreate
  <2> QED BY <2>3 DEF Made, MadeOutputs
<1> QED BY <1>1, <1>2 DEF EntriesIn

(* What info counts is what the list is worth. *)
LEMMA CoinsAreHeld ==
  ASSUME AmountsTold, NEW u, IsUnspentList(u), Genuine(Members(u))
  PROVE  /\ Held(Values, u) \in Int
         /\ Sum32([i \in 1..Len(u) |-> u[i].out.amount], Len(u)) = Held(Values, u) % UINT32
<1> DEFINE f == [i \in 1..Len(u) |-> u[i].out.amount]
           E == Members(u)
<1>1. Len(u) \in Nat /\ \A i \in 1..Len(u) : f[i] \in Int
  BY AmountAssumption DEF IsUnspentList, IsSeq, Amount
<1>2. u \in Seq(E)
  BY SeqOfMembers DEF IsUnspentList
<1>3. Held(Values, u) = Total(f, Len(u))
  BY <1>2, HeldValues
<1> HIDE DEF f
<1>4. Sum32(f, Len(u)) = Total(f, Len(u)) % UINT32
  BY <1>1, Sum32IsTotal
<1>5. Total(f, Len(u)) \in Int
  <2>1. Len(u) \in 0..Len(u)
    BY <1>1
  <2> QED BY <1>1, <2>1, TotalSteps
<1> QED BY <1>3, <1>4, <1>5 DEF f

(* One more coinbase, modulo 2^32. *)
LEMMA OneMoreCoinbase ==
  ASSUME NEW n \in Nat, NEW held \in Int, NEW more \in Int,
         held % UINT32 = (COINBASE_AMOUNT * (n - 1)) % UINT32,
         more % UINT32 = (held + COINBASE_AMOUNT) % UINT32
  PROVE  more % UINT32 = (COINBASE_AMOUNT * n) % UINT32
<1> DEFINE c == COINBASE_AMOUNT
           m == c * (n - 1)
<1>1. UINT32 \in Nat \ {0} /\ c \in Int
  BY AmountAssumption
<1>2. m \in Int /\ m + c = c * n
  BY <1>1
<1> HIDE DEF c, m
<1>3. ((held % UINT32) + c) % UINT32 = (held + c) % UINT32
  BY <1>1, RemainderOfSum
<1>4. ((m % UINT32) + c) % UINT32 = (m + c) % UINT32
  BY <1>1, <1>2, RemainderOfSum
<1>5. held % UINT32 = m % UINT32 /\ more % UINT32 = (held + c) % UINT32
  BY DEF c, m
<1>6. more % UINT32 = (c * n) % UINT32
  BY <1>2, <1>3, <1>4, <1>5
<1> QED BY <1>6 DEF c

(* An empty pool is backed by any list. *)
LEMMA NoneBacked ==
  ASSUME NEW u, IsSeq(u)
  PROVE  Backed(<<>>, u)
<1> SUFFICES ASSUME NEW R PROVE ReferAll(R, <<>>) <= Listed(R, u)
  BY DEF Backed
<1> DEFINE N == Len(u)
           f == [i \in 1..N |-> IF Reference(TxInCreate(u[i])) \in R THEN 1 ELSE 0]
           e == <<>>
           g == [i \in 1..Len(e) |-> Refers(R, e[i])]
<1>1. N \in Nat /\ 0 \in 0..N /\ N \in 0..N /\ \A k \in 1..N : f[k] \in Nat /\ f[k] \in Int
  BY DEF IsSeq
<1>2. Listed(R, u) = Total(f, N)
  BY DEF Listed
<1>3. ReferAll(R, e) = Total(g, 0)
  BY DEF ReferAll
<1> HIDE DEF f, g, N, e
<1>4. Total(g, 0) = 0
  <2>1. \A k \in 1..0 : g[k] \in Int
    OBVIOUS
  <2> QED BY <2>1, TotalSteps
<1>5. Total(f, 0) = 0 /\ Total(f, 0) <= Total(f, N)
  BY <1>1, TotalSteps, TotalPrefix
<1>6. ReferAll(R, e) <= Listed(R, u)
  BY <1>2, <1>3, <1>4, <1>5
<1> QED BY <1>6 DEF e

(* A block keeps the entries genuine and the supply right.                  *)
LEMMA MineSession ==
  ASSUME AmountsTold, IndexesTold, IInv, SessionInv, NEW time, Mine(time)
  PROVE  Genuine(Members(unspent')) /\ SupplyConserved'
<1> DEFINE block == BlockMine(DraftBlock(time))
           txs == block.transactions
           hash == block.hash
           n == Len(chain)
<1>1. /\ chain' = Append(chain, block)
      /\ unspent' = UpdateUnspent(txs, hash, unspent)
  BY MinedBlock
<1>2. Payable(txs, unspent) /\ IsTransactionList(txs) /\ Made(txs)
  BY DraftPayable DEF Mine
<1> HIDE DEF block, txs, hash
<1>3. IsUnspentList(unspent) /\ IsSeq(unspent) /\ Genuine(Members(unspent)) /\ IsSeq(chain)
  BY DEF IInv, TypeOK, IsUnspentList, SessionInv
<1>4. PICK E : EntriesIn(E, unspent, txs, hash)
  BY <1>2, <1>3, BlockEntries
<1>5. Genuine(E)
  BY <1>2, <1>3, <1>4, GenuineEntries
<1>6. unspent' \in Seq(E) /\ IsSeq(unspent')
  <2>1. /\ Len(txs) \in Nat /\ unspent \in Seq(E)
        /\ \A t \in 1..Len(txs) : /\ Len(txs[t].inputs) \in Nat
                                 /\ NewUnspent(txs[t], hash) \in Seq(E)
    BY <1>4, <1>2 DEF EntriesIn, IsTransactionList, IsSeq
  <2>2. UpdateUnspent(txs, hash, unspent) \in Seq(E)
    BY <2>1, UpdateUnspentType
  <2> QED BY <1>1, <2>2, SeqIsSeq
<1>7. Genuine(Members(unspent'))
  BY <1>5, <1>6, SeqIsSeq DEF Genuine, Members
<1>8. Held(Values, unspent') % UINT32 = (Held(Values, unspent) + COINBASE_AMOUNT) % UINT32
  BY <1>1, <1>2, <1>4, <1>5, BlockWorth
<1>9. Len(chain') = n + 1 /\ n \in Nat
  BY <1>1, <1>3, AppendMembers DEF IsSeq
<1>10. IsUnspentList(unspent')
  BY <1>1, <1>2, <1>3, UpdatedUnspent
<1>11. /\ Held(Values, unspent) \in Int
       /\ Held(Values, unspent) % UINT32 = (COINBASE_AMOUNT * (n - 1)) % UINT32
  BY <1>3, CoinsAreHeld DEF SessionInv, SupplyConserved, Coins
<1>12. Held(Values, unspent') \in Int
  BY <1>7, <1>10, CoinsAreHeld
<1>13. Held(Values, unspent') % UINT32 = (COINBASE_AMOUNT * n) % UINT32
  <2> DEFINE held == Held(Values, unspent)
             more == Held(Values, unspent')
  <2>1. /\ held \in Int /\ more \in Int
        /\ held % UINT32 = (COINBASE_AMOUNT * (n - 1)) % UINT32
        /\ more % UINT32 = (held + COINBASE_AMOUNT) % UINT32
    BY <1>8, <1>11, <1>12
  <2> HIDE DEF held, more, n
  <2>2. more % UINT32 = (COINBASE_AMOUNT * n) % UINT32
    BY <1>9, <2>1, OneMoreCoinbase
  <2> QED BY <2>2 DEF more
<1>14. Len(chain') - 1 = n
  BY <1>9
<1>15. Coins' = (COINBASE_AMOUNT * (Len(chain') - 1)) % UINT32
  <2>1. Coins' = Held(Values, unspent') % UINT32
    BY <1>7, <1>10, CoinsAreHeld DEF Coins
  <2> QED BY <1>13, <1>14, <2>1
<1> QED BY <1>7, <1>15 DEF SupplyConserved

(* The outputs of a sent transaction are made for keys. *)
LEMMA SendMade ==
  ASSUME IInv, Made(pool), NEW amount \in Amounts, NEW receiver, Send(amount, receiver)
  PROVE  Made(pool')
<1> DEFINE sent == amount % UINT32
           sel == Selection(wallet, sent, unspent, pool)
           tx == TransactionCreate(wallet, receiver, sent, unspent, pool)
           total == sel.total
           first == TxOutCreate(sent, receiver)
           change == TxOutCreate(total - sent, wallet)
<1>1. pool' = Append(pool, tx) /\ CanCreate(wallet, receiver, sent, unspent, pool)
  BY DEF Send, Sendable
<1>2. tx.outputs = <<first>> \o (IF total = sent THEN <<>> ELSE <<change>>)
  BY DEF TransactionCreate, SendAmount
<1>3. wallet \in Keys /\ receiver \in Keys /\ total >= sent
  BY <1>1 DEF CanCreate
<1>4. sent \in Amount
  BY CliAssumption, ModuloType DEF Amount
<1>5. total \in Amount
  <2>1. Len(unspent) \in Nat /\ \A k \in 1..Len(unspent) : unspent[k].out.amount \in Int
    BY AmountAssumption DEF IInv, TypeOK, IsUnspentList, IsSeq, Amount
  <2> HIDE DEF sent
  <2>2. sel.total \in 0..(UINT32 - 1)
    BY <2>1, SelectionType
  <2> QED BY <2>2 DEF Amount
<1> HIDE DEF tx, sel, sent
<1>6. total - sent \in Amount
  <2> HIDE DEF total
  <2> QED BY <1>3, <1>4, <1>5, AmountAssumption DEF Amount
<1>7. IsOutput(first) /\ IsOutput(change)
  <2> HIDE DEF total
  <2> QED BY <1>3, <1>4, <1>6 DEF IsOutput
<1> HIDE DEF first, change, total
<1>8. MadeOutputs(tx)
  <2>1. CASE total = sent
    <3>1. tx.outputs = <<first>> \o <<>>
      BY <1>2, <2>1
    <3>2. \A o \in 1..Len(tx.outputs) : tx.outputs[o] = first
      BY <3>1
    <3> QED BY <1>7, <3>2 DEF MadeOutputs
  <2>2. CASE total # sent
    <3>1. tx.outputs = <<first>> \o <<change>>
      BY <1>2, <2>2
    <3>2. \A o \in 1..Len(tx.outputs) : tx.outputs[o] = first \/ tx.outputs[o] = change
      BY <3>1
    <3> QED BY <1>7, <3>2 DEF MadeOutputs
  <2> QED BY <2>1, <2>2
<1>9. /\ Len(pool) \in Nat /\ Len(pool') = Len(pool) + 1
      /\ \A i \in 1..Len(pool) : pool'[i] = pool[i]
      /\ pool'[Len(pool) + 1] = tx
  BY <1>1, AppendMembers DEF IInv, TypeOK, IsTransactionList, IsSeq
<1>10. \A i \in 1..Len(pool') : i \in 1..Len(pool) \/ i = Len(pool) + 1
  BY <1>9
<1> QED BY <1>8, <1>9, <1>10 DEF Made

(* Sorting the list changes the order of the entries only. *)
LEMMA ListSession ==
  ASSUME AmountsTold, IInv, SessionInv, chain' = chain, unspent' = SortByAmount(unspent)
  PROVE  Genuine(Members(unspent')) /\ SupplyConserved'
<1> DEFINE E == Members(unspent)
           v == SortByAmount(unspent)
<1>1. unspent \in Seq(E) /\ IsUnspentList(unspent) /\ Genuine(E)
  BY SeqOfMembers DEF IInv, TypeOK, IsUnspentList, SessionInv
<1>2. v \in Seq(E)
  <2> HIDE DEF E
  <2> QED BY <1>1, SortType
<1>3. Held(Values, v) = Held(Values, unspent)
  <2>1. Hashed(E, OutputHashes)
    BY <1>1, GenuineHashed
  <2> HIDE DEF E
  <2> QED BY <1>1, <2>1, ValuesType, HeldSort
<1>4. \A e \in E : e.out.amount \in Amount
  BY <1>1 DEF IsUnspentList, Members
<1> HIDE DEF E, v
<1>5. IsUnspentList(v) /\ Genuine(Members(v))
  BY <1>1, <1>2, <1>4, SeqIsSeq DEF IsUnspentList, Genuine, Members
<1>6. Held(Values, unspent) % UINT32 = (COINBASE_AMOUNT * (Len(chain) - 1)) % UINT32
  <2>1. Genuine(Members(unspent))
    BY <1>1 DEF E
  <2> QED BY <1>1, <2>1, CoinsAreHeld DEF SessionInv, SupplyConserved, Coins
<1>7. unspent' = v
  BY DEF v
<1>8. Coins' = Held(Values, v) % UINT32
  BY <1>5, <1>7, CoinsAreHeld DEF Coins
<1> QED BY <1>3, <1>5, <1>6, <1>7, <1>8 DEF SupplyConserved

(* The start of a process. *)
LEMMA EmptySession ==
  ASSUME AmountsTold
  PROVE  /\ IsUnspentList(<<>>) /\ Genuine(Members(<<>>)) /\ Made(<<>>)
         /\ Backed(<<>>, <<>>)
         /\ Sum32([i \in 1..Len(<<>>) |-> (<<>>)[i].out.amount], Len(<<>>))
              = (COINBASE_AMOUNT * (Len(<<GenesisBlock>>) - 1)) % UINT32
<1>1. IsSeq(<<>>) /\ IsUnspentList(<<>>) /\ Genuine(Members(<<>>)) /\ Made(<<>>)
  BY DEF IsSeq, IsUnspentList, Genuine, Members, Made
<1>2. Backed(<<>>, <<>>)
  BY <1>1, NoneBacked
<1>3. (COINBASE_AMOUNT * (Len(<<GenesisBlock>>) - 1)) % UINT32 = 0
  <2>1. Len(<<GenesisBlock>>) = 1
    OBVIOUS
  <2>2. COINBASE_AMOUNT * (1 - 1) = 0 /\ 0 % UINT32 = 0
    BY AmountAssumption
  <2> QED BY <2>1, <2>2
<1>4. ASSUME NEW f PROVE Sum32(f, 0) = 0
  <2>1. \A k \in 1..0 : f[k] \in Int
    OBVIOUS
  <2>2. Sum32(f, 0) = Total(f, 0) % UINT32 /\ Total(f, 0) = 0
    BY <2>1, Sum32IsTotal, TotalSteps
  <2>3. 0 % UINT32 = 0
    BY AmountAssumption
  <2> QED BY <2>2, <2>3
<1>5. Len(<<>>) = 0
  OBVIOUS
<1> QED BY <1>1, <1>2, <1>3, <1>4, <1>5

(* Without files to load, every step keeps the invariant.                   *)
LEMMA SessionStep ==
  ASSUME Paths = {}, AmountsTold, IndexesTold, IInv, SessionInv, [Next]_vars
  PROVE  SessionInv'
<1>1. Numbered(chain')
  BY NumberedStep DEF SessionInv, NumberedFiles
<1>2. IsUnspentList(unspent) /\ IsSeq(unspent) /\ IsTransactionList(pool)
  BY DEF IInv, TypeOK, IsUnspentList
<1>3. CASE pool' = pool /\ SameLedger
  BY <1>1, <1>3 DEF SameLedger, SessionInv, SupplyConserved, Coins
<1>4. CASE \E time \in Times : Mine(time)
  <2>1. PICK time \in Times : Mine(time)
    BY <1>4
  <2>2. Genuine(Members(unspent')) /\ SupplyConserved'
    BY <2>1, MineSession
  <2>3. pool' = <<>> /\ Made(<<>>)
    BY <2>1, EmptySession DEF Mine
  <2>4. IsSeq(unspent')
    BY <2>1, MineIInv DEF IInv, TypeOK, IsUnspentList
  <2>5. Backed(pool', unspent')
    BY <2>3, <2>4, NoneBacked
  <2> QED BY <1>1, <2>2, <2>3, <2>5 DEF SessionInv
<1>5. CASE \E time \in Times : MineRejected(time)
  <2>1. pool' = Purge(pool, unspent) /\ unspent' = unspent /\ chain' = chain
    BY <1>5 DEF MineRejected
  <2>2. Made(pool')
    BY <1>2, <2>1, PurgedTransactions DEF SessionInv
  <2>3. Backed(pool', unspent)
    BY <1>2, <2>1, BackedPurged DEF SessionInv
  <2> QED BY <1>1, <2>1, <2>2, <2>3 DEF SessionInv, SupplyConserved, Coins
<1>6. CASE \E amount \in Amounts : \E receiver : Send(amount, receiver)
  <2>1. PICK amount \in Amounts : \E receiver : Send(amount, receiver)
    BY <1>6
  <2>2. PICK receiver : Send(amount, receiver)
    BY <2>1
  <2>3. unspent' = unspent /\ chain' = chain
    BY <2>2 DEF Send
  <2>4. Made(pool')
    BY <2>2, SendMade DEF SessionInv
  <2>5. Backed(pool', unspent)
    BY <2>2, SendBacked DEF SessionInv
  <2> QED BY <1>1, <2>3, <2>4, <2>5 DEF SessionInv, SupplyConserved, Coins
<1>7. CASE pool' = pool /\ chain' = chain /\ unspent' = SortByAmount(unspent)
  <2>1. Genuine(Members(unspent')) /\ SupplyConserved'
    BY <1>7, ListSession
  <2>2. Backed(pool', unspent')
    BY <1>2, <1>7, BackedSorted DEF SessionInv
  <2> QED BY <1>1, <1>7, <2>1, <2>2 DEF SessionInv
<1>8. CASE pool' = <<>> /\ chain' = <<GenesisBlock>> /\ unspent' = <<>>
  BY <1>1, <1>8, EmptySession DEF SessionInv, SupplyConserved, Coins
<1> QED BY <1>3, <1>4, <1>5, <1>6, <1>7, <1>8, MemoryStep

(* The invariant of a session holds in every state. *)
LEMMA SessionInvariant ==
  ASSUME Paths = {}, AmountsTold, IndexesTold
  PROVE  Spec => [](IInv /\ SessionInv)
<1>1. Init => SessionInv
  <2> SUFFICES ASSUME Init PROVE SessionInv
    OBVIOUS
  <2>1. chain = <<GenesisBlock>> /\ unspent = <<>> /\ pool = <<>>
    BY DEF Init
  <2>2. Numbered(chain)
    <3>1. Len(chain) = 1 /\ chain[1].info.index = 0 /\ 0 % UINT32 = 0
      BY <2>1, AmountAssumption DEF GenesisBlock
    <3> QED BY <3>1 DEF Numbered
  <2> QED BY <2>1, <2>2, EmptySession DEF SessionInv, SupplyConserved, Coins
<1>2. IInv /\ SessionInv /\ [Next]_vars => SessionInv'
  BY SessionStep
<1> QED BY <1>1, <1>2, Invariant, PTL DEF Spec

(* Coins come from coinbases only: in every session without files, whatever *)
(* is sent, mined and sorted, what info counts is COINBASE_AMOUNT for each  *)
(* block after the first (update_unspent, transaction_is_valid).            *)
THEOREM SupplyAlwaysConserved ==
  ASSUME Paths = {}, AmountsTold, IndexesTold
  PROVE  Spec => []SupplyConserved
<1>1. SessionInv => SupplyConserved
  BY DEF SessionInv
<1> QED BY <1>1, SessionInvariant, PTL

(* In every such session no input of the next block finds its entry at the  *)
(* tail of the list: update_unspent never unlinks the last node of several, *)
(* after which llist_remove_node leaves a pointer to a freed cell.          *)
THEOREM TailAlwaysKept ==
  ASSUME Paths = {}, AmountsTold, IndexesTold
  PROVE  Spec => []TailKept
<1>1. IInv /\ SessionInv => TailKept
  <2> SUFFICES ASSUME IInv, SessionInv, NEW time \in Times, CanMine(time)
               PROVE  ~TailFreed(BlockMine(DraftBlock(time)).transactions,
                                 BlockMine(DraftBlock(time)).hash, unspent)
    BY DEF TailKept
  <2> DEFINE block == BlockMine(DraftBlock(time))
             txs == block.transactions
             hash == block.hash
  <2>1. Payable(txs, unspent) /\ IsTransactionList(txs) /\ Made(txs)
    BY DraftPayable
  <2>2. IsSeq(unspent) /\ Genuine(Members(unspent))
    BY DEF IInv, TypeOK, IsUnspentList, SessionInv
  <2> HIDE DEF block, txs, hash
  <2>3. PICK E : EntriesIn(E, unspent, txs, hash)
    BY <2>1, <2>2, BlockEntries
  <2>4. Genuine(E)
    BY <2>1, <2>2, <2>3, GenuineEntries
  <2>5. ~TailFreed(txs, hash, unspent)
    BY <2>1, <2>3, <2>4, BlockKeepsTail
  <2> QED BY <2>5 DEF txs, hash, block
<1> QED BY <1>1, SessionInvariant, PTL

-----------------------------------------------------------------------------
(* Counting.                                                                *)

(* Disjoint finite sets have as many elements together as their sum.        *)
LEMMA CountBoth ==
  ASSUME NEW P, NEW Q, IsFiniteSet(P), IsFiniteSet(Q), P \cap Q = {}
  PROVE  /\ Cardinality(P) \in Nat /\ Cardinality(Q) \in Nat
         /\ IsFiniteSet(P \cup Q)
         /\ Cardinality(P \cup Q) = Cardinality(P) + Cardinality(Q)
<1>1. /\ IsFiniteSet(P \cup Q)
      /\ Cardinality(P \cup Q) = Cardinality(P) + Cardinality(Q) - Cardinality(P \cap Q)
  BY FS_Union
<1>2. Cardinality(P \cap Q) = 0
  BY FS_EmptySet
<1>3. Cardinality(P) \in Nat /\ Cardinality(Q) \in Nat
  BY FS_CardinalityType
<1> QED BY <1>1, <1>2, <1>3

(* A union of disjoint finite sets has as many elements as they have        *)
(* together.                                                                *)
LEMMA CountUnion ==
  ASSUME NEW n \in Nat, NEW F, \A i \in 1..n : IsFiniteSet(F[i]),
         \A i, j \in 1..n : i # j => F[i] \cap F[j] = {}
  PROVE  /\ IsFiniteSet(UNION {F[i] : i \in 1..n})
         /\ Cardinality(UNION {F[i] : i \in 1..n})
              = Total([i \in 1..n |-> Cardinality(F[i])], n)
<1> DEFINE U(m) == UNION {F[i] : i \in 1..m}
           f == [i \in 1..n |-> Cardinality(F[i])]
           T == {m \in 0..n : IsFiniteSet(U(m)) /\ Cardinality(U(m)) = Total(f, m)}
<1>1. \A i \in 1..n : f[i] = Cardinality(F[i]) /\ f[i] \in Int
  BY FS_CardinalityType
<1> HIDE DEF f
<1>2. Total(f, 0) = 0 /\ \A m \in 1..n : Total(f, m) = Total(f, m - 1) + f[m]
  BY <1>1, TotalSteps
<1>3. 0 \in T
  <2>1. U(0) = {}
    OBVIOUS
  <2> HIDE DEF U
  <2> QED BY <1>2, <2>1, FS_EmptySet
<1>4. ASSUME NEW m \in 1..n, m - 1 \in T PROVE m \in T
  <2>1. U(m) = U(m - 1) \cup F[m]
    <3>1. \A i : i \in 1..m <=> i \in 1..(m - 1) \/ i = m
      OBVIOUS
    <3> QED BY <3>1
  <2>2. U(m - 1) \cap F[m] = {}
    <3>1. \A i \in 1..(m - 1) : i \in 1..n /\ i # m
      OBVIOUS
    <3> QED BY <3>1
  <2> HIDE DEF U
  <2>3. IsFiniteSet(U(m - 1)) /\ Cardinality(U(m - 1)) = Total(f, m - 1)
    BY <1>4
  <2> DEFINE old == U(m - 1)
             more == F[m]
  <2>4. IsFiniteSet(old) /\ IsFiniteSet(more) /\ old \cap more = {}
    BY <2>2, <2>3
  <2> HIDE DEF old, more
  <2>5. /\ IsFiniteSet(old \cup more)
        /\ Cardinality(old \cup more) = Cardinality(old) + Cardinality(more)
    BY <2>4, CountBoth
  <2>6. IsFiniteSet(U(m)) /\ Cardinality(U(m)) = Total(f, m - 1) + f[m]
    BY <1>1, <2>1, <2>3, <2>5 DEF old, more
  <2> QED BY <1>2, <2>6
<1>5. n \in T
  <2> HIDE DEF T
  <2>1. 0..n \subseteq T
    BY <1>3, <1>4, IntervalInduction
  <2> QED BY <2>1
<1> HIDE DEF U
<1>6. IsFiniteSet(U(n)) /\ Cardinality(U(n)) = Total(f, n)
  BY <1>5
<1> QED BY <1>6 DEF U, f

(* Of n different things, those with the mark 1 are as many as the sum of   *)
(* the marks.                                                               *)
Marked(x, mark, n) == {x[i] : i \in {j \in 1..n : mark[j] = 1}}

(* There are as many marked things as marks. *)
LEMMA CountMarked ==
  ASSUME NEW n \in Nat, NEW x, NEW mark, \A i \in 1..n : mark[i] \in {0, 1},
         \A i, j \in 1..n : i # j => x[i] # x[j]
  PROVE  IsFiniteSet(Marked(x, mark, n)) /\ Cardinality(Marked(x, mark, n)) = Total(mark, n)
<1> DEFINE F == [i \in 1..n |-> IF mark[i] = 1 THEN {x[i]} ELSE {}]
           f == [i \in 1..n |-> Cardinality(F[i])]
<1>1. \A i \in 1..n : F[i] = IF mark[i] = 1 THEN {x[i]} ELSE {}
  OBVIOUS
<1>2. UNION {F[i] : i \in 1..n} = Marked(x, mark, n)
  BY DEF Marked
<1> HIDE DEF F
<1>3. \A i \in 1..n : IsFiniteSet(F[i]) /\ Cardinality(F[i]) = mark[i]
  <2> SUFFICES ASSUME NEW i \in 1..n
               PROVE  IsFiniteSet(F[i]) /\ Cardinality(F[i]) = mark[i]
    OBVIOUS
  <2>1. CASE mark[i] = 1
    <3>1. F[i] = {x[i]}
      BY <1>1, <2>1
    <3>2. \A e : IsFiniteSet({e}) /\ Cardinality({e}) = 1
      BY FS_Singleton
    <3> QED BY <2>1, <3>1, <3>2
  <2>2. CASE mark[i] # 1
    <3>1. F[i] = {}
      BY <1>1, <2>2
    <3>2. IsFiniteSet({}) /\ Cardinality({}) = 0
      BY FS_EmptySet
    <3>3. mark[i] = 0
      BY <2>2
    <3> QED BY <3>1, <3>2, <3>3
  <2> QED BY <2>1, <2>2
<1>4. \A i, j \in 1..n : i # j => F[i] \cap F[j] = {}
  <2>1. \A i \in 1..n : \A e \in F[i] : e = x[i]
    BY <1>1
  <2> SUFFICES ASSUME NEW i \in 1..n, NEW j \in 1..n, i # j, NEW e \in F[i] \cap F[j]
               PROVE  FALSE
    OBVIOUS
  <2>2. e = x[i] /\ e = x[j]
    BY <2>1
  <2> QED BY <2>2
<1>5. /\ IsFiniteSet(UNION {F[i] : i \in 1..n})
      /\ Cardinality(UNION {F[i] : i \in 1..n}) = Total(f, n)
  BY <1>3, <1>4, CountUnion
<1>6. \A i \in 1..n : mark[i] \in Int /\ f[i] = mark[i]
  BY <1>3
<1> HIDE DEF f
<1>7. Total(f, n) = Total(mark, n)
  BY <1>6, TotalSame
<1> QED BY <1>2, <1>5, <1>7

(* The same for the positions of one block.                                 *)
Grid(b, mark, size, n) ==
    UNION {Marked([k \in 1..size[t] |-> <<b, t, k>>], mark[t], size[t]) : t \in 1..n}

(* The same over the rows of a grid. *)
LEMMA CountGrid ==
  ASSUME NEW n \in Nat, NEW b, NEW size, \A t \in 1..n : size[t] \in Nat,
         NEW mark, \A t \in 1..n : \A k \in 1..size[t] : mark[t][k] \in {0, 1}
  PROVE  /\ IsFiniteSet(Grid(b, mark, size, n))
         /\ Cardinality(Grid(b, mark, size, n))
              = Total([t \in 1..n |-> Total(mark[t], size[t])], n)
<1> DEFINE x(t) == [k \in 1..size[t] |-> <<b, t, k>>]
           F == [t \in 1..n |-> Marked(x(t), mark[t], size[t])]
           f == [t \in 1..n |-> Cardinality(F[t])]
           g == [t \in 1..n |-> Total(mark[t], size[t])]
<1>1. \A t \in 1..n : F[t] = Marked(x(t), mark[t], size[t])
  OBVIOUS
<1>2. UNION {F[t] : t \in 1..n} = Grid(b, mark, size, n)
  BY DEF Grid
<1> HIDE DEF F
<1>3. ASSUME NEW t \in 1..n
      PROVE  IsFiniteSet(F[t]) /\ Cardinality(F[t]) = Total(mark[t], size[t])
  <2> DEFINE y == x(t)
             m == mark[t]
             s == size[t]
  <2>1. \A i, j \in 1..s : i # j => y[i] # y[j]
    OBVIOUS
  <2>2. s \in Nat /\ \A i \in 1..s : m[i] \in {0, 1}
    OBVIOUS
  <2>3. F[t] = Marked(y, m, s)
    BY <1>1
  <2> HIDE DEF y, m, s
  <2>4. IsFiniteSet(Marked(y, m, s)) /\ Cardinality(Marked(y, m, s)) = Total(m, s)
    BY <2>1, <2>2, CountMarked
  <2> QED BY <2>3, <2>4 DEF m, s
<1>4. \A i, j \in 1..n : i # j => F[i] \cap F[j] = {}
  <2>1. ASSUME NEW t \in 1..n, NEW e \in F[t] PROVE e[2] = t
    <3>1. e \in Marked(x(t), mark[t], size[t])
      BY <1>1, <2>1
    <3>2. PICK k \in 1..size[t] : e = x(t)[k]
      BY <3>1 DEF Marked
    <3> QED BY <3>2
  <2> SUFFICES ASSUME NEW i \in 1..n, NEW j \in 1..n, i # j, NEW e \in F[i] \cap F[j]
               PROVE  FALSE
    OBVIOUS
  <2>2. e[2] = i /\ e[2] = j
    BY <2>1
  <2> QED BY <2>2
<1>5. /\ IsFiniteSet(UNION {F[t] : t \in 1..n})
      /\ Cardinality(UNION {F[t] : t \in 1..n}) = Total(f, n)
  BY <1>3, <1>4, CountUnion
<1>6. \A t \in 1..n : f[t] \in Int /\ g[t] = f[t]
  BY <1>3, FS_CardinalityType
<1> HIDE DEF f, g
<1>7. Total(g, n) = Total(f, n)
  BY <1>6, TotalSame
<1> QED BY <1>2, <1>5, <1>7 DEF g

-----------------------------------------------------------------------------
(* The list is what the chain made and did not spend.                       *)

(* The entries, the outputs and the inputs that have a hash.                *)
EntriesOf(u, h) == {i \in 1..Len(u) : u[i].out.hash = h}

(* The outputs of the chain with the hash h. *)
OutputsOf(c, h) == {p \in Outputs(c) : OutputAt(c, p).hash = h}

(* The inputs of the chain that refer to the hash h. *)
InputsOf(c, h)  == {p \in Inputs(c) : InputAt(c, p).tx_out_hash = h}

(* The entries of a hash, counted as a set and as a sum. *)
LEMMA EntriesCounted ==
  ASSUME NEW E, NEW H, Hashed(E, H), NEW h \in H, NEW u \in Seq(E)
  PROVE  /\ IsFiniteSet(EntriesOf(u, h))
         /\ Cardinality(EntriesOf(u, h)) = Held(Counting(h, H), u)
<1> DEFINE n == Len(u)
           c == Counting(h, H)
           x == [i \in 1..n |-> i]
           mark == [i \in 1..n |-> c[u[i].out.hash]]
<1>1. n \in Nat /\ \A i \in 1..n : u[i].out.hash \in H
  BY DEF Hashed
<1>2. \A i \in 1..n : mark[i] = IF u[i].out.hash = h THEN 1 ELSE 0
  BY <1>1 DEF Counting
<1>3. \A i \in 1..n : x[i] = i
  OBVIOUS
<1>4. Held(c, u) = Total(mark, n)
  BY DEF Held
<1> HIDE DEF x, mark, n, c
<1>5. IsFiniteSet(Marked(x, mark, n)) /\ Cardinality(Marked(x, mark, n)) = Total(mark, n)
  BY <1>1, <1>2, <1>3, CountMarked
<1>6. Marked(x, mark, n) = EntriesOf(u, h)
  <2>1. \A i \in 1..n : mark[i] = 1 <=> u[i].out.hash = h
    BY <1>2
  <2> QED BY <1>3, <2>1 DEF Marked, EntriesOf, n
<1> QED BY <1>4, <1>5, <1>6 DEF c

(* What is in a grid. *)
LEMMA InGrid ==
  ASSUME NEW b, NEW mark, NEW size, NEW n, NEW p
  PROVE  p \in Grid(b, mark, size, n) <=>
           \E t \in 1..n : \E k \in 1..size[t] : p = <<b, t, k>> /\ mark[t][k] = 1
<1> DEFINE S(t) == Marked([k \in 1..size[t] |-> <<b, t, k>>], mark[t], size[t])
<1>1. \A t : p \in S(t) <=> \E k \in 1..size[t] : p = <<b, t, k>> /\ mark[t][k] = 1
  BY DEF Marked
<1>2. p \in Grid(b, mark, size, n) <=> \E t \in 1..n : p \in S(t)
  BY DEF Grid
<1> HIDE DEF S
<1> QED BY <1>1, <1>2

(* The outputs and the inputs of one block.                                 *)
OutputGrid(b, txs, c) ==
    Grid(b, [t \in 1..Len(txs) |-> [o \in 1..Len(txs[t].outputs) |-> c[txs[t].outputs[o].hash]]],
            [t \in 1..Len(txs) |-> Len(txs[t].outputs)], Len(txs))

(* The inputs in the block at b that c counts: none of the coinbase. *)
InputGrid(b, txs, c) ==
    Grid(b, [t \in 1..Len(txs) |-> [k \in 1..Len(txs[t].inputs) |-> c[txs[t].inputs[k].tx_out_hash]]],
            [t \in 1..Len(txs) |-> IF t = 1 THEN 0 ELSE Len(txs[t].inputs)], Len(txs))

(* The outputs and the inputs with the hash h in the block at b.            *)
HasOutputs(S, b, txs, h) ==
    \A p : p \in S <=> \E t \in 1..Len(txs) : \E o \in 1..Len(txs[t].outputs) :
                          p = <<b, t, o>> /\ txs[t].outputs[o].hash = h

(* S is the inputs with the hash h in the block at b. *)
HasInputs(S, b, txs, h) ==
    \A p : p \in S <=> \E t \in 2..Len(txs) : \E k \in 1..Len(txs[t].inputs) :
                          p = <<b, t, k>> /\ txs[t].inputs[k].tx_out_hash = h

(* The outputs of a hash in a block, counted as a set and as a sum. *)
LEMMA OutputsCounted ==
  ASSUME NEW H, NEW h \in H, NEW txs, Len(txs) \in Nat,
         \A t \in 1..Len(txs) : /\ Len(txs[t].outputs) \in Nat
                                /\ \A o \in 1..Len(txs[t].outputs) : txs[t].outputs[o].hash \in H,
         NEW b
  PROVE  LET S == OutputGrid(b, txs, Counting(h, H))
         IN  /\ IsFiniteSet(S)
             /\ Cardinality(S) = BlockMakes(Counting(h, H), txs, Len(txs))
             /\ HasOutputs(S, b, txs, h)
<1> DEFINE n == Len(txs)
           c == Counting(h, H)
           size == [t \in 1..n |-> Len(txs[t].outputs)]
           mark == [t \in 1..n |-> [o \in 1..Len(txs[t].outputs) |-> c[txs[t].outputs[o].hash]]]
           f == [t \in 1..n |-> Total(mark[t], size[t])]
<1>1. n \in Nat /\ \A t \in 1..n : size[t] = Len(txs[t].outputs) /\ size[t] \in Nat
  OBVIOUS
<1>2. \A t \in 1..n : mark[t] = [o \in 1..Len(txs[t].outputs) |-> c[txs[t].outputs[o].hash]]
  OBVIOUS
<1>3. ASSUME NEW t \in 1..n, NEW o \in 1..Len(txs[t].outputs)
      PROVE  mark[t][o] = IF txs[t].outputs[o].hash = h THEN 1 ELSE 0
  <2>1. mark[t][o] = c[txs[t].outputs[o].hash]
    BY <1>2
  <2>2. txs[t].outputs[o].hash \in H
    OBVIOUS
  <2> HIDE DEF mark
  <2> QED BY <2>1, <2>2 DEF Counting
<1>4. f = [t \in 1..n |-> Makes(c, txs[t])]
  BY <1>1, <1>2 DEF Makes
<1>5. OutputGrid(b, txs, c) = Grid(b, mark, size, n)
  BY DEF OutputGrid
<1>6. BlockMakes(c, txs, n) = Total(f, n)
  BY <1>4 DEF BlockMakes
<1>7. f = [t \in 1..n |-> Total(mark[t], size[t])]
  OBVIOUS
<1> HIDE DEF c, size, mark, n, f
<1>8. \A t \in 1..n : size[t] \in Nat /\ \A k \in 1..size[t] : mark[t][k] \in {0, 1}
  BY <1>1, <1>3
<1>9. IsFiniteSet(Grid(b, mark, size, n)) /\ Cardinality(Grid(b, mark, size, n)) = Total(f, n)
  <2>1. n \in Nat
    BY <1>1
  <2>2. /\ IsFiniteSet(Grid(b, mark, size, n))
        /\ Cardinality(Grid(b, mark, size, n))
             = Total([t \in 1..n |-> Total(mark[t], size[t])], n)
    BY <1>8, <2>1, CountGrid, SMTT(30)
  <2> QED BY <1>7, <2>2
<1>10. ASSUME NEW p
       PROVE  p \in Grid(b, mark, size, n) <=>
                \E t \in 1..n : \E o \in 1..Len(txs[t].outputs) :
                   p = <<b, t, o>> /\ txs[t].outputs[o].hash = h
  <2>1. \A t \in 1..n : \A o \in 1..Len(txs[t].outputs) :
           mark[t][o] = 1 <=> txs[t].outputs[o].hash = h
    BY <1>3
  <2>2. p \in Grid(b, mark, size, n) <=>
           \E t \in 1..n : \E k \in 1..size[t] : p = <<b, t, k>> /\ mark[t][k] = 1
    BY InGrid
  <2> QED BY <1>1, <2>1, <2>2, SMTT(30)
<1> QED BY <1>5, <1>6, <1>9, <1>10 DEF c, n, HasOutputs

(* The same for the inputs. *)
LEMMA InputsCounted ==
  ASSUME NEW H, NEW h \in H, NEW txs, Len(txs) \in Nat,
         \A t \in 2..Len(txs) : HashedInputs(txs[t], H),
         NEW b
  PROVE  LET S == InputGrid(b, txs, Counting(h, H))
         IN  /\ IsFiniteSet(S)
             /\ Cardinality(S) = BlockSpends(Counting(h, H), txs, Len(txs))
             /\ HasInputs(S, b, txs, h)
<1> DEFINE n == Len(txs)
           c == Counting(h, H)
           size == [t \in 1..n |-> IF t = 1 THEN 0 ELSE Len(txs[t].inputs)]
           mark == [t \in 1..n |-> [k \in 1..Len(txs[t].inputs) |-> c[txs[t].inputs[k].tx_out_hash]]]
           f == [t \in 1..n |-> Total(mark[t], size[t])]
<1>1. /\ n \in Nat
      /\ \A t \in 1..n : t = 1 \/ t \in 2..n
      /\ \A t \in 2..n : t # 1 /\ t \in 1..n
  OBVIOUS
<1>2. /\ \A t \in 2..n : size[t] = Len(txs[t].inputs) /\ size[t] \in Nat
      /\ 1 \in 1..n => size[1] = 0
  BY <1>1 DEF HashedInputs
<1>3. \A t \in 1..n : mark[t] = [k \in 1..Len(txs[t].inputs) |-> c[txs[t].inputs[k].tx_out_hash]]
  OBVIOUS
<1>4. ASSUME NEW t \in 2..n, NEW k \in 1..Len(txs[t].inputs)
      PROVE  mark[t][k] = IF txs[t].inputs[k].tx_out_hash = h THEN 1 ELSE 0
  <2>1. mark[t][k] = c[txs[t].inputs[k].tx_out_hash]
    BY <1>1, <1>3
  <2>2. txs[t].inputs[k].tx_out_hash \in H
    BY DEF HashedInputs
  <2> HIDE DEF mark
  <2> QED BY <2>1, <2>2 DEF Counting
<1>5. InputGrid(b, txs, c) = Grid(b, mark, size, n)
  BY DEF InputGrid
<1>6. f = [t \in 1..n |-> Total(mark[t], size[t])]
  OBVIOUS
<1> DEFINE g == [t \in 1..n |-> IF t = 1 THEN 0 ELSE Spends(c, txs[t], Len(txs[t].inputs))]
<1>7. BlockSpends(c, txs, n) = Total(g, n)
  BY DEF BlockSpends
<1>8. \A t \in 1..n : /\ g[t] = IF t = 1 THEN 0 ELSE Spends(c, txs[t], Len(txs[t].inputs))
                      /\ f[t] = Total(mark[t], size[t])
  OBVIOUS
<1>9. c \in [H -> Int]
  BY DEF Counting
<1> HIDE DEF c, size, mark, n, f, g
<1>10. \A t \in 1..n : size[t] \in Nat /\ \A k \in 1..size[t] : mark[t][k] \in {0, 1}
  BY <1>1, <1>2, <1>4
<1>11. IsFiniteSet(Grid(b, mark, size, n)) /\ Cardinality(Grid(b, mark, size, n)) = Total(f, n)
  <2>1. n \in Nat
    BY <1>1
  <2>2. /\ IsFiniteSet(Grid(b, mark, size, n))
        /\ Cardinality(Grid(b, mark, size, n))
             = Total([t \in 1..n |-> Total(mark[t], size[t])], n)
    BY <1>10, <2>1, CountGrid
  <2> QED BY <1>6, <2>2
<1>12. \A t \in 1..n : f[t] \in Int /\ g[t] = f[t]
  <2> SUFFICES ASSUME NEW t \in 1..n PROVE f[t] \in Int /\ g[t] = f[t]
    OBVIOUS
  <2>1. CASE t = 1
    <3> DEFINE m == mark[1]
    <3>1. \A k \in 1..0 : m[k] \in Int
      OBVIOUS
    <3> HIDE DEF m
    <3>2. Total(m, 0) = 0
      BY <3>1, TotalSteps
    <3> QED BY <1>2, <1>8, <2>1, <3>2 DEF m
  <2>2. CASE t \in 2..n
    <3>1. g[t] = Spends(c, txs[t], Len(txs[t].inputs)) /\ f[t] = Total(mark[t], Len(txs[t].inputs))
      BY <1>1, <1>2, <1>8, <2>2
    <3>2. Spends(c, txs[t], Len(txs[t].inputs)) = Total(mark[t], Len(txs[t].inputs))
      BY <1>3 DEF Spends
    <3>3. HashedInputs(txs[t], H)
      BY <2>2 DEF n
    <3>4. Spends(c, txs[t], Len(txs[t].inputs)) \in Int
      <4>1. Len(txs[t].inputs) \in 0..Len(txs[t].inputs)
        BY <3>3 DEF HashedInputs
      <4> QED BY <1>9, <3>3, <4>1, SpendsSteps
    <3> QED BY <3>1, <3>2, <3>4
  <2> QED BY <1>1, <2>1, <2>2
<1>13. Total(g, n) = Total(f, n)
  BY <1>1, <1>12, TotalSame
<1>14. ASSUME NEW p
       PROVE  p \in Grid(b, mark, size, n) <=>
                \E t \in 2..n : \E k \in 1..Len(txs[t].inputs) :
                   p = <<b, t, k>> /\ txs[t].inputs[k].tx_out_hash = h
  <2>1. \A t \in 2..n : \A k \in 1..Len(txs[t].inputs) :
           mark[t][k] = 1 <=> txs[t].inputs[k].tx_out_hash = h
    BY <1>4
  <2>2. p \in Grid(b, mark, size, n) <=>
           \E t \in 1..n : \E k \in 1..size[t] : p = <<b, t, k>> /\ mark[t][k] = 1
    BY InGrid
  <2>3. \A t \in 1..n : \A k \in 1..size[t] : t \in 2..n
    BY <1>1, <1>2
  <2>4. \A t \in 2..n : t \in 1..n /\ size[t] = Len(txs[t].inputs)
    BY <1>1, <1>2
  <2> DEFINE Left == \E t \in 1..n : \E k \in 1..size[t] : p = <<b, t, k>> /\ mark[t][k] = 1
             Right == \E t \in 2..n : \E k \in 1..Len(txs[t].inputs) :
                         p = <<b, t, k>> /\ txs[t].inputs[k].tx_out_hash = h
  <2>5. Left => Right
    BY <2>1, <2>3, <2>4
  <2>6. Right => Left
    BY <2>1, <2>4
  <2> QED BY <2>2, <2>5, <2>6
<1> QED BY <1>5, <1>7, <1>11, <1>13, <1>14 DEF c, n, HasInputs

(* A block adds its outputs and its inputs to those of the chain.           *)
LEMMA GrownOutputs ==
  ASSUME NEW c, Len(c) \in Nat, NEW d, Len(d) = Len(c) + 1,
         \A b \in 1..Len(c) : d[b] = c[b], NEW h,
         NEW S, HasOutputs(S, Len(c) + 1, d[Len(c) + 1].transactions, h)
  PROVE  OutputsOf(d, h) = OutputsOf(c, h) \cup S /\ OutputsOf(c, h) \cap S = {}
<1> DEFINE N == Len(c)
           txs == d[N + 1].transactions
<1>1. N \in Nat /\ Len(d) = N + 1 /\ (\A b \in 1..N : d[b] = c[b]) /\ d[N + 1].transactions = txs
  OBVIOUS
<1>2. \A p : p \in S <=> \E t \in 1..Len(txs) : \E o \in 1..Len(txs[t].outputs) :
                            p = <<N + 1, t, o>> /\ txs[t].outputs[o].hash = h
  BY DEF HasOutputs
<1> HIDE DEF txs, N
<1>3. ASSUME NEW p \in OutputsOf(d, h) PROVE p \in OutputsOf(c, h) \cup S
  <2>1. PICK b, t, o : /\ p = <<b, t, o>>
                       /\ b \in 1..Len(d) /\ t \in 1..Len(d[b].transactions)
                       /\ o \in 1..Len(d[b].transactions[t].outputs)
    BY ChainPositions DEF OutputsOf
  <2>2. d[b].transactions[t].outputs[o].hash = h
    BY <2>1 DEF OutputsOf, OutputAt
  <2>3. CASE b = N + 1
    <3>1. t \in 1..Len(txs) /\ o \in 1..Len(txs[t].outputs) /\ txs[t].outputs[o].hash = h
      BY <1>1, <2>1, <2>2, <2>3
    <3> QED BY <1>2, <2>1, <2>3, <3>1
  <2>4. CASE b \in 1..N
    <3>1. d[b] = c[b] /\ b \in 1..Len(c)
      BY <1>1, <2>4 DEF N
    <3>2. p \in Outputs(c)
      BY <2>1, <3>1, ChainPositions
    <3>3. OutputAt(c, p).hash = h
      BY <2>1, <2>2, <3>1 DEF OutputAt
    <3> QED BY <3>2, <3>3 DEF OutputsOf
  <2>5. b = N + 1 \/ b \in 1..N
    BY <1>1, <2>1
  <2> QED BY <2>3, <2>4, <2>5
<1>4. ASSUME NEW p \in OutputsOf(c, h) PROVE p \in OutputsOf(d, h) /\ p[1] \in 1..N
  BY LongerChain DEF OutputsOf, N
<1>5. ASSUME NEW p \in S PROVE p \in OutputsOf(d, h) /\ p[1] = N + 1
  <2>1. PICK t \in 1..Len(txs) : \E o \in 1..Len(txs[t].outputs) :
           p = <<N + 1, t, o>> /\ txs[t].outputs[o].hash = h
    BY <1>2
  <2>2. PICK o \in 1..Len(txs[t].outputs) : p = <<N + 1, t, o>> /\ txs[t].outputs[o].hash = h
    BY <2>1
  <2>3. N + 1 \in 1..Len(d)
    BY <1>1
  <2>4. <<N + 1, t, o>> \in Outputs(d)
    BY <1>1, <2>3, ChainPositions
  <2>5. OutputAt(d, p) = txs[t].outputs[o]
    BY <1>1, <2>2 DEF OutputAt
  <2> QED BY <2>2, <2>4, <2>5 DEF OutputsOf
<1>6. N + 1 \notin 1..N
  BY <1>1
<1>7. OutputsOf(c, h) \cap S = {}
  BY <1>4, <1>5, <1>6
<1> QED BY <1>3, <1>4, <1>5, <1>7

(* The places of inputs in a chain. *)
LEMMA InputPositions ==
  ASSUME NEW c, NEW b \in 1..Len(c), NEW t \in 2..Len(c[b].transactions),
         NEW k \in 1..Len(c[b].transactions[t].inputs)
  PROVE  <<b, t, k>> \in Inputs(c)
  BY DEF Inputs

(* A new block adds its inputs to those of the chain. *)
LEMMA GrownInputs ==
  ASSUME NEW c, Len(c) \in Nat, NEW d, Len(d) = Len(c) + 1,
         \A b \in 1..Len(c) : d[b] = c[b], NEW h,
         NEW S, HasInputs(S, Len(c) + 1, d[Len(c) + 1].transactions, h)
  PROVE  InputsOf(d, h) = InputsOf(c, h) \cup S /\ InputsOf(c, h) \cap S = {}
<1> DEFINE N == Len(c)
           txs == d[N + 1].transactions
<1>1. N \in Nat /\ Len(d) = N + 1 /\ (\A b \in 1..N : d[b] = c[b]) /\ d[N + 1].transactions = txs
  OBVIOUS
<1>2. \A p : p \in S <=> \E t \in 2..Len(txs) : \E k \in 1..Len(txs[t].inputs) :
                            p = <<N + 1, t, k>> /\ txs[t].inputs[k].tx_out_hash = h
  BY DEF HasInputs
<1> HIDE DEF txs, N
<1>3. ASSUME NEW p \in InputsOf(d, h) PROVE p \in InputsOf(c, h) \cup S
  <2>1. PICK b, t, k : /\ p = <<b, t, k>>
                       /\ b \in 1..Len(d) /\ t \in 2..Len(d[b].transactions)
                       /\ k \in 1..Len(d[b].transactions[t].inputs)
    BY ChainPositions DEF InputsOf
  <2>2. d[b].transactions[t].inputs[k].tx_out_hash = h
    BY <2>1 DEF InputsOf, InputAt
  <2>3. CASE b = N + 1
    <3>1. t \in 2..Len(txs) /\ k \in 1..Len(txs[t].inputs) /\ txs[t].inputs[k].tx_out_hash = h
      BY <1>1, <2>1, <2>2, <2>3
    <3> QED BY <1>2, <2>1, <2>3, <3>1
  <2>4. CASE b \in 1..N
    <3>1. d[b] = c[b] /\ b \in 1..Len(c)
      BY <1>1, <2>4 DEF N
    <3>2. p \in Inputs(c)
      BY <2>1, <3>1, InputPositions
    <3>3. InputAt(c, p).tx_out_hash = h
      BY <2>1, <2>2, <3>1 DEF InputAt
    <3> QED BY <3>2, <3>3 DEF InputsOf
  <2>5. b = N + 1 \/ b \in 1..N
    BY <1>1, <2>1
  <2> QED BY <2>3, <2>4, <2>5
<1>4. ASSUME NEW p \in InputsOf(c, h) PROVE p \in InputsOf(d, h) /\ p[1] \in 1..N
  <2>1. PICK b, t, k : /\ p = <<b, t, k>>
                       /\ b \in 1..Len(c) /\ t \in 2..Len(c[b].transactions)
                       /\ k \in 1..Len(c[b].transactions[t].inputs)
    BY ChainPositions DEF InputsOf
  <2>2. b \in 1..N /\ b \in 1..Len(d) /\ d[b] = c[b]
    BY <1>1, <2>1 DEF N
  <2>3. p \in Inputs(d)
    BY <2>1, <2>2, InputPositions
  <2>4. InputAt(d, p) = InputAt(c, p)
    BY <2>1, <2>2 DEF InputAt
  <2> QED BY <2>1, <2>2, <2>3, <2>4 DEF InputsOf
<1>5. ASSUME NEW p \in S PROVE p \in InputsOf(d, h) /\ p[1] = N + 1
  <2>1. PICK t \in 2..Len(txs) : \E k \in 1..Len(txs[t].inputs) :
           p = <<N + 1, t, k>> /\ txs[t].inputs[k].tx_out_hash = h
    BY <1>2
  <2>2. PICK k \in 1..Len(txs[t].inputs) : p = <<N + 1, t, k>> /\ txs[t].inputs[k].tx_out_hash = h
    BY <2>1
  <2>3. N + 1 \in 1..Len(d)
    BY <1>1
  <2>4. <<N + 1, t, k>> \in Inputs(d)
    BY <1>1, <2>3, InputPositions
  <2>5. InputAt(d, p) = txs[t].inputs[k]
    BY <1>1, <2>2 DEF InputAt
  <2> QED BY <2>2, <2>4, <2>5 DEF InputsOf
<1>6. N + 1 \notin 1..N
  BY <1>1
<1>7. InputsOf(c, h) \cap S = {}
  BY <1>4, <1>5, <1>6
<1> QED BY <1>3, <1>4, <1>5, <1>7

(* What the entries of the list have after a block.                         *)
LEMMA BlockHeld ==
  ASSUME AmountsTold, NEW E, Genuine(E), NEW u, NEW txs, NEW hash,
         EntriesIn(E, u, txs, hash), Payable(txs, u), NEW c \in [OutputHashes -> Int]
  PROVE  Held(c, UpdateUnspent(txs, hash, u))
           = (Held(c, u) - BlockSpends(c, txs, Len(txs))) + BlockMakes(c, txs, Len(txs))
<1>1. Len(txs) \in Nat /\ Len(txs) \in 1..Len(txs)
  BY DEF Payable
<1>2. UpdateUnspent(txs, hash, u) = Updating(u, txs, hash)[Len(txs)]
  BY DEF UpdateUnspent
<1>3. PICK old \in Seq(E), new \in Seq(E) :
        Divided(old, new, u, txs, Len(txs), Updating(u, txs, hash)[Len(txs)])
  BY <1>1, BlockDivided
<1>4. Hashed(E, OutputHashes)
  BY GenuineHashed
<1>5. Held(c, old \o new) = Held(c, old) + Held(c, new)
  BY <1>4, HeldConcat
<1> QED BY <1>2, <1>3, <1>5 DEF Divided

(* The list has the outputs of the hash h that are not spent: each is in    *)
(* the list or referred to by one input.                                    *)
Exact(c, u, h) ==
    /\ IsFiniteSet(OutputsOf(c, h))
    /\ IsFiniteSet(InputsOf(c, h))
    /\ Cardinality(EntriesOf(u, h)) + Cardinality(InputsOf(c, h)) = Cardinality(OutputsOf(c, h))

(* Every output on the chain has a hash of an output, and the list is exact *)
(* for each hash.                                                           *)
ExactInv ==
    /\ \A p \in Outputs(chain) : OutputAt(chain, p).hash \in OutputHashes
    /\ \A h \in OutputHashes : Exact(chain, unspent, h)

(* What a block does to the three counts of a hash.                         *)
LEMMA MineExact ==
  ASSUME AmountsTold, IndexesTold, IInv, SessionInv, ExactInv, NEW time, Mine(time)
  PROVE  ExactInv'
<1> DEFINE block == BlockMine(DraftBlock(time))
           txs == block.transactions
           hash == block.hash
           N == Len(chain)
<1>1. chain' = Append(chain, block) /\ unspent' = UpdateUnspent(txs, hash, unspent)
  BY MinedBlock
<1>2. Payable(txs, unspent) /\ IsTransactionList(txs) /\ Made(txs)
  BY DraftPayable DEF Mine
<1> HIDE DEF block, hash
<1>3. IsUnspentList(unspent) /\ IsSeq(unspent) /\ Genuine(Members(unspent)) /\ IsSeq(chain)
  BY DEF IInv, TypeOK, IsUnspentList, SessionInv
<1>4. /\ N \in Nat /\ Len(chain') = N + 1
      /\ \A b \in 1..N : chain'[b] = chain[b]
      /\ chain'[N + 1].transactions = txs
  BY <1>1, <1>3, AppendMembers DEF IsSeq
<1> HIDE DEF txs, N
<1>5. PICK E : EntriesIn(E, unspent, txs, hash)
  BY <1>2, <1>3, BlockEntries
<1>6. Genuine(E) /\ Hashed(E, OutputHashes)
  BY <1>2, <1>3, <1>5, GenuineEntries, GenuineHashed
<1>7. unspent \in Seq(E) /\ unspent' \in Seq(E)
  <2>1. /\ Len(txs) \in Nat /\ unspent \in Seq(E)
        /\ \A t \in 1..Len(txs) : /\ Len(txs[t].inputs) \in Nat
                                 /\ NewUnspent(txs[t], hash) \in Seq(E)
    BY <1>2, <1>5 DEF EntriesIn, IsTransactionList, IsSeq
  <2> QED BY <1>1, <2>1, UpdateUnspentType
<1>8. /\ Len(txs) \in Nat
      /\ \A t \in 1..Len(txs) :
            /\ Len(txs[t].outputs) \in Nat
            /\ \A o \in 1..Len(txs[t].outputs) : txs[t].outputs[o].hash \in OutputHashes
      /\ \A t \in 2..Len(txs) : HashedInputs(txs[t], OutputHashes)
  <2>1. \A t \in 1..Len(txs) : Len(txs[t].outputs) \in Nat
    BY <1>2 DEF IsTransactionList, IsTransaction, IsSeq
  <2>2. \A t \in 1..Len(txs) : \A o \in 1..Len(txs[t].outputs) :
           txs[t].outputs[o].hash \in OutputHashes
    <3>1. \A out : IsOutput(out) => out.hash \in OutputHashes
      BY DEF IsOutput, TxOutCreate, OutputHashes
    <3> QED BY <1>2, <3>1 DEF Made, MadeOutputs
  <2>3. Len(txs) \in Nat /\ \A t \in 2..Len(txs) : HashedInputs(txs[t], OutputHashes)
    BY <1>2 DEF Payable, Even
  <2> QED BY <2>1, <2>2, <2>3
<1>9. ASSUME NEW p \in Outputs(chain') PROVE OutputAt(chain', p).hash \in OutputHashes
  <2>1. PICK b, t, o : /\ p = <<b, t, o>>
                       /\ b \in 1..Len(chain') /\ t \in 1..Len(chain'[b].transactions)
                       /\ o \in 1..Len(chain'[b].transactions[t].outputs)
    BY ChainPositions
  <2>2. OutputAt(chain', p) = chain'[b].transactions[t].outputs[o]
    BY <2>1 DEF OutputAt
  <2>3. CASE b = N + 1
    BY <1>4, <1>8, <2>1, <2>2, <2>3
  <2>4. CASE b \in 1..N
    <3>1. chain'[b] = chain[b] /\ b \in 1..Len(chain)
      BY <1>4, <2>4 DEF N
    <3>2. p \in Outputs(chain)
      BY <2>1, <3>1, ChainPositions
    <3>3. OutputAt(chain, p) = OutputAt(chain', p)
      BY <2>1, <2>2, <3>1 DEF OutputAt
    <3> QED BY <3>2, <3>3 DEF ExactInv
  <2>5. b = N + 1 \/ b \in 1..N
    BY <1>4, <2>1
  <2> QED BY <2>3, <2>4, <2>5
<1>10. ASSUME NEW h \in OutputHashes PROVE Exact(chain', unspent', h)
  <2> DEFINE H == OutputHashes
             c == Counting(h, H)
             O == OutputGrid(N + 1, txs, c)
             I == InputGrid(N + 1, txs, c)
  <2>1. c \in [H -> Int]
    BY DEF Counting
  <2>2. /\ IsFiniteSet(O) /\ Cardinality(O) = BlockMakes(c, txs, Len(txs))
        /\ HasOutputs(O, N + 1, txs, h)
    BY <1>8, OutputsCounted
  <2>3. /\ IsFiniteSet(I) /\ Cardinality(I) = BlockSpends(c, txs, Len(txs))
        /\ HasInputs(I, N + 1, txs, h)
    BY <1>8, InputsCounted
  <2>4. Held(c, unspent') = (Held(c, unspent) - BlockSpends(c, txs, Len(txs)))
                              + BlockMakes(c, txs, Len(txs))
    BY <1>1, <1>2, <1>5, <1>6, <2>1, BlockHeld
  <2>5. /\ Cardinality(EntriesOf(unspent, h)) = Held(c, unspent)
        /\ Cardinality(EntriesOf(unspent', h)) = Held(c, unspent')
    BY <1>6, <1>7, EntriesCounted
  <2>6. IsFiniteSet(EntriesOf(unspent, h))
    BY <1>6, <1>7, EntriesCounted
  <2> HIDE DEF c, O, I, H
  <2>7. OutputsOf(chain', h) = OutputsOf(chain, h) \cup O /\ OutputsOf(chain, h) \cap O = {}
    BY <1>4, <2>2, GrownOutputs DEF N
  <2>8. InputsOf(chain', h) = InputsOf(chain, h) \cup I /\ InputsOf(chain, h) \cap I = {}
    BY <1>4, <2>3, GrownInputs DEF N
  <2>9. Exact(chain, unspent, h)
    BY DEF ExactInv
  <2>10. /\ IsFiniteSet(OutputsOf(chain', h))
         /\ Cardinality(OutputsOf(chain', h))
              = Cardinality(OutputsOf(chain, h)) + BlockMakes(c, txs, Len(txs))
         /\ Cardinality(OutputsOf(chain, h)) \in Nat /\ BlockMakes(c, txs, Len(txs)) \in Nat
    <3> DEFINE was == OutputsOf(chain, h)
    <3>1. IsFiniteSet(was) /\ IsFiniteSet(O) /\ was \cap O = {}
      BY <2>2, <2>7, <2>9 DEF Exact
    <3> HIDE DEF was
    <3>2. /\ Cardinality(was) \in Nat /\ Cardinality(O) \in Nat
          /\ IsFiniteSet(was \cup O)
          /\ Cardinality(was \cup O) = Cardinality(was) + Cardinality(O)
      BY <3>1, CountBoth
    <3>3. OutputsOf(chain', h) = was \cup O
      BY <2>7 DEF was
    <3> QED BY <2>2, <3>2, <3>3 DEF was
  <2>11. /\ IsFiniteSet(InputsOf(chain', h))
         /\ Cardinality(InputsOf(chain', h))
              = Cardinality(InputsOf(chain, h)) + BlockSpends(c, txs, Len(txs))
         /\ Cardinality(InputsOf(chain, h)) \in Nat /\ BlockSpends(c, txs, Len(txs)) \in Nat
    <3> DEFINE was == InputsOf(chain, h)
    <3>1. IsFiniteSet(was) /\ IsFiniteSet(I) /\ was \cap I = {}
      BY <2>3, <2>8, <2>9 DEF Exact
    <3> HIDE DEF was
    <3>2. /\ Cardinality(was) \in Nat /\ Cardinality(I) \in Nat
          /\ IsFiniteSet(was \cup I)
          /\ Cardinality(was \cup I) = Cardinality(was) + Cardinality(I)
      BY <3>1, CountBoth
    <3>3. InputsOf(chain', h) = was \cup I
      BY <2>8 DEF was
    <3> QED BY <2>3, <3>2, <3>3 DEF was
  <2>12. Cardinality(EntriesOf(unspent, h)) \in Nat
    BY <2>6, FS_CardinalityType
  <2> DEFINE e == Cardinality(EntriesOf(unspent, h))
             f == Cardinality(EntriesOf(unspent', h))
             i == Cardinality(InputsOf(chain, h))
             j == Cardinality(InputsOf(chain', h))
             o == Cardinality(OutputsOf(chain, h))
             q == Cardinality(OutputsOf(chain', h))
             made == BlockMakes(c, txs, Len(txs))
             spent == BlockSpends(c, txs, Len(txs))
  <2>13. /\ e \in Nat /\ i \in Nat /\ o \in Nat /\ made \in Nat /\ spent \in Nat
         /\ e + i = o /\ f = (e - spent) + made /\ j = i + spent /\ q = o + made
    BY <2>4, <2>5, <2>9, <2>10, <2>11, <2>12 DEF Exact
  <2> HIDE DEF e, f, i, j, o, q, made, spent
  <2>14. f + j = q
    BY <2>13
  <2> QED BY <2>10, <2>11, <2>14 DEF Exact, f, j, q
<1> QED BY <1>9, <1>10 DEF ExactInv

(* A chain of the genesis block alone has neither outputs nor inputs.       *)
LEMMA GenesisExact ==
  /\ \A p \in Outputs(<<GenesisBlock>>) : OutputAt(<<GenesisBlock>>, p).hash \in OutputHashes
  /\ \A h : Exact(<<GenesisBlock>>, <<>>, h)
<1> DEFINE c == <<GenesisBlock>>
           u == <<>>
<1>1. Len(c) = 1 /\ Len(c[1].transactions) = 0 /\ Len(u) = 0
  BY DEF GenesisBlock
<1>2. \A b \in 1..Len(c) : Len(c[b].transactions) = 0
  BY <1>1
<1> HIDE DEF c, u
<1>3. Outputs(c) = {} /\ Inputs(c) = {}
  <2>1. \A b \in 1..Len(c) : 1..Len(c[b].transactions) = {} /\ 2..Len(c[b].transactions) = {}
    BY <1>2
  <2>2. \A p : p \notin Outputs(c)
    BY <2>1, ChainPositions
  <2>3. \A p : p \notin Inputs(c)
    BY <2>1, ChainPositions
  <2> QED BY <2>2, <2>3
<1>4. \A h : OutputsOf(c, h) = {} /\ InputsOf(c, h) = {} /\ EntriesOf(u, h) = {}
  BY <1>1, <1>3 DEF OutputsOf, InputsOf, EntriesOf
<1>5. IsFiniteSet({}) /\ Cardinality({}) = 0
  BY FS_EmptySet
<1>6. \A h : Exact(c, u, h)
  BY <1>4, <1>5 DEF Exact
<1> QED BY <1>3, <1>6 DEF c, u

(* A step of a session keeps the list exact. *)
LEMMA ExactStep ==
  ASSUME Paths = {}, AmountsTold, IndexesTold, IInv, SessionInv, ExactInv, [Next]_vars
  PROVE  ExactInv'
<1>1. CASE chain' = chain /\ unspent' = unspent
  BY <1>1 DEF ExactInv
<1>2. CASE \E time \in Times : Mine(time)
  BY <1>2, MineExact
<1>3. CASE chain' = chain /\ unspent' = SortByAmount(unspent)
  <2> DEFINE E == Members(unspent)
  <2>1. unspent \in Seq(E) /\ Hashed(E, OutputHashes)
    BY SeqOfMembers, GenuineHashed DEF IInv, TypeOK, IsUnspentList, SessionInv
  <2> HIDE DEF E
  <2>2. unspent' \in Seq(E)
    BY <1>3, <2>1, SortType
  <2>3. ASSUME NEW h \in OutputHashes
        PROVE  Cardinality(EntriesOf(unspent', h)) = Cardinality(EntriesOf(unspent, h))
    <3> DEFINE c == Counting(h, OutputHashes)
    <3>1. c \in [OutputHashes -> Int]
      BY DEF Counting
    <3>2. /\ Cardinality(EntriesOf(unspent', h)) = Held(c, unspent')
          /\ Cardinality(EntriesOf(unspent, h)) = Held(c, unspent)
      BY <2>1, <2>2, EntriesCounted
    <3> HIDE DEF c
    <3>3. Held(c, unspent') = Held(c, unspent)
      BY <1>3, <2>1, <3>1, HeldSort
    <3> QED BY <3>2, <3>3
  <2> QED BY <1>3, <2>3 DEF ExactInv, Exact
<1>4. CASE chain' = <<GenesisBlock>> /\ unspent' = <<>>
  BY <1>4, GenesisExact DEF ExactInv
<1>5. CASE \E time \in Times : MineRejected(time)
  BY <1>1, <1>5 DEF MineRejected
<1>6. CASE \E amount \in Amounts : \E receiver : Send(amount, receiver)
  BY <1>1, <1>6 DEF Send
<1>7. SameLedger => chain' = chain /\ unspent' = unspent
  BY DEF SameLedger
<1> QED BY <1>1, <1>2, <1>3, <1>4, <1>5, <1>6, <1>7, MemoryStep

(* In every session without files the list of unspent outputs has, for each *)
(* amount and key, as many entries as the chain made outputs and did not    *)
(* spend: the removal by output hash, one entry for each input, and the     *)
(* sort lose and keep nothing (update_unspent, transaction_create).         *)
THEOREM UtxoAlwaysExact ==
  ASSUME Paths = {}, AmountsTold, IndexesTold
  PROVE  Spec => []UtxoExact
<1>1. Init => ExactInv
  BY GenesisExact DEF Init, ExactInv
<1>2. IInv /\ SessionInv /\ ExactInv /\ [Next]_vars => ExactInv'
  BY ExactStep
<1>3. SessionInv /\ ExactInv => UtxoExact
  <2> SUFFICES ASSUME SessionInv, ExactInv,
                      NEW hash \in {OutputAt(chain, p).hash : p \in Outputs(chain)}
                                     \cup {unspent[i].out.hash : i \in 1..Len(unspent)}
               PROVE  Cardinality({i \in 1..Len(unspent) : unspent[i].out.hash = hash})
                        + Cardinality({p \in Inputs(chain) : InputAt(chain, p).tx_out_hash = hash})
                        = Cardinality({p \in Outputs(chain) : OutputAt(chain, p).hash = hash})
    BY DEF UtxoExact
  <2>1. hash \in OutputHashes
    <3>1. Hashed(Members(unspent), OutputHashes)
      BY GenuineHashed DEF SessionInv
    <3> QED BY <3>1 DEF ExactInv, Hashed, Members
  <2> QED BY <2>1 DEF ExactInv, Exact, EntriesOf, InputsOf, OutputsOf
<1> QED BY <1>1, <1>2, <1>3, SessionInvariant, PTL DEF Spec

(* In such a session mine adds the coinbase to the coins there are, and     *)
(* nothing else: what the documentation of transaction_is_valid promises,   *)
(* and a list loaded with a reference that occurs twice breaks.             *)
THEOREM MineAlwaysAddsCoinbase ==
  ASSUME Paths = {}, AmountsTold, IndexesTold
  PROVE  Spec => MineAddsCoinbase
<1>1. ASSUME IInv, SessionInv, [Next]_vars,
             NEW time \in Times, Mine(time)
      PROVE  Coins' = (Coins + COINBASE_AMOUNT) % UINT32
  <2> DEFINE c == COINBASE_AMOUNT
             n == Len(chain) - 1
             m == c * n
  <2>1. Len(chain) \in Nat /\ Len(chain') = Len(chain) + 1
    <3>1. IsSeq(chain)
      BY <1>1 DEF IInv, TypeOK
    <3>2. chain' = Append(chain, BlockMine(DraftBlock(time)))
      BY <1>1, MinedBlock
    <3> QED BY <3>1, <3>2, AppendMembers DEF IsSeq
  <2>2. Coins = m % UINT32
    BY <1>1 DEF SessionInv, SupplyConserved
  <2>3. Coins' = (c * (Len(chain') - 1)) % UINT32
    <3>1. SupplyConserved'
      BY <1>1, MineSession
    <3> QED BY <3>1 DEF SupplyConserved
  <2>4. UINT32 \in Nat \ {0} /\ c \in Int
    BY AmountAssumption
  <2>5. m \in Int /\ c * (Len(chain') - 1) = m + c
    BY <2>1, <2>4
  <2> HIDE DEF c, n, m
  <2>6. ((m % UINT32) + c) % UINT32 = (m + c) % UINT32
    BY <2>4, <2>5, RemainderOfSum
  <2>7. Coins' = (Coins + c) % UINT32
    BY <2>2, <2>3, <2>5, <2>6
  <2> QED BY <2>7 DEF c
<1>2. IInv /\ SessionInv /\ [Next]_vars
        => [(\E time \in Times : Mine(time)) =>
              Coins' = (Coins + COINBASE_AMOUNT) % UINT32]_vars
  BY <1>1
<1> QED BY <1>2, SessionInvariant, PTL DEF Spec, MineAddsCoinbase

=============================================================================
