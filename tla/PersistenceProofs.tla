-------------------------- MODULE PersistenceProofs --------------------------
(***************************************************************************)
(* save and load of blockchains of any length: at every moment the file is *)
(* the beginning of one save, a load of a whole file gives the ledger that *)
(* was saved, and the loops of blockchain_serialize and                    *)
(* blockchain_deserialize implement Store.                                 *)
(***************************************************************************)
EXTENDS Persistence, SequenceTheorems, InductionLemmas

-----------------------------------------------------------------------------
(* Sequences of sequences.                                                  *)

(* The first n sequences of s, one after the other. *)
Joined(s, n) ==
    LET join[k \in 0..n] == IF k = 0 THEN <<>> ELSE join[k - 1] \o s[k]
    IN  join[n]

(* g has the joined sequences as its values. *)
Joins(g, s, n, E) ==
    /\ g \in [0..n -> Seq(E)]
    /\ g[0] = <<>>
    /\ \A k \in 1..n : g[k] = g[k - 1] \o s[k]

(* The joined sequences exist. *)
LEMMA JoinedExists ==
  ASSUME NEW n \in Nat, NEW E, NEW s, \A k \in 1..n : s[k] \in Seq(E)
  PROVE  \E g : Joins(g, s, n, E)
<1> DEFINE F == [x \in (1..n) \X Seq(E) |-> x[2] \o s[x[1]]]
<1>1. F \in [(1..n) \X Seq(E) -> Seq(E)]
  <2> SUFFICES ASSUME NEW k \in 1..n, NEW u \in Seq(E) PROVE u \o s[k] \in Seq(E)
    OBVIOUS
  <2>1. s[k] \in Seq(E)
    OBVIOUS
  <2> QED BY <2>1, ConcatProperties
<1>2. \A k \in 1..n, u \in Seq(E) : F[<<k, u>>] = u \o s[k]
  OBVIOUS
<1>3. <<>> \in Seq(E)
  OBVIOUS
<1> HIDE DEF F
<1>4. PICK g \in [0..n -> Seq(E)] : Solves(g, n, <<>>, F)
  BY <1>1, <1>3, RecursionExists
<1>5. \A k \in 1..n : k - 1 \in 0..n
  OBVIOUS
<1>6. \A k \in 1..n : g[k - 1] \in Seq(E)
  BY <1>5
<1>7. g[0] = <<>> /\ \A k \in 1..n : g[k] = F[<<k, g[k - 1]>>]
  BY <1>4 DEF Solves
<1>8. \A k \in 1..n : g[k] = g[k - 1] \o s[k]
  BY <1>2, <1>6, <1>7
<1> QED BY <1>4, <1>7, <1>8 DEF Joins

(* The recursion has them as its values. *)
LEMMA JoinedIs ==
  ASSUME NEW n \in Nat, NEW E, NEW s, NEW g, Joins(g, s, n, E)
  PROVE  Joined(s, n) = g[n]
<1> DEFINE Is(r) == r = [k \in 0..n |-> IF k = 0 THEN <<>> ELSE r[k - 1] \o s[k]]
           join == CHOOSE r : Is(r)
           T == {k \in 0..n : join[k] = g[k]}
<1>1. Is(g)
  BY DEF Joins
<1>2. Is(join)
  <2> HIDE DEF Is
  <2> QED BY <1>1
<1>3. join[0] = <<>> /\ \A k \in 1..n : join[k] = join[k - 1] \o s[k]
  <2> HIDE DEF join
  <2>1. join = [k \in 0..n |-> IF k = 0 THEN <<>> ELSE join[k - 1] \o s[k]]
    BY <1>2
  <2>2. 0 \in 0..n /\ \A k \in 1..n : k \in 0..n /\ k # 0
    OBVIOUS
  <2> HIDE DEF Is
  <2> QED BY <2>1, <2>2
<1>4. Joined(s, n) = join[n]
  BY DEF Joined
<1> HIDE DEF join
<1>5. 0 \in T
  BY <1>3 DEF Joins
<1>6. ASSUME NEW k \in 1..n, k - 1 \in T PROVE k \in T
  <2>1. join[k] = join[k - 1] \o s[k]
    BY <1>3
  <2>2. g[k] = g[k - 1] \o s[k]
    BY DEF Joins
  <2>3. join[k - 1] = g[k - 1]
    BY <1>6
  <2>4. join[k] = g[k] /\ k \in 0..n
    BY <2>1, <2>2, <2>3
  <2> QED BY <2>4
<1>7. n \in T
  <2> HIDE DEF T
  <2>1. 0..n \subseteq T
    BY <1>5, <1>6, IntervalInduction
  <2> QED BY <2>1
<1> QED BY <1>4, <1>7

(* They are built up one by one. *)
LEMMA JoinedSteps ==
  ASSUME NEW N \in Nat, NEW E, NEW s, \A k \in 1..N : s[k] \in Seq(E)
  PROVE  /\ Joined(s, 0) = <<>>
         /\ \A n \in 0..N : Joined(s, n) \in Seq(E)
         /\ \A n \in 1..N : Joined(s, n) = Joined(s, n - 1) \o s[n]
<1>1. PICK g : Joins(g, s, N, E)
  BY JoinedExists
<1>2. ASSUME NEW n \in 0..N PROVE Joined(s, n) = g[n]
  <2> DEFINE h == [k \in 0..n |-> g[k]]
  <2>1. /\ n \in Nat
        /\ \A k \in 0..n : k \in 0..N
        /\ \A k \in 1..n : k \in 1..N /\ k - 1 \in 0..n /\ k \in 0..n
    OBVIOUS
  <2>2. Joins(h, s, n, E)
    <3>1. h \in [0..n -> Seq(E)]
      BY <1>1, <2>1 DEF Joins
    <3>2. h[0] = <<>>
      BY <1>1, <2>1 DEF Joins
    <3>3. ASSUME NEW k \in 1..n PROVE h[k] = h[k - 1] \o s[k]
      <4>1. h[k] = g[k] /\ h[k - 1] = g[k - 1]
        BY <2>1
      <4>2. g[k] = g[k - 1] \o s[k]
        BY <1>1, <2>1 DEF Joins
      <4> HIDE DEF h
      <4> QED BY <4>1, <4>2
    <3> HIDE DEF h
    <3> QED BY <3>1, <3>2, <3>3 DEF Joins
  <2>3. h[n] = g[n]
    BY <2>1
  <2> HIDE DEF h
  <2> QED BY <2>1, <2>2, <2>3, JoinedIs
<1>3. 0 \in 0..N /\ \A n \in 1..N : n \in 0..N /\ n - 1 \in 0..N
  OBVIOUS
<1> QED BY <1>1, <1>2, <1>3 DEF Joins

(* FlattenSeq joins all of them. *)
LEMMA FlattenIsJoined ==
  ASSUME NEW E, NEW s, IsList(s), \A k \in 1..Len(s) : s[k] \in Seq(E)
  PROVE  FlattenSeq(s) = Joined(s, Len(s))
<1> DEFINE N == Len(s)
<1>1. N \in Nat
  BY DEF IsList
<1>2. CASE N = 0
  <2>1. s = <<>>
    BY <1>2 DEF IsList
  <2>2. FlattenSeq(s) = s
    BY <1>2 DEF FlattenSeq
  <2>3. Joined(s, 0) = <<>>
    BY <1>1, JoinedSteps
  <2> QED BY <1>2, <2>1, <2>2, <2>3
<1>3. CASE N # 0
  <2> DEFINE Is(r) == r = [k \in 1..N |-> IF k = 1 THEN s[k] ELSE r[k - 1] \o s[k]]
             flatten == CHOOSE r : Is(r)
             g == [k \in 1..N |-> Joined(s, k)]
             T == {k \in 0..N : k = 0 \/ flatten[k] = Joined(s, k)}
  <2>1. /\ Joined(s, 0) = <<>>
        /\ \A k \in 0..N : Joined(s, k) \in Seq(E)
        /\ \A k \in 1..N : Joined(s, k) = Joined(s, k - 1) \o s[k]
    BY <1>1, JoinedSteps
  <2>2. 1 \in 1..N /\ s[1] \in Seq(E) /\ Joined(s, 1) = s[1]
    <3>1. 1 \in 1..N /\ s[1] \in Seq(E)
      BY <1>1, <1>3
    <3>2. Joined(s, 1) = Joined(s, 0) \o s[1]
      <4>1. 1 - 1 = 0
        OBVIOUS
      <4> HIDE DEF N
      <4> QED BY <2>1, <3>1, <4>1
    <3> QED BY <2>1, <3>1, <3>2, ConcatEmptySeq
  <2>3. Is(g)
    <3> SUFFICES ASSUME NEW k \in 1..N
                 PROVE  Joined(s, k) = IF k = 1 THEN s[k] ELSE g[k - 1] \o s[k]
      OBVIOUS
    <3>1. CASE k = 1
      BY <2>2, <3>1
    <3>2. CASE k # 1
      <4>1. k - 1 \in 1..N
        BY <1>1, <3>2
      <4>2. g[k - 1] = Joined(s, k - 1)
        BY <4>1
      <4> HIDE DEF g
      <4> QED BY <2>1, <3>2, <4>2
    <3> QED BY <3>1, <3>2
  <2>4. Is(flatten)
    <3> HIDE DEF Is, g
    <3> QED BY <2>3
  <2>5. \A k \in 1..N : flatten[k] = IF k = 1 THEN s[k] ELSE flatten[k - 1] \o s[k]
    <3> HIDE DEF flatten
    <3>1. flatten = [k \in 1..N |-> IF k = 1 THEN s[k] ELSE flatten[k - 1] \o s[k]]
      BY <2>4
    <3> HIDE DEF Is
    <3> QED BY <3>1
  <2>6. FlattenSeq(s) = flatten[N]
    BY <1>3 DEF FlattenSeq
  <2> HIDE DEF flatten
  <2>7. \A k \in 1..N : k - 1 \in T => k \in T
    <3> SUFFICES ASSUME NEW k \in 1..N, k - 1 \in T PROVE flatten[k] = Joined(s, k)
      BY <1>1
    <3>1. CASE k = 1
      BY <2>2, <2>5, <3>1
    <3>2. CASE k # 1
      <4>1. flatten[k - 1] = Joined(s, k - 1)
        BY <1>1, <3>2
      <4> QED BY <2>1, <2>5, <3>2, <4>1
    <3> QED BY <3>1, <3>2
  <2>8. 0 \in T
    BY <1>1
  <2>9. N \in T
    <3> HIDE DEF T
    <3>1. 0..N \subseteq T
      BY <1>1, <2>7, <2>8, IntervalInduction
    <3> QED BY <1>1, <3>1
  <2> QED BY <1>3, <2>6, <2>9
<1> QED BY <1>2, <1>3

-----------------------------------------------------------------------------
(* Beginnings.                                                              *)

(* w begins with a. *)
Begins(a, w, E) == a \in Seq(E) /\ w \in Seq(E) /\ \E r \in Seq(E) : w = a \o r

(* Joining sequences is associative. *)
Typed(a, E) == a \in Seq(E)
LEMMA Associative ==
  \A E, a, b, c : Typed(a, E) /\ Typed(b, E) /\ Typed(c, E) => (a \o b) \o c = a \o (b \o c)
BY ConcatAssociative DEF Typed

(* A sequence begins with its first part and with itself. *)
LEMMA BeginsSame ==
  ASSUME NEW E, NEW a \in Seq(E), NEW r \in Seq(E)
  PROVE  Begins(a, a \o r, E) /\ Begins(a, a, E)
<1>1. a \o r \in Seq(E) /\ a = a \o <<>> /\ <<>> \in Seq(E)
  BY ConcatProperties, ConcatEmptySeq
<1> QED BY <1>1 DEF Begins

(* What begins a beginning begins the whole. *)
LEMMA BeginsTwice ==
  ASSUME NEW E, NEW a, NEW b, NEW c, Begins(a, b, E), Begins(b, c, E)
  PROVE  Begins(a, c, E)
<1>1. PICK r \in Seq(E) : b = a \o r
  BY DEF Begins
<1>2. PICK q \in Seq(E) : c = b \o q
  BY DEF Begins
<1>3. a \in Seq(E) /\ c \in Seq(E)
  BY DEF Begins
<1>4. c = a \o (r \o q) /\ r \o q \in Seq(E)
  <2>1. (a \o r) \o q = a \o (r \o q)
    <3>1. Typed(a, E) /\ Typed(r, E) /\ Typed(q, E)
      BY <1>3 DEF Typed
    <3> QED BY SMTT(30), <3>1, Associative
  <2>2. r \o q \in Seq(E)
    BY ConcatProperties
  <2> QED BY <1>1, <1>2, <2>1, <2>2
<1> QED BY <1>3, <1>4 DEF Begins

(* A beginning stays one behind the same items. *)
LEMMA BeginsBehind ==
  ASSUME NEW E, NEW x \in Seq(E), NEW a, NEW b, Begins(a, b, E)
  PROVE  Begins(x \o a, x \o b, E)
<1>1. PICK r \in Seq(E) : b = a \o r
  BY DEF Begins
<1>2. a \in Seq(E) /\ b \in Seq(E)
  BY DEF Begins
<1>3. (x \o a) \o r = x \o (a \o r)
  <2>1. Typed(x, E) /\ Typed(a, E) /\ Typed(r, E)
    BY <1>1, <1>2 DEF Typed
  <2> QED BY SMTT(30), <2>1, Associative
<1>4. x \o b = (x \o a) \o r
  BY <1>1, <1>3
<1>5. x \o a \in Seq(E) /\ x \o b \in Seq(E)
  BY <1>2, ConcatProperties
<1> QED BY <1>1, <1>4, <1>5 DEF Begins

(* What begins a sequence is in its first places. *)
LEMMA BeginsItems ==
  ASSUME NEW E, NEW a, NEW w, Begins(a, w, E)
  PROVE  /\ Len(a) \in Nat /\ Len(w) \in Nat /\ Len(a) <= Len(w)
         /\ \A k \in 1..Len(a) : w[k] = a[k]
         /\ SubSeq(w, 1, Len(a)) = a
<1>1. PICK r \in Seq(E) : w = a \o r
  BY DEF Begins
<1>2. a \in Seq(E) /\ w \in Seq(E) /\ Len(a) \in Nat /\ Len(r) \in Nat
  BY DEF Begins
<1>3. /\ Len(w) = Len(a) + Len(r)
      /\ \A k \in 1..Len(a) + Len(r) : w[k] = IF k <= Len(a) THEN a[k] ELSE r[k - Len(a)]
  BY <1>1, <1>2, ConcatProperties
<1>4. \A k \in 1..Len(a) : w[k] = a[k]
  BY <1>2, <1>3
<1>5. SubSeq(w, 1, Len(a)) = a
  <2>1. \A k \in 1..Len(a) : w[k] \in E
    BY <1>2, <1>4
  <2>2. /\ SubSeq(w, 1, Len(a)) \in Seq(E)
        /\ Len(SubSeq(w, 1, Len(a))) = Len(a)
        /\ \A k \in 1..Len(a) : SubSeq(w, 1, Len(a))[k] = w[k]
    BY <1>2, <2>1
  <2> QED BY <1>2, <1>4, <2>2, SeqEqual
<1> QED BY <1>2, <1>3, <1>4, <1>5

(* The first sequences that are joined begin what all of them are. *)
LEMMA JoinedBegins ==
  ASSUME NEW N \in Nat, NEW E, NEW s, \A k \in 1..N : s[k] \in Seq(E), NEW m \in 0..N
  PROVE  Begins(Joined(s, m), Joined(s, N), E)
<1> DEFINE M == N - m
           T == {k \in 0..M : Begins(Joined(s, m), Joined(s, m + k), E)}
<1>1. /\ \A n \in 0..N : Joined(s, n) \in Seq(E)
      /\ \A n \in 1..N : Joined(s, n) = Joined(s, n - 1) \o s[n]
  BY JoinedSteps
<1>2. M \in Nat /\ m + M = N /\ m + 0 = m /\ 0 \in 0..M
  OBVIOUS
<1>3. 0 \in T
  <2>1. Begins(Joined(s, m), Joined(s, m), E)
    <3>1. Joined(s, m) \in Seq(E) /\ <<>> \in Seq(E)
      BY <1>1
    <3> QED BY <3>1, BeginsSame
  <2> QED BY <1>2, <2>1
<1>4. ASSUME NEW k \in 1..M, k - 1 \in T PROVE k \in T
  <2>1. m + k \in 1..N /\ (m + k) - 1 = m + (k - 1) /\ m + (k - 1) \in 0..N
    OBVIOUS
  <2>2. Joined(s, m + k) = Joined(s, m + (k - 1)) \o s[m + k]
    BY <1>1, <2>1
  <2>3. Joined(s, m + (k - 1)) \in Seq(E) /\ s[m + k] \in Seq(E)
    BY <1>1, <2>1
  <2>4. Begins(Joined(s, m + (k - 1)), Joined(s, m + k), E)
    BY <2>2, <2>3, BeginsSame
  <2>5. Begins(Joined(s, m), Joined(s, m + (k - 1)), E)
    BY <1>4
  <2>6. Begins(Joined(s, m), Joined(s, m + k), E)
    BY <2>4, <2>5, BeginsTwice
  <2> QED BY <2>6
<1>5. M \in T
  <2> HIDE DEF T, M
  <2>1. 0..M \subseteq T
    BY <1>2, <1>3, <1>4, IntervalInduction
  <2> QED BY <1>2, <2>1
<1> QED BY <1>2, <1>5

(* The first n values of a list, those that follow, and a list behind a. *)
Firsts(f, n) == [k \in 1..n |-> f[k]]
Others(f, n, N) == [k \in 1..(N - n) |-> f[n + k]]
Divided(f, n, N, E) ==
    /\ Firsts(f, n) \in Seq(E) /\ Len(Firsts(f, n)) = n
    /\ Others(f, n, N) \in Seq(E)
    /\ Firsts(f, N) = Firsts(f, n) \o Others(f, n, N)
ListTurns(a, f, N, E) ==
    /\ a \o Firsts(f, 0) = a
    /\ \A n \in 0..N : /\ a \o Firsts(f, n) \in Seq(E)
                       /\ Begins(a \o Firsts(f, n), a \o Firsts(f, N), E)
    /\ \A n \in 1..N : a \o Firsts(f, n) = (a \o Firsts(f, n - 1)) \o <<f[n]>>

(* A list divides into its first n values and the others. *)
LEMMA FirstsDivided ==
  ASSUME NEW E, NEW N \in Nat, NEW f, \A k \in 1..N : f[k] \in E, NEW n \in 0..N
  PROVE  Divided(f, n, N, E)
<1> DEFINE M == N - n
           from == [k \in 1..n |-> f[k]]
           to   == [k \in 1..N |-> f[k]]
           rest == [k \in 1..M |-> f[n + k]]
<1>1. /\ M \in Nat /\ n \in Nat /\ n + M = N
      /\ \A k \in 1..n : k \in 1..N
      /\ \A k \in 1..M : n + k \in 1..N
  OBVIOUS
<1> HIDE DEF M
<1>2. /\ from \in Seq(E) /\ Len(from) = n
      /\ to \in Seq(E) /\ Len(to) = N
      /\ rest \in Seq(E) /\ Len(rest) = M
  BY <1>1
<1>3. /\ \A k \in 1..n : from[k] = f[k]
      /\ \A k \in 1..N : to[k] = f[k]
      /\ \A k \in 1..M : rest[k] = f[n + k]
  OBVIOUS
<1> HIDE DEF from, to, rest
<1>4. /\ from \o rest \in Seq(E) /\ Len(from \o rest) = N
      /\ \A k \in 1..N : (from \o rest)[k] = IF k <= n THEN from[k] ELSE rest[k - n]
  <2>1. /\ from \o rest \in Seq(E) /\ Len(from \o rest) = Len(from) + Len(rest)
        /\ \A k \in 1..Len(from) + Len(rest) :
              (from \o rest)[k] = IF k <= Len(from) THEN from[k] ELSE rest[k - Len(from)]
    BY <1>2, ConcatProperties
  <2> QED BY <1>1, <1>2, <2>1
<1>5. ASSUME NEW k \in 1..N PROVE to[k] = (from \o rest)[k]
  <2>1. CASE k <= n
    <3>1. k \in 1..n
      BY <1>1, <2>1
    <3> QED BY <1>3, <1>4, <2>1, <3>1
  <2>2. CASE ~(k <= n)
    <3>1. k - n \in 1..M /\ n + (k - n) = k
      BY <1>1, <2>2
    <3> QED BY <1>3, <1>4, <2>2, <3>1
  <2> QED BY <2>1, <2>2
<1>6. to = from \o rest
  BY <1>2, <1>4, <1>5, SeqEqual
<1> QED BY <1>2, <1>6 DEF Divided, Firsts, Others, from, to, rest, M

(* The turns of a loop write a list behind what was there. *)
LEMMA ListWritten ==
  ASSUME NEW E, NEW N \in Nat, NEW f, \A k \in 1..N : f[k] \in E, NEW a \in Seq(E)
  PROVE  ListTurns(a, f, N, E)
<1>1. ASSUME NEW n \in 0..N
      PROVE  /\ a \o Firsts(f, n) \in Seq(E)
             /\ Begins(a \o Firsts(f, n), a \o Firsts(f, N), E)
  <2> DEFINE rest == Others(f, n, N)
  <2>1. Firsts(f, n) \in Seq(E) /\ rest \in Seq(E) /\ Firsts(f, N) = Firsts(f, n) \o rest
    BY FirstsDivided DEF Divided
  <2> HIDE DEF rest
  <2>2. Begins(Firsts(f, n), Firsts(f, N), E)
    BY <2>1, BeginsSame
  <2> QED BY <2>1, <2>2, BeginsBehind, ConcatProperties
<1>2. a \o Firsts(f, 0) = a
  <2>1. Firsts(f, 0) \in Seq(E) /\ Len(Firsts(f, 0)) = 0
    BY FirstsDivided DEF Divided
  <2>2. Firsts(f, 0) = <<>>
    BY <2>1, EmptySeq
  <2> QED BY <2>2, ConcatEmptySeq
<1>3. ASSUME NEW n \in 1..N
      PROVE  a \o Firsts(f, n) = (a \o Firsts(f, n - 1)) \o <<f[n]>>
  <2> DEFINE m == n - 1
             rest == Others(f, m, n)
  <2>1. n \in Nat /\ m \in 0..n /\ n - m = 1 /\ m + 1 = n /\ \A k \in 1..n : f[k] \in E
    OBVIOUS
  <2>2. /\ Firsts(f, m) \in Seq(E)
        /\ rest \in Seq(E)
        /\ Firsts(f, n) = Firsts(f, m) \o rest
    <3> HIDE DEF m
    <3> QED BY <2>1, FirstsDivided DEF Divided
  <2>3. rest = <<f[n]>>
    <3>1. rest = [k \in 1..1 |-> f[m + k]]
      BY <2>1 DEF Others
    <3>2. \A k \in 1..1 : m + k = n
      BY <2>1
    <3>3. [k \in 1..1 |-> f[m + k]] = [k \in 1..1 |-> f[n]]
      BY <3>2
    <3> QED BY <3>1, <3>3
  <2> HIDE DEF rest, m
  <2>4. (a \o Firsts(f, m)) \o rest = a \o (Firsts(f, m) \o rest)
    <3>1. Typed(a, E) /\ Typed(Firsts(f, m), E) /\ Typed(rest, E)
      BY <2>2 DEF Typed
    <3> QED BY SMTT(30), <3>1, Associative
  <2> QED BY <2>2, <2>3, <2>4 DEF m
<1> QED BY <1>1, <1>2, <1>3 DEF ListTurns

-----------------------------------------------------------------------------
(* The file of a ledger.                                                    *)

(* What a save of a ledger of Ledgers writes. *)
TransactionSet(x) ==
    {TransactionItems(x)[k] : k \in 1..3}
      \cup {InputItem(x.inputs[n]) : n \in 1..Len(x.inputs)}
      \cup {OutputItem(x.outputs[n]) : n \in 1..Len(x.outputs)}
BlockSet(b) ==
    {BlockItems(b)[k] : k \in 1..5}
      \cup (UNION {TransactionSet(b.transactions[n]) : n \in 1..Len(b.transactions)})
LedgerSet(ledger) ==
    {HeaderItem(ledger)}
      \cup (UNION {BlockSet(ledger.chain[n]) : n \in 1..Len(ledger.chain)})
      \cup {UnspentItem(ledger.unspent[n]) : n \in 1..Len(ledger.unspent)}
Item == UNION {LedgerSet(ledger) : ledger \in Ledgers}

(* The file as far as a number of blocks, of transactions of a block, of    *)
(* inputs or outputs of a transaction, or of unspent outputs.               *)
InputsDone(x, n) == Firsts([k \in 1..Len(x.inputs) |-> InputItem(x.inputs[k])], n)
OutputsDone(x, n) == Firsts([k \in 1..Len(x.outputs) |-> OutputItem(x.outputs[k])], n)
UnspentDone(ledger, n) ==
    Firsts([k \in 1..Len(ledger.unspent) |-> UnspentItem(ledger.unspent[k])], n)
TransactionsDone(b, n) ==
    Joined([k \in 1..Len(b.transactions) |-> WholeTransaction(b.transactions[k])], n)
BlocksDone(ledger, n) ==
    Joined([k \in 1..Len(ledger.chain) |-> WholeBlock(ledger.chain[k])], n)

AfterBlocks(ledger, b) == <<HeaderItem(ledger)>> \o BlocksDone(ledger, b)
AfterTransactions(ledger, b, n) ==
    (AfterBlocks(ledger, b - 1) \o BlockItems(ledger.chain[b]))
      \o TransactionsDone(ledger.chain[b], n)
AfterInputs(ledger, b, x, n) ==
    (AfterTransactions(ledger, b, x - 1)
       \o TransactionItems(ledger.chain[b].transactions[x]))
      \o InputsDone(ledger.chain[b].transactions[x], n)
AfterOutputs(ledger, b, x, n) ==
    AfterInputs(ledger, b, x, Len(ledger.chain[b].transactions[x].inputs))
      \o OutputsDone(ledger.chain[b].transactions[x], n)
AfterUnspent(ledger, n) ==
    AfterBlocks(ledger, Len(ledger.chain)) \o UnspentDone(ledger, n)

(* The items of one structure. *)
LEMMA ItemsTyped ==
  ASSUME NEW ledger \in Ledgers
  PROVE  /\ HeaderItem(ledger) \in Item
         /\ \A n \in 1..Len(ledger.unspent) : UnspentItem(ledger.unspent[n]) \in Item
         /\ \A b \in 1..Len(ledger.chain) :
               /\ BlockItems(ledger.chain[b]) \in Seq(Item)
               /\ \A x \in 1..Len(ledger.chain[b].transactions) :
                     LET y == ledger.chain[b].transactions[x]
                     IN  /\ TransactionItems(y) \in Seq(Item)
                         /\ \A n \in 1..Len(y.inputs) : InputItem(y.inputs[n]) \in Item
                         /\ \A n \in 1..Len(y.outputs) : OutputItem(y.outputs[n]) \in Item
<1>1. LedgerSet(ledger) \subseteq Item
  BY DEF Item
<1>2. /\ HeaderItem(ledger) \in LedgerSet(ledger)
      /\ \A n \in 1..Len(ledger.unspent) : UnspentItem(ledger.unspent[n]) \in LedgerSet(ledger)
      /\ \A b \in 1..Len(ledger.chain) : BlockSet(ledger.chain[b]) \subseteq LedgerSet(ledger)
  <2>1. HeaderItem(ledger) \in LedgerSet(ledger)
    BY DEF LedgerSet
  <2>2. \A n \in 1..Len(ledger.unspent) : UnspentItem(ledger.unspent[n]) \in LedgerSet(ledger)
    BY DEF LedgerSet
  <2>3. \A b \in 1..Len(ledger.chain) : BlockSet(ledger.chain[b]) \subseteq LedgerSet(ledger)
    BY DEF LedgerSet
  <2> QED BY <2>1, <2>2, <2>3
<1>3. ASSUME NEW b \in 1..Len(ledger.chain)
      PROVE  /\ BlockItems(ledger.chain[b]) \in Seq(Item)
             /\ \A x \in 1..Len(ledger.chain[b].transactions) :
                     LET y == ledger.chain[b].transactions[x]
                     IN  /\ TransactionItems(y) \in Seq(Item)
                         /\ \A n \in 1..Len(y.inputs) : InputItem(y.inputs[n]) \in Item
                         /\ \A n \in 1..Len(y.outputs) : OutputItem(y.outputs[n]) \in Item
  <2> DEFINE B == ledger.chain[b]
  <2>1. BlockSet(B) \subseteq Item
    BY <1>1, <1>2
  <2> HIDE DEF B
  <2>2. /\ \A k \in 1..5 : BlockItems(B)[k] \in BlockSet(B)
        /\ \A x \in 1..Len(B.transactions) : TransactionSet(B.transactions[x]) \subseteq BlockSet(B)
    BY DEF BlockSet
  <2>3. BlockItems(B) \in Seq(Item)
    <3> DEFINE a == <<"info", B.info>>
               c == <<"data_len", B.data_len>>
               d == <<"data", B.data>>
               e == <<"hash", B.hash>>
               f == <<"tx_size", TxSize(B)>>
    <3>1. BlockItems(B) = <<a, c, d, e, f>>
      BY DEF BlockItems
    <3> HIDE DEF a, c, d, e, f
    <3>2. 1 \in 1..5 /\ 2 \in 1..5 /\ 3 \in 1..5 /\ 4 \in 1..5 /\ 5 \in 1..5
      OBVIOUS
    <3>3. \A k \in 1..5 : <<a, c, d, e, f>>[k] \in Item
      BY <2>1, <2>2, <3>1
    <3>4. a \in Item /\ c \in Item /\ d \in Item /\ e \in Item /\ f \in Item
      BY <3>2, <3>3
    <3> QED BY <3>1, <3>4
  <2>4. ASSUME NEW x \in 1..Len(B.transactions), NEW y, y = B.transactions[x]
        PROVE  /\ TransactionItems(y) \in Seq(Item)
               /\ \A n \in 1..Len(y.inputs) : InputItem(y.inputs[n]) \in Item
               /\ \A n \in 1..Len(y.outputs) : OutputItem(y.outputs[n]) \in Item
    <3>1. TransactionSet(y) \subseteq Item
      BY <2>1, <2>2, <2>4
    <3>2. /\ \A k \in 1..3 : TransactionItems(y)[k] \in Item
          /\ \A n \in 1..Len(y.inputs) : InputItem(y.inputs[n]) \in Item
          /\ \A n \in 1..Len(y.outputs) : OutputItem(y.outputs[n]) \in Item
      BY <3>1 DEF TransactionSet
    <3>3. TransactionItems(y) \in Seq(Item)
      <4> DEFINE a == <<"id", y.id>>
                 c == <<"tx_in", Len(y.inputs)>>
                 d == <<"tx_out", Len(y.outputs)>>
      <4>1. TransactionItems(y) = <<a, c, d>>
        BY DEF TransactionItems
      <4> HIDE DEF a, c, d
      <4>2. 1 \in 1..3 /\ 2 \in 1..3 /\ 3 \in 1..3
        OBVIOUS
      <4>3. \A k \in 1..3 : <<a, c, d>>[k] \in Item
        BY <3>2, <4>1
      <4>4. a \in Item /\ c \in Item /\ d \in Item
        BY <4>2, <4>3
      <4> QED BY <4>1, <4>4
    <3> QED BY <3>2, <3>3
  <2> QED BY <2>3, <2>4 DEF B
<1> QED BY <1>1, <1>2, <1>3

(* The parts of the file of a block are sequences of items. *)
WholeTyped(b) ==
    /\ \A n \in 1..Len(b.transactions) : WholeTransaction(b.transactions[n]) \in Seq(Item)
    /\ \A n \in 0..Len(b.transactions) : TransactionsDone(b, n) \in Seq(Item)
    /\ TransactionsDone(b, 0) = <<>>
    /\ \A n \in 1..Len(b.transactions) :
          TransactionsDone(b, n) = TransactionsDone(b, n - 1) \o WholeTransaction(b.transactions[n])
    /\ \A n \in 0..Len(b.transactions) :
          Begins(TransactionsDone(b, n), TransactionsDone(b, Len(b.transactions)), Item)
    /\ WholeBlock(b) = BlockItems(b) \o TransactionsDone(b, Len(b.transactions))
    /\ WholeBlock(b) \in Seq(Item)

(* A whole block is its five items and its transactions, all items of the file. *)
LEMMA BlockWhole ==
  ASSUME NEW ledger \in Ledgers, NEW b \in 1..Len(ledger.chain)
  PROVE  WholeTyped(ledger.chain[b])
<1> DEFINE B == ledger.chain[b]
           N == Len(B.transactions)
           s == [k \in 1..N |-> WholeTransaction(B.transactions[k])]
<1>1. /\ IsBlock(B) /\ N \in Nat
      /\ \A n \in 1..N : IsTransaction(B.transactions[n])
  BY PersistenceAssumption DEF IsLedger, IsBlock, IsList
<1>2. /\ BlockItems(B) \in Seq(Item)
      /\ \A x \in 1..N :
            LET y == B.transactions[x]
            IN  /\ TransactionItems(y) \in Seq(Item)
                /\ \A n \in 1..Len(y.inputs) : InputItem(y.inputs[n]) \in Item
                /\ \A n \in 1..Len(y.outputs) : OutputItem(y.outputs[n]) \in Item
  BY ItemsTyped
<1> HIDE DEF B
<1>3. ASSUME NEW x \in 1..N PROVE WholeTransaction(B.transactions[x]) \in Seq(Item)
  <2> DEFINE y == B.transactions[x]
             ins == [n \in 1..Len(y.inputs) |-> InputItem(y.inputs[n])]
             outs == [n \in 1..Len(y.outputs) |-> OutputItem(y.outputs[n])]
  <2>1. Len(y.inputs) \in Nat /\ Len(y.outputs) \in Nat
    BY <1>1 DEF IsTransaction, IsList
  <2>2. ins \in Seq(Item)
    BY <1>2, <2>1
  <2>3. outs \in Seq(Item)
    BY <1>2, <2>1
  <2>4. TransactionItems(y) \in Seq(Item)
    BY <1>2
  <2>5. WholeTransaction(y) = (TransactionItems(y) \o ins) \o outs
    BY DEF WholeTransaction, EachItem
  <2> HIDE DEF ins, outs, y
  <2>6. TransactionItems(y) \o ins \in Seq(Item)
    BY <2>2, <2>4, ConcatProperties
  <2>7. (TransactionItems(y) \o ins) \o outs \in Seq(Item)
    BY <2>3, <2>6, ConcatProperties
  <2> QED BY <2>5, <2>7 DEF y
<1>4. IsList(s) /\ Len(s) = N /\ \A k \in 1..N : s[k] \in Seq(Item) /\ s[k] = WholeTransaction(B.transactions[k])
  BY <1>1, <1>3 DEF IsList
<1>5. \A n : TransactionsDone(B, n) = Joined(s, n)
  BY DEF TransactionsDone
<1>6. WholeBlock(B) = BlockItems(B) \o FlattenSeq(s)
  BY DEF WholeBlock, Concat, EachItem
<1> HIDE DEF s, N
<1>7. /\ Joined(s, 0) = <<>>
      /\ \A n \in 0..N : Joined(s, n) \in Seq(Item)
      /\ \A n \in 1..N : Joined(s, n) = Joined(s, n - 1) \o s[n]
  BY <1>1, <1>4, JoinedSteps DEF N
<1>8. FlattenSeq(s) = Joined(s, N)
  BY <1>4, FlattenIsJoined
<1>9. \A n \in 0..N : Begins(Joined(s, n), Joined(s, N), Item)
  BY <1>1, <1>4, JoinedBegins DEF N
<1>10. BlockItems(B) \o Joined(s, N) \in Seq(Item)
  <2>1. Joined(s, N) \in Seq(Item)
    BY <1>1, <1>7 DEF N
  <2> QED BY <1>2, <2>1, ConcatProperties
<1>11. WholeTyped(B)
  BY <1>3, <1>4, <1>5, <1>6, <1>7, <1>8, <1>9, <1>10 DEF WholeTyped, N
<1> QED BY <1>11 DEF B

(* So are those of the file of a ledger. *)
LedgerTyped(ledger) ==
    /\ \A n \in 0..Len(ledger.chain) : AfterBlocks(ledger, n) \in Seq(Item)
    /\ AfterBlocks(ledger, 0) = <<HeaderItem(ledger)>>
    /\ \A n \in 1..Len(ledger.chain) :
          AfterBlocks(ledger, n) = AfterBlocks(ledger, n - 1) \o WholeBlock(ledger.chain[n])
    /\ \A n \in 0..Len(ledger.chain) :
          Begins(AfterBlocks(ledger, n), AfterBlocks(ledger, Len(ledger.chain)), Item)
    /\ WholeFile(ledger) = AfterUnspent(ledger, Len(ledger.unspent))

(* A whole file is the header, the blocks and the unspent outputs. *)
LEMMA LedgerWhole ==
  ASSUME NEW ledger \in Ledgers
  PROVE  LedgerTyped(ledger)
<1> DEFINE N == Len(ledger.chain)
           s == [k \in 1..N |-> WholeBlock(ledger.chain[k])]
           h == <<HeaderItem(ledger)>>
<1>1. N \in Nat
  BY PersistenceAssumption DEF IsLedger, IsList
<1>2. h \in Seq(Item)
  BY ItemsTyped
<1>3. \A k \in 1..N : WholeBlock(ledger.chain[k]) \in Seq(Item)
  BY BlockWhole DEF WholeTyped
<1>4. IsList(s) /\ Len(s) = N /\ \A k \in 1..N : s[k] \in Seq(Item) /\ s[k] = WholeBlock(ledger.chain[k])
  BY <1>1, <1>3 DEF IsList
<1>5. \A n : AfterBlocks(ledger, n) = h \o Joined(s, n)
  BY DEF AfterBlocks, BlocksDone
<1>6. WholeFile(ledger)
        = (h \o FlattenSeq(s)) \o [k \in 1..Len(ledger.unspent) |-> UnspentItem(ledger.unspent[k])]
  BY DEF WholeFile, Concat, EachItem
<1> HIDE DEF s, N, h
<1>7. /\ Joined(s, 0) = <<>>
      /\ \A n \in 0..N : Joined(s, n) \in Seq(Item)
      /\ \A n \in 1..N : Joined(s, n) = Joined(s, n - 1) \o s[n]
  BY <1>1, <1>4, JoinedSteps
<1>8. FlattenSeq(s) = Joined(s, N)
  BY <1>4, FlattenIsJoined
<1>9. \A n \in 0..N : Begins(Joined(s, n), Joined(s, N), Item)
  BY <1>1, <1>4, JoinedBegins
<1>10. ASSUME NEW n \in 0..N
       PROVE  /\ AfterBlocks(ledger, n) \in Seq(Item)
              /\ Begins(AfterBlocks(ledger, n), AfterBlocks(ledger, N), Item)
  <2>1. Joined(s, n) \in Seq(Item) /\ Begins(Joined(s, n), Joined(s, N), Item)
    BY <1>7, <1>9
  <2>2. h \o Joined(s, n) \in Seq(Item) /\ Begins(h \o Joined(s, n), h \o Joined(s, N), Item)
    BY <1>2, <2>1, BeginsBehind, ConcatProperties
  <2>3. /\ AfterBlocks(ledger, n) = h \o Joined(s, n)
        /\ AfterBlocks(ledger, N) = h \o Joined(s, N)
    BY <1>5
  <2> QED BY <2>2, <2>3
<1>11. AfterBlocks(ledger, 0) = h
  BY <1>2, <1>5, <1>7, ConcatEmptySeq
<1>12. ASSUME NEW n \in 1..N
       PROVE  AfterBlocks(ledger, n) = AfterBlocks(ledger, n - 1) \o WholeBlock(ledger.chain[n])
  <2>1. n - 1 \in 0..N
    BY <1>1
  <2>2. /\ Joined(s, n) = Joined(s, n - 1) \o s[n]
        /\ Joined(s, n - 1) \in Seq(Item) /\ s[n] \in Seq(Item)
        /\ s[n] = WholeBlock(ledger.chain[n])
    BY <1>4, <1>7, <2>1
  <2>3. (h \o Joined(s, n - 1)) \o s[n] = h \o (Joined(s, n - 1) \o s[n])
    <3> DEFINE p == Joined(s, n - 1)
               q == s[n]
    <3>1. Typed(h, Item) /\ Typed(p, Item) /\ Typed(q, Item)
      BY <1>2, <2>2 DEF Typed
    <3> HIDE DEF p, q
    <3>2. (h \o p) \o q = h \o (p \o q)
      BY SMTT(30), <3>1, Associative
    <3> QED BY <3>2 DEF p, q
  <2> QED BY <1>5, <2>2, <2>3
<1>13. WholeFile(ledger) = AfterUnspent(ledger, Len(ledger.unspent))
  <2>1. UnspentDone(ledger, Len(ledger.unspent))
          = [k \in 1..Len(ledger.unspent) |-> UnspentItem(ledger.unspent[k])]
    BY DEF UnspentDone, Firsts
  <2> QED BY <1>5, <1>6, <1>8, <2>1 DEF AfterUnspent, N
<1> QED BY <1>10, <1>11, <1>12, <1>13 DEF LedgerTyped, h, N

(* What a save has written after each turn of a loop, one turn further.     *)
(* These are the turns of the loop over the transactions of a block.        *)
BlockTurns(ledger, b) ==
    /\ AfterTransactions(ledger, b, 0)
         = AfterBlocks(ledger, b - 1) \o BlockItems(ledger.chain[b])
    /\ AfterBlocks(ledger, b)
         = AfterTransactions(ledger, b, Len(ledger.chain[b].transactions))
    /\ \A n \in 0..Len(ledger.chain[b].transactions) :
          /\ AfterTransactions(ledger, b, n) \in Seq(Item)
          /\ Begins(AfterTransactions(ledger, b, n), AfterBlocks(ledger, b), Item)
    /\ \A n \in 1..Len(ledger.chain[b].transactions) :
          AfterTransactions(ledger, b, n)
            = AfterTransactions(ledger, b, n - 1)
                \o WholeTransaction(ledger.chain[b].transactions[n])

(* Each transaction comes behind those before it, and the last ends the block. *)
LEMMA BlockWritten ==
  ASSUME NEW ledger \in Ledgers, NEW b \in 1..Len(ledger.chain)
  PROVE  BlockTurns(ledger, b)
<1> DEFINE B == ledger.chain[b]
           N == Len(B.transactions)
           a == AfterBlocks(ledger, b - 1)
           D(n) == TransactionsDone(B, n)
<1>1. N \in Nat
  BY PersistenceAssumption DEF IsLedger, IsBlock, IsList
<1>2. a \in Seq(Item)
  <2>1. Len(ledger.chain) \in Nat
    BY PersistenceAssumption DEF IsLedger, IsList
  <2>2. b - 1 \in 0..Len(ledger.chain)
    BY <2>1
  <2> QED BY <2>2, LedgerWhole DEF LedgerTyped
<1>3. BlockItems(B) \in Seq(Item)
  BY ItemsTyped
<1>4. /\ \A n \in 1..N : WholeTransaction(B.transactions[n]) \in Seq(Item)
      /\ \A n \in 0..N : D(n) \in Seq(Item)
      /\ D(0) = <<>>
      /\ \A n \in 1..N : D(n) = D(n - 1) \o WholeTransaction(B.transactions[n])
      /\ \A n \in 0..N : Begins(D(n), D(N), Item)
      /\ WholeBlock(B) = BlockItems(B) \o D(N)
  BY BlockWhole DEF WholeTyped
<1>5. AfterBlocks(ledger, b) = a \o WholeBlock(B)
  BY LedgerWhole DEF LedgerTyped
<1>6. \A n : AfterTransactions(ledger, b, n) = (a \o BlockItems(B)) \o D(n)
  BY DEF AfterTransactions
<1> DEFINE c == a \o BlockItems(B)
<1>7. c \in Seq(Item)
  BY <1>2, <1>3, ConcatProperties
<1> HIDE DEF B, N, a, D
<1>8. AfterBlocks(ledger, b) = c \o D(N)
  <2>1. D(N) \in Seq(Item)
    BY <1>1, <1>4
  <2>2. a \o (BlockItems(B) \o D(N)) = (a \o BlockItems(B)) \o D(N)
    <3> DEFINE d == BlockItems(B)
    <3>1. a \in Seq(Item) /\ d \in Seq(Item)
      BY <1>2, <1>3
    <3> HIDE DEF d
    <3>2. (a \o d) \o D(N) = a \o (d \o D(N))
      <4> DEFINE e == D(N)
      <4>1. Typed(a, Item) /\ Typed(d, Item) /\ Typed(e, Item)
        BY <2>1, <3>1 DEF Typed
      <4> HIDE DEF e
      <4>2. (a \o d) \o e = a \o (d \o e)
        BY SMTT(30), <4>1, Associative
      <4> QED BY <4>2 DEF e
    <3> QED BY <3>2 DEF d
  <2> QED BY <1>4, <1>5, <2>2
<1> HIDE DEF c
<1>9. ASSUME NEW n \in 0..N
      PROVE  c \o D(n) \in Seq(Item) /\ Begins(c \o D(n), c \o D(N), Item)
  <2>1. D(n) \in Seq(Item) /\ Begins(D(n), D(N), Item)
    BY <1>4
  <2> QED BY <1>7, <2>1, BeginsBehind, ConcatProperties
<1>10. ASSUME NEW n \in 1..N
       PROVE  c \o D(n) = (c \o D(n - 1)) \o WholeTransaction(B.transactions[n])
  <2>1. n - 1 \in 0..N
    BY <1>1
  <2>2. D(n - 1) \in Seq(Item) /\ WholeTransaction(B.transactions[n]) \in Seq(Item)
    BY <1>4, <2>1
  <2>3. D(n) = D(n - 1) \o WholeTransaction(B.transactions[n])
    BY <1>4
  <2>4. (c \o D(n - 1)) \o WholeTransaction(B.transactions[n])
          = c \o (D(n - 1) \o WholeTransaction(B.transactions[n]))
    <3> DEFINE p == D(n - 1)
               q == WholeTransaction(B.transactions[n])
    <3>1. Typed(c, Item) /\ Typed(p, Item) /\ Typed(q, Item)
      BY <1>7, <2>2 DEF Typed
    <3> HIDE DEF p, q
    <3>2. (c \o p) \o q = c \o (p \o q)
      BY SMTT(30), <3>1, Associative
    <3> QED BY <3>2 DEF p, q
  <2> QED BY <2>3, <2>4
<1>11. c \o D(0) = c
  BY <1>4, <1>7, ConcatEmptySeq
<1>12. \A n : AfterTransactions(ledger, b, n) = c \o D(n)
  BY <1>6 DEF c
<1>13. /\ AfterTransactions(ledger, b, 0) = a \o BlockItems(B)
       /\ AfterBlocks(ledger, b) = AfterTransactions(ledger, b, N)
  BY <1>8, <1>11, <1>12 DEF c
<1>14. \A n \in 0..N : /\ AfterTransactions(ledger, b, n) \in Seq(Item)
                       /\ Begins(AfterTransactions(ledger, b, n), AfterBlocks(ledger, b), Item)
  BY <1>8, <1>9, <1>12
<1>15. \A n \in 1..N : AfterTransactions(ledger, b, n)
                         = AfterTransactions(ledger, b, n - 1) \o WholeTransaction(B.transactions[n])
  BY <1>10, <1>12
<1> QED BY <1>13, <1>14, <1>15 DEF BlockTurns, B, N, a

(* And those of the loops over the inputs and the outputs of a transaction. *)
TransactionTurns(ledger, b, x) ==
    LET y == ledger.chain[b].transactions[x]
    IN  /\ AfterInputs(ledger, b, x, 0)
             = AfterTransactions(ledger, b, x - 1) \o TransactionItems(y)
        /\ \A n \in 0..Len(y.inputs) :
              /\ AfterInputs(ledger, b, x, n) \in Seq(Item)
              /\ Begins(AfterInputs(ledger, b, x, n), AfterTransactions(ledger, b, x), Item)
        /\ \A n \in 1..Len(y.inputs) :
              AfterInputs(ledger, b, x, n)
                = AfterInputs(ledger, b, x, n - 1) \o <<InputItem(y.inputs[n])>>
        /\ AfterOutputs(ledger, b, x, 0) = AfterInputs(ledger, b, x, Len(y.inputs))
        /\ \A n \in 0..Len(y.outputs) :
              /\ AfterOutputs(ledger, b, x, n) \in Seq(Item)
              /\ Begins(AfterOutputs(ledger, b, x, n), AfterTransactions(ledger, b, x), Item)
        /\ \A n \in 1..Len(y.outputs) :
              AfterOutputs(ledger, b, x, n)
                = AfterOutputs(ledger, b, x, n - 1) \o <<OutputItem(y.outputs[n])>>
        /\ AfterTransactions(ledger, b, x) = AfterOutputs(ledger, b, x, Len(y.outputs))

(* Each input and output comes behind those before it; the last ends the       *)
(* transaction.                                                             *)
LEMMA TransactionWritten ==
  ASSUME NEW ledger \in Ledgers, NEW b \in 1..Len(ledger.chain),
         NEW x \in 1..Len(ledger.chain[b].transactions)
  PROVE  TransactionTurns(ledger, b, x)
<1> DEFINE B == ledger.chain[b]
           y == B.transactions[x]
           M == Len(y.inputs)
           N == Len(y.outputs)
           ins == [k \in 1..M |-> InputItem(y.inputs[k])]
           outs == [k \in 1..N |-> OutputItem(y.outputs[k])]
           a == AfterTransactions(ledger, b, x - 1)
           c == a \o TransactionItems(y)
           d == c \o Firsts(ins, M)
<1>1. M \in Nat /\ N \in Nat /\ Len(B.transactions) \in Nat
  BY PersistenceAssumption DEF IsLedger, IsBlock, IsTransaction, IsList
<1>2. /\ TransactionItems(y) \in Seq(Item)
      /\ \A n \in 1..M : InputItem(y.inputs[n]) \in Item
      /\ \A n \in 1..N : OutputItem(y.outputs[n]) \in Item
  BY ItemsTyped
<1>3. /\ a \in Seq(Item)
      /\ AfterTransactions(ledger, b, x) = a \o WholeTransaction(y)
  <2>1. x - 1 \in 0..Len(B.transactions)
    BY <1>1
  <2> QED BY <2>1, BlockWritten DEF BlockTurns
<1>4. /\ \A n \in 1..M : ins[n] = InputItem(y.inputs[n])
      /\ \A n \in 1..N : outs[n] = OutputItem(y.outputs[n])
      /\ Firsts(ins, M) = ins /\ Firsts(outs, N) = outs
  BY DEF Firsts
<1>5. WholeTransaction(y) = (TransactionItems(y) \o ins) \o outs
  BY DEF WholeTransaction, EachItem
<1>6. /\ \A n : AfterInputs(ledger, b, x, n) = c \o Firsts(ins, n)
      /\ \A n : AfterOutputs(ledger, b, x, n) = d \o Firsts(outs, n)
  BY DEF AfterInputs, AfterOutputs, InputsDone, OutputsDone
<1> HIDE DEF B, y, M, N, ins, outs, a
<1>7. c \in Seq(Item)
  BY <1>2, <1>3, ConcatProperties
<1> HIDE DEF c
<1>8. ListTurns(c, ins, M, Item)
  <2>1. \A k \in 1..M : ins[k] \in Item
    BY <1>2, <1>4
  <2> QED BY <1>1, <1>7, <2>1, ListWritten
<1>9. d \in Seq(Item)
  BY <1>1, <1>8 DEF ListTurns
<1> HIDE DEF d
<1>10. ListTurns(d, outs, N, Item)
  <2>1. \A k \in 1..N : outs[k] \in Item
    BY <1>2, <1>4
  <2> QED BY <1>1, <1>9, <2>1, ListWritten
<1>11. AfterTransactions(ledger, b, x) = d \o Firsts(outs, N)
  <2>1. ins \in Seq(Item) /\ outs \in Seq(Item)
    <3>1. Firsts(ins, M) \in Seq(Item) /\ Firsts(outs, N) \in Seq(Item)
      <4>1. /\ \A k \in 1..M : ins[k] \in Item
            /\ \A k \in 1..N : outs[k] \in Item
        BY <1>2, <1>4
      <4>2. Firsts(ins, M) \in Seq(Item)
        BY <1>1, <4>1, FirstsDivided DEF Divided
      <4>3. Firsts(outs, N) \in Seq(Item)
        BY <1>1, <4>1, FirstsDivided DEF Divided
      <4> QED BY <4>2, <4>3
    <3> QED BY <1>4, <3>1
  <2>2. TransactionItems(y) \o ins \in Seq(Item)
    BY <1>2, <2>1, ConcatProperties
  <2>3. (a \o (TransactionItems(y) \o ins)) \o outs = a \o ((TransactionItems(y) \o ins) \o outs)
    <3> DEFINE z == TransactionItems(y) \o ins
    <3>1. a \in Seq(Item) /\ z \in Seq(Item) /\ outs \in Seq(Item)
      BY <1>3, <2>1, <2>2
    <3> HIDE DEF z
    <3>2. (a \o z) \o outs = a \o (z \o outs)
      <4>1. Typed(a, Item) /\ Typed(z, Item) /\ Typed(outs, Item)
        BY <3>1 DEF Typed
      <4> QED BY SMTT(30), <4>1, Associative
    <3> QED BY <3>2 DEF z
  <2>4. (a \o TransactionItems(y)) \o ins = a \o (TransactionItems(y) \o ins)
    <3> DEFINE z == TransactionItems(y)
    <3>1. a \in Seq(Item) /\ z \in Seq(Item) /\ ins \in Seq(Item)
      BY <1>2, <1>3, <2>1
    <3> HIDE DEF z
    <3>2. (a \o z) \o ins = a \o (z \o ins)
      <4>1. Typed(a, Item) /\ Typed(z, Item) /\ Typed(ins, Item)
        BY <3>1 DEF Typed
      <4> QED BY SMTT(30), <4>1, Associative
    <3> QED BY <3>2 DEF z
  <2> QED BY <1>3, <1>4, <1>5, <2>3, <2>4 DEF c, d
<1>12. Begins(d, d \o Firsts(outs, N), Item)
  <2>1. 0 \in 0..N
    BY <1>1
  <2> QED BY <1>10, <2>1 DEF ListTurns
<1>13. ASSUME NEW n \in 0..M
       PROVE  /\ AfterInputs(ledger, b, x, n) \in Seq(Item)
              /\ Begins(AfterInputs(ledger, b, x, n), AfterTransactions(ledger, b, x), Item)
  <2>1. c \o Firsts(ins, n) \in Seq(Item) /\ Begins(c \o Firsts(ins, n), d, Item)
    BY <1>8 DEF ListTurns, d
  <2>2. Begins(c \o Firsts(ins, n), d \o Firsts(outs, N), Item)
    BY <1>12, <2>1, BeginsTwice
  <2> QED BY <1>6, <1>11, <2>1, <2>2
<1>14. \A n \in 1..M : AfterInputs(ledger, b, x, n)
                         = AfterInputs(ledger, b, x, n - 1) \o <<InputItem(y.inputs[n])>>
  BY <1>4, <1>6, <1>8 DEF ListTurns
<1>15. \A n \in 0..N :
          /\ AfterOutputs(ledger, b, x, n) \in Seq(Item)
          /\ Begins(AfterOutputs(ledger, b, x, n), AfterTransactions(ledger, b, x), Item)
  BY <1>6, <1>10, <1>11 DEF ListTurns
<1>16. \A n \in 1..N : AfterOutputs(ledger, b, x, n)
                         = AfterOutputs(ledger, b, x, n - 1) \o <<OutputItem(y.outputs[n])>>
  BY <1>4, <1>6, <1>10 DEF ListTurns
<1>17. /\ AfterInputs(ledger, b, x, 0) = a \o TransactionItems(y)
       /\ AfterOutputs(ledger, b, x, 0) = AfterInputs(ledger, b, x, M)
       /\ AfterTransactions(ledger, b, x) = AfterOutputs(ledger, b, x, N)
  BY <1>6, <1>8, <1>10, <1>11 DEF ListTurns, c, d
<1> QED BY <1>13, <1>14, <1>15, <1>16, <1>17 DEF TransactionTurns, B, y, M, N, a

(* The turns of the loop over the unspent outputs, and the end of a save.   *)
LedgerTurns(ledger) ==
    /\ AfterUnspent(ledger, 0) = AfterBlocks(ledger, Len(ledger.chain))
    /\ \A n \in 0..Len(ledger.unspent) :
          /\ AfterUnspent(ledger, n) \in Seq(Item)
          /\ Begins(AfterUnspent(ledger, n), WholeFile(ledger), Item)
    /\ \A n \in 1..Len(ledger.unspent) :
          AfterUnspent(ledger, n) = AfterUnspent(ledger, n - 1) \o <<UnspentItem(ledger.unspent[n])>>
    /\ WholeFile(ledger) = AfterUnspent(ledger, Len(ledger.unspent))

(* Each unspent output comes behind those before it, and the last ends the file. *)
LEMMA UnspentWritten ==
  ASSUME NEW ledger \in Ledgers
  PROVE  LedgerTurns(ledger)
<1> DEFINE N == Len(ledger.unspent)
           f == [k \in 1..N |-> UnspentItem(ledger.unspent[k])]
           a == AfterBlocks(ledger, Len(ledger.chain))
<1>1. N \in Nat /\ Len(ledger.chain) \in Nat
  BY PersistenceAssumption DEF IsLedger, IsList
<1>2. \A k \in 1..N : f[k] \in Item /\ f[k] = UnspentItem(ledger.unspent[k])
  BY ItemsTyped
<1>3. a \in Seq(Item) /\ WholeFile(ledger) = AfterUnspent(ledger, N)
  <2>1. Len(ledger.chain) \in 0..Len(ledger.chain)
    BY <1>1
  <2> QED BY <2>1, LedgerWhole DEF LedgerTyped
<1>4. \A n : AfterUnspent(ledger, n) = a \o Firsts(f, n)
  BY DEF AfterUnspent, UnspentDone
<1> HIDE DEF N, f, a
<1>5. ListTurns(a, f, N, Item)
  BY <1>1, <1>2, <1>3, ListWritten
<1>6. \A n \in 0..N : /\ AfterUnspent(ledger, n) \in Seq(Item)
                      /\ Begins(AfterUnspent(ledger, n), WholeFile(ledger), Item)
  BY <1>3, <1>4, <1>5 DEF ListTurns
<1>7. \A n \in 1..N : AfterUnspent(ledger, n)
                        = AfterUnspent(ledger, n - 1) \o <<UnspentItem(ledger.unspent[n])>>
  BY <1>2, <1>4, <1>5 DEF ListTurns
<1>8. AfterUnspent(ledger, 0) = a
  BY <1>4, <1>5 DEF ListTurns
<1> QED BY <1>3, <1>6, <1>7, <1>8 DEF LedgerTurns, N, a

(* Whatever a save has written so far begins the whole file. *)
LEMMA WrittenBegins ==
  ASSUME NEW ledger \in Ledgers
  PROVE  /\ \A b \in 0..Len(ledger.chain) :
               Begins(AfterBlocks(ledger, b), WholeFile(ledger), Item)
         /\ \A b \in 1..Len(ledger.chain) :
               /\ \A n \in 0..Len(ledger.chain[b].transactions) :
                     Begins(AfterTransactions(ledger, b, n), WholeFile(ledger), Item)
               /\ \A x \in 1..Len(ledger.chain[b].transactions) :
                     LET y == ledger.chain[b].transactions[x]
                     IN  /\ \A n \in 0..Len(y.inputs) :
                               Begins(AfterInputs(ledger, b, x, n), WholeFile(ledger), Item)
                         /\ \A n \in 0..Len(y.outputs) :
                               Begins(AfterOutputs(ledger, b, x, n), WholeFile(ledger), Item)
<1>1. ASSUME NEW b \in 0..Len(ledger.chain)
      PROVE  Begins(AfterBlocks(ledger, b), WholeFile(ledger), Item)
  <2>1. Begins(AfterBlocks(ledger, b), AfterBlocks(ledger, Len(ledger.chain)), Item)
    BY LedgerWhole DEF LedgerTyped
  <2>2. Begins(AfterUnspent(ledger, 0), WholeFile(ledger), Item)
    <3>1. 0 \in 0..Len(ledger.unspent)
      BY PersistenceAssumption DEF IsLedger, IsList
    <3> QED BY <3>1, UnspentWritten DEF LedgerTurns
  <2>3. AfterUnspent(ledger, 0) = AfterBlocks(ledger, Len(ledger.chain))
    BY UnspentWritten DEF LedgerTurns
  <2> QED BY <2>1, <2>2, <2>3, BeginsTwice
<1>2. ASSUME NEW b \in 1..Len(ledger.chain), NEW n \in 0..Len(ledger.chain[b].transactions)
      PROVE  Begins(AfterTransactions(ledger, b, n), WholeFile(ledger), Item)
  <2>1. Begins(AfterTransactions(ledger, b, n), AfterBlocks(ledger, b), Item)
    BY BlockWritten DEF BlockTurns
  <2>2. b \in 0..Len(ledger.chain)
    BY PersistenceAssumption DEF IsLedger, IsList
  <2> QED BY <1>1, <2>1, <2>2, BeginsTwice
<1>3. ASSUME NEW b \in 1..Len(ledger.chain), NEW x \in 1..Len(ledger.chain[b].transactions),
             NEW s, Begins(s, AfterTransactions(ledger, b, x), Item)
      PROVE  Begins(s, WholeFile(ledger), Item)
  <2>1. x \in 0..Len(ledger.chain[b].transactions)
    BY PersistenceAssumption DEF IsLedger, IsBlock, IsList
  <2>2. Begins(AfterTransactions(ledger, b, x), WholeFile(ledger), Item)
    BY <1>2, <2>1
  <2> QED BY <1>3, <2>2, BeginsTwice
<1>4. ASSUME NEW b \in 1..Len(ledger.chain), NEW x \in 1..Len(ledger.chain[b].transactions)
      PROVE  LET y == ledger.chain[b].transactions[x]
             IN  /\ \A n \in 0..Len(y.inputs) :
                       Begins(AfterInputs(ledger, b, x, n), WholeFile(ledger), Item)
                 /\ \A n \in 0..Len(y.outputs) :
                       Begins(AfterOutputs(ledger, b, x, n), WholeFile(ledger), Item)
  <2> DEFINE y == ledger.chain[b].transactions[x]
  <2>1. /\ \A n \in 0..Len(y.inputs) :
              Begins(AfterInputs(ledger, b, x, n), AfterTransactions(ledger, b, x), Item)
        /\ \A n \in 0..Len(y.outputs) :
              Begins(AfterOutputs(ledger, b, x, n), AfterTransactions(ledger, b, x), Item)
    BY TransactionWritten DEF TransactionTurns
  <2> QED BY <1>3, <2>1
<1> QED BY <1>1, <1>2, <1>4

-----------------------------------------------------------------------------
(* The inductive invariant.                                                 *)

(* The places of save, in their loops. *)
Place ==
    /\ pc \in {"save_transaction", "save_inputs", "save_outputs"} => i \in 1..Len(memory.chain)
    /\ pc \in {"save_inputs", "save_outputs"} => t \in 1..Len(Transactions)

(* What the turns of the loops so far write. *)
Written ==
    CASE pc = "save_block" -> AfterBlocks(memory, i - 1)
      [] pc = "save_transaction" -> AfterTransactions(memory, i, t - 1)
      [] pc = "save_inputs" -> AfterInputs(memory, i, t, j - 1)
      [] pc = "save_outputs" -> AfterOutputs(memory, i, t, j - 1)
      [] OTHER -> AfterUnspent(memory, i - 1)

(* A save has written that, but for what the last turn still writes, or a   *)
(* beginning of what it should write.                                       *)
Due(items) == file \in Seq(Item) /\ out \in Seq(Item) /\ file \o out = items
SaveInv ==
    Saving => IF lost THEN file \in Beginnings(WholeFile(memory)) ELSE Due(Written)

(* The next item that load reads is the one behind these. *)
Behind(items) == pos = Len(items) + 1

(* The loops of load, when the file is that of a ledger: they have read the *)
(* first n blocks and m unspent outputs,                                    *)
BlocksRead(ledger, n, m) ==
    /\ part = [chain |-> Firsts(ledger.chain, n), unspent |-> Firsts(ledger.unspent, m)]
    /\ \/ m = 0 /\ Behind(AfterBlocks(ledger, n))
       \/ n = Len(ledger.chain) /\ Behind(AfterUnspent(ledger, m))

(* the first x transactions of the block n,                                 *)
BlockRead(ledger, n, x) ==
    LET b == ledger.chain[n]
    IN  /\ part = [chain |-> Firsts(ledger.chain, n - 1), unspent |-> <<>>]
        /\ block = [size |-> TxSize(b), info |-> b.info, data_len |-> b.data_len,
                    data |-> b.data, hash |-> b.hash, list |-> Firsts(b.transactions, x)]
TransactionsRead(ledger, n, x) ==
    BlockRead(ledger, n, x) /\ Behind(AfterTransactions(ledger, n, x))

(* or the first k inputs and l outputs of the transaction x of it.          *)
ListsRead(ledger, n, x, k, l) ==
    LET y == ledger.chain[n].transactions[x]
    IN  /\ BlockRead(ledger, n, x - 1)
        /\ tx = [ins |-> Len(y.inputs), outs |-> Len(y.outputs), id |-> y.id,
                 inputs |-> Firsts(y.inputs, k), outputs |-> Firsts(y.outputs, l)]
        /\ \/ l = 0 /\ Behind(AfterInputs(ledger, n, x, k))
           \/ k = Len(y.inputs) /\ Behind(AfterOutputs(ledger, n, x, l))

AtBlocks(ledger) ==
    \E n \in 0..Len(ledger.chain), m \in 0..Len(ledger.unspent) : BlocksRead(ledger, n, m)
AtTransactions(ledger) ==
    \E n \in 1..Len(ledger.chain) :
       \E x \in 0..Len(ledger.chain[n].transactions) : TransactionsRead(ledger, n, x)
AtLists(ledger) ==
    \E n \in 1..Len(ledger.chain) : \E x \in 1..Len(ledger.chain[n].transactions) :
       LET y == ledger.chain[n].transactions[x]
       IN  \E k \in 0..Len(y.inputs), l \in 0..Len(y.outputs) : ListsRead(ledger, n, x, k, l)

Agrees(ledger) ==
    /\ pc = "load_header" => pos = 1
    /\ pc \in {"load_block", "load_transaction", "load_lists"} => head = HeaderItem(ledger)[2]
    /\ pc = "load_block" => AtBlocks(ledger)
    /\ pc = "load_transaction" => AtTransactions(ledger)
    /\ pc = "load_lists" => AtLists(ledger)

LoadInv == \A ledger \in Ledgers : file = WholeFile(ledger) => Agrees(ledger)

PersistenceInv == TypeOK /\ Place /\ SaveInv /\ LoadInv

-----------------------------------------------------------------------------
(* save.                                                                    *)

(* Lists have lengths. *)
LEMMA Lengths ==
  ASSUME NEW ledger \in Ledgers
  PROVE  /\ Len(ledger.chain) \in Nat /\ Len(ledger.unspent) \in Nat
         /\ \A b \in 1..Len(ledger.chain) :
               /\ Len(ledger.chain[b].transactions) \in Nat
               /\ \A x \in 1..Len(ledger.chain[b].transactions) :
                     /\ Len(ledger.chain[b].transactions[x].inputs) \in Nat
                     /\ Len(ledger.chain[b].transactions[x].outputs) \in Nat
BY PersistenceAssumption DEF IsLedger, IsBlock, IsTransaction, IsList

(* The item that is written moves from out to the file. *)
LEMMA MoveHead ==
  ASSUME NEW E, NEW a \in Seq(E), NEW b \in Seq(E), b # <<>>
  PROVE  /\ Append(a, Head(b)) \in Seq(E) /\ Tail(b) \in Seq(E)
         /\ Append(a, Head(b)) \o Tail(b) = a \o b
         /\ Len(a) < Len(a \o b)
<1>1. Head(b) \in E /\ Tail(b) \in Seq(E) /\ Len(b) \in Nat /\ Len(b) # 0 /\ Len(a) \in Nat
  BY EmptySeq, HeadTailProperties
<1>2. b = <<Head(b)>> \o Tail(b)
  BY <1>1, HeadTailProperties, HeadTailAppend
<1>3. Append(a, Head(b)) = a \o <<Head(b)>>
  BY <1>1, AppendIsConcat
<1>4. (a \o <<Head(b)>>) \o Tail(b) = a \o (<<Head(b)>> \o Tail(b))
  <2>1. <<Head(b)>> \in Seq(E)
    BY <1>1
  <2>2. Typed(a, E) /\ Typed(<<Head(b)>>, E) /\ Typed(Tail(b), E)
    BY <1>1, <2>1 DEF Typed
  <2> QED BY SMTT(30), <2>2, Associative
<1>5. Append(a, Head(b)) \in Seq(E)
  BY <1>1, AppendProperties
<1>6. Len(a \o b) = Len(a) + Len(b)
  BY ConcatProperties
<1> QED BY <1>1, <1>2, <1>3, <1>4, <1>5, <1>6

(* What begins a file is one of its beginnings. *)
LEMMA InBeginnings ==
  ASSUME NEW E, NEW a, NEW w, Begins(a, w, E)
  PROVE  /\ a \in Beginnings(w)
         /\ Len(a) < Len(w) => Append(a, Torn) \in Beginnings(w)
<1>1. /\ Len(a) \in Nat /\ Len(w) \in Nat /\ Len(a) <= Len(w)
      /\ SubSeq(w, 1, Len(a)) = a
  BY BeginsItems
<1>2. Len(a) \in 0..Len(w)
  BY <1>1
<1>3. Len(a) < Len(w) => Len(a) \in 0..(Len(w) - 1)
  BY <1>1
<1>4. /\ \A n \in 0..Len(w) : SubSeq(w, 1, n) \in Beginnings(w)
      /\ \A n \in 0..(Len(w) - 1) : Append(SubSeq(w, 1, n), Torn) \in Beginnings(w)
  BY DEF Beginnings
<1> QED BY <1>1, <1>2, <1>3, <1>4

(* What the turns so far write begins the whole file, and is all of it at   *)
(* the end.                                                                 *)
LEMMA WrittenWhole ==
  ASSUME TypeOK, Place, Saving
  PROVE  /\ Begins(Written, WholeFile(memory), Item)
         /\ pc = "save_unspent" /\ i > Len(memory.unspent) => Written = WholeFile(memory)
<1>1. memory \in Ledgers
  BY DEF TypeOK
<1>2. /\ Len(memory.chain) \in Nat /\ Len(memory.unspent) \in Nat
      /\ \A b \in 1..Len(memory.chain) :
            /\ Len(memory.chain[b].transactions) \in Nat
            /\ \A x \in 1..Len(memory.chain[b].transactions) :
                  /\ Len(memory.chain[b].transactions[x].inputs) \in Nat
                  /\ Len(memory.chain[b].transactions[x].outputs) \in Nat
  BY <1>1, Lengths
<1>3. CASE pc = "save_block"
  <2>1. i - 1 \in 0..Len(memory.chain)
    BY <1>2, <1>3 DEF TypeOK
  <2>2. Written = AfterBlocks(memory, i - 1)
    BY <1>3 DEF Written
  <2> QED BY <1>1, <1>3, <2>1, <2>2, WrittenBegins
<1>4. CASE pc = "save_transaction"
  <2>1. i \in 1..Len(memory.chain)
    BY <1>4 DEF Place
  <2>2. t - 1 \in 0..Len(memory.chain[i].transactions)
    BY <1>2, <1>4, <2>1 DEF TypeOK, Transactions
  <2>3. Written = AfterTransactions(memory, i, t - 1)
    BY <1>4 DEF Written
  <2> QED BY <1>1, <1>4, <2>1, <2>2, <2>3, WrittenBegins
<1>5. CASE pc = "save_inputs"
  <2>1. i \in 1..Len(memory.chain) /\ t \in 1..Len(memory.chain[i].transactions)
    BY <1>5 DEF Place, Transactions
  <2>2. j - 1 \in 0..Len(memory.chain[i].transactions[t].inputs)
    <3>1. j \in 1..(Len(memory.chain[i].transactions[t].inputs) + 1)
      BY <1>5 DEF TypeOK, Transactions
    <3>2. Len(memory.chain[i].transactions[t].inputs) \in Nat
      BY <1>2, <2>1
    <3> QED BY <3>1, <3>2
  <2>3. Written = AfterInputs(memory, i, t, j - 1)
    BY <1>5 DEF Written
  <2> QED BY <1>1, <1>5, <2>1, <2>2, <2>3, WrittenBegins
<1>6. CASE pc = "save_outputs"
  <2>1. i \in 1..Len(memory.chain) /\ t \in 1..Len(memory.chain[i].transactions)
    BY <1>6 DEF Place, Transactions
  <2>2. j - 1 \in 0..Len(memory.chain[i].transactions[t].outputs)
    <3>1. j \in 1..(Len(memory.chain[i].transactions[t].outputs) + 1)
      BY <1>6 DEF TypeOK, Transactions
    <3>2. Len(memory.chain[i].transactions[t].outputs) \in Nat
      BY <1>2, <2>1
    <3> QED BY <3>1, <3>2
  <2>3. Written = AfterOutputs(memory, i, t, j - 1)
    BY <1>6 DEF Written
  <2> QED BY <1>1, <1>6, <2>1, <2>2, <2>3, WrittenBegins
<1>7. CASE pc = "save_unspent"
  <2>1. i \in 1..(Len(memory.unspent) + 1) /\ i - 1 \in 0..Len(memory.unspent)
    BY <1>2, <1>7 DEF TypeOK
  <2>2. Written = AfterUnspent(memory, i - 1)
    BY <1>7 DEF Written
  <2>3. i > Len(memory.unspent) => i - 1 = Len(memory.unspent)
    BY <1>2, <2>1
  <2> QED BY <1>1, <2>1, <2>2, <2>3, UnspentWritten DEF LedgerTurns
<1> QED BY <1>3, <1>4, <1>5, <1>6, <1>7 DEF Saving

(* A turn that writes what it should keeps the invariant. *)
LEMMA TurnKeeps ==
  ASSUME SaveInv, Saving, NEW items \in Seq(Item), NEW next, Writes(items, next),
         Written' = Written \o items \/ (items = <<>> /\ Written' = Written)
  PROVE  SaveInv'
<1>1. out = <<>> /\ out' = items /\ memory' = memory /\ file' = file /\ lost' = lost
  BY DEF Writes
<1>2. CASE lost
  BY <1>1, <1>2 DEF SaveInv
<1>3. CASE ~lost
  <2>1. Due(Written)
    BY <1>3 DEF SaveInv
  <2>2. file \in Seq(Item) /\ file = Written
    BY <1>1, <2>1, ConcatEmptySeq DEF Due
  <2>3. file \o items = Written'
    BY <2>2, ConcatEmptySeq
  <2>4. Due(Written)'
    BY <1>1, <2>2, <2>3 DEF Due
  <2> QED BY <1>1, <1>3, <2>4 DEF SaveInv
<1> QED BY <1>2, <1>3

(* So does a write, also one that is lost. *)
LEMMA WriteKeeps ==
  ASSUME TypeOK, Place, SaveInv, Write
  PROVE  SaveInv' /\ Saving /\ file' \in Beginnings(WholeFile(memory))
<1>1. Saving
  BY DEF TypeOK, NoSave, Write
<1>2. /\ out # <<>> /\ out' = Tail(out)
      /\ pc' = pc /\ memory' = memory /\ i' = i /\ t' = t /\ j' = j
  BY DEF Write
<1>3. Written' = Written /\ (Saving <=> Saving')
  BY <1>2 DEF Written, Saving
<1>4. Begins(Written, WholeFile(memory), Item)
  BY <1>1, WrittenWhole
<1>5. ASSUME ~lost
      PROVE  /\ file \in Beginnings(WholeFile(memory))
             /\ Append(file, Torn) \in Beginnings(WholeFile(memory))
             /\ Append(file, Head(out)) \in Beginnings(WholeFile(memory))
             /\ file' = Append(file, Head(out)) => Due(Written)'
  <2>1. file \in Seq(Item) /\ out \in Seq(Item) /\ file \o out = Written
    BY <1>1, <1>5 DEF SaveInv, Due
  <2>2. /\ Append(file, Head(out)) \in Seq(Item) /\ Tail(out) \in Seq(Item)
        /\ Append(file, Head(out)) \o Tail(out) = Written
        /\ Len(file) < Len(Written)
    BY <1>2, <2>1, MoveHead
  <2>3. Begins(file, WholeFile(memory), Item)
    <3>1. Begins(file, Written, Item)
      BY <2>1, BeginsSame
    <3> QED BY <1>4, <3>1, BeginsTwice
  <2>4. Begins(Append(file, Head(out)), WholeFile(memory), Item)
    <3>1. Begins(Append(file, Head(out)), Written, Item)
      BY <2>2, BeginsSame
    <3> QED BY <1>4, <3>1, BeginsTwice
  <2>5. Len(file) < Len(WholeFile(memory))
    <3>1. Len(Written) \in Nat /\ Len(WholeFile(memory)) \in Nat /\ Len(Written) <= Len(WholeFile(memory))
      BY <1>4, BeginsItems
    <3>2. Len(file) \in Nat
      BY <2>1
    <3> QED BY <2>2, <3>1, <3>2
  <2>6. file' = Append(file, Head(out)) => Due(Written)'
    BY <1>2, <1>3, <2>2 DEF Due
  <2> QED BY <2>3, <2>4, <2>5, <2>6, InBeginnings
<1>6. CASE ~lost /\ file' = Append(file, Head(out)) /\ lost' = lost
  BY <1>1, <1>2, <1>3, <1>5, <1>6 DEF SaveInv
<1>7. CASE ~lost /\ file' \in {file, Append(file, Torn)} /\ lost' = TRUE
  BY <1>1, <1>2, <1>5, <1>7 DEF SaveInv
<1>8. CASE lost /\ file' = file /\ lost' = lost
  BY <1>1, <1>2, <1>8 DEF SaveInv
<1>9. file' \in Beginnings(WholeFile(memory)) /\ SaveInv'
  <2>1. \/ ~lost /\ file' = Append(file, Head(out)) /\ lost' = lost
        \/ ~lost /\ file' \in {file, Append(file, Torn)} /\ lost' = TRUE
        \/ lost /\ file' = file /\ lost' = lost
    BY DEF Write
  <2>2. lost => file \in Beginnings(WholeFile(memory))
    BY <1>1 DEF SaveInv
  <2> QED BY <1>5, <1>6, <1>7, <1>8, <2>1, <2>2
<1> QED BY <1>1, <1>9

(* Every step of a save keeps the invariant. *)
LEMMA SavesKeep ==
  ASSUME PersistenceInv, Saves
  PROVE  PersistenceInv'
<1> USE DEF PersistenceInv
<1> DEFINE L == memory \in Ledgers
                /\ Len(memory.chain) \in Nat /\ Len(memory.unspent) \in Nat
                /\ \A b \in 1..Len(memory.chain) :
                      /\ Len(memory.chain[b].transactions) \in Nat
                      /\ \A x \in 1..Len(memory.chain[b].transactions) :
                            /\ Len(memory.chain[b].transactions[x].inputs) \in Nat
                            /\ Len(memory.chain[b].transactions[x].outputs) \in Nat
<1>1. ASSUME Saving PROVE L
  <2>1. memory \in Ledgers
    BY <1>1 DEF TypeOK
  <2> QED BY <2>1, Lengths
<1>2. CASE Write
  <2>1. Saving /\ SaveInv'
    BY <1>2, WriteKeeps
  <2>2. TypeOK' /\ Place'
    <3>1. /\ pc' = pc /\ memory' = memory /\ i' = i /\ t' = t /\ j' = j
          /\ ret' = ret /\ exists' = exists
          /\ pos' = pos /\ head' = head /\ part' = part /\ block' = block /\ tx' = tx
      BY <1>2 DEF Write, loading
    <3>2. lost' \in BOOLEAN
      BY <1>2 DEF Write, TypeOK
    <3> QED BY <2>1, <3>1, <3>2 DEF TypeOK, Place, Transactions, Saving, Loading, NoLoad
  <2>3. pc' \notin {"load_header", "load_block", "load_transaction", "load_lists"}
    BY <1>2, <2>1 DEF Write, Saving
  <2>4. LoadInv'
    BY <2>3 DEF LoadInv, Agrees
  <2> QED BY <2>1, <2>2, <2>4
<1>3. CASE SaveBlock
  <2>1. /\ pc = "save_block" /\ i <= Len(memory.chain) /\ pc' = "save_transaction"
        /\ t' = 1 /\ i' = i /\ j' = j /\ memory' = memory
        /\ Writes(BlockItems(memory.chain[i]), "save_transaction")
    BY <1>3 DEF SaveBlock, Writes
  <2>2. Saving /\ L /\ i \in 1..Len(memory.chain)
    BY <1>1, <2>1 DEF Saving, TypeOK
  <2>3. SaveInv'
    <3>1. BlockItems(memory.chain[i]) \in Seq(Item)
      BY <2>2, ItemsTyped
    <3>2. AfterTransactions(memory, i, 0) = AfterBlocks(memory, i - 1) \o BlockItems(memory.chain[i])
      BY <2>2, BlockWritten DEF BlockTurns
    <3>3. Written = AfterBlocks(memory, i - 1)
      BY <2>1 DEF Written
    <3>4. Written' = AfterTransactions(memory, i, 0)
      <4>1. Written' = AfterTransactions(memory, i, 1 - 1)
        BY <2>1 DEF Written
      <4> QED BY <4>1
    <3> QED BY <2>1, <2>2, <3>1, <3>2, <3>3, <3>4, TurnKeeps
  <2>4. TypeOK' /\ Place'
    <3>1. Transactions' = memory.chain[i].transactions /\ Len(memory.chain[i].transactions) \in Nat
      BY <2>1, <2>2 DEF Transactions
    <3>2. t' \in 1..(Len(Transactions') + 1)
      BY <2>1, <3>1
    <3> QED BY <2>1, <2>2, <3>1, <3>2 DEF TypeOK, Place, Writes, Saving, Loading, NoLoad, loading
  <2>5. LoadInv'
    BY <2>1 DEF LoadInv, Agrees
  <2> QED BY <2>3, <2>4, <2>5
<1>4. CASE SaveTransaction
  <2>1. /\ pc = "save_transaction" /\ t <= Len(Transactions) /\ pc' = "save_inputs"
        /\ t' = t /\ i' = i /\ j' = 1 /\ memory' = memory
        /\ Writes(TransactionItems(Transactions[t]), "save_inputs")
    BY <1>4 DEF SaveTransaction, Writes
  <2>2. Saving /\ L /\ i \in 1..Len(memory.chain) /\ t \in 1..Len(memory.chain[i].transactions)
    <3>1. Saving /\ i \in 1..Len(memory.chain) /\ t \in 1..(Len(Transactions) + 1)
      BY <2>1 DEF Saving, TypeOK, Place
    <3> QED BY <1>1, <2>1, <3>1 DEF Transactions
  <2>3. SaveInv'
    <3>1. TransactionItems(memory.chain[i].transactions[t]) \in Seq(Item)
      BY <2>2, ItemsTyped
    <3>2. AfterInputs(memory, i, t, 0)
            = AfterTransactions(memory, i, t - 1) \o TransactionItems(memory.chain[i].transactions[t])
      BY <2>2, TransactionWritten DEF TransactionTurns
    <3>3. Written = AfterTransactions(memory, i, t - 1)
      BY <2>1 DEF Written
    <3>4. Written' = AfterInputs(memory, i, t, 0)
      <4>1. Written' = AfterInputs(memory, i, t, 1 - 1)
        BY <2>1 DEF Written
      <4> QED BY <4>1
    <3> QED BY <2>1, <2>2, <3>1, <3>2, <3>3, <3>4, TurnKeeps DEF Transactions
  <2>4. TypeOK' /\ Place'
    <3>1. /\ Transactions' = memory.chain[i].transactions
          /\ Len(memory.chain[i].transactions[t].inputs) \in Nat
          /\ Len(memory.chain[i].transactions) \in Nat
      BY <2>1, <2>2 DEF Transactions
    <3>2. /\ j' \in 1..(Len(Transactions'[t'].inputs) + 1)
          /\ t' \in 1..(Len(Transactions') + 1)
          /\ t' \in 1..Len(Transactions')
          /\ i' \in 1..(Len(memory'.chain) + 1)
      <4>1. j' \in 1..(Len(Transactions'[t'].inputs) + 1)
        <5>1. Transactions'[t'].inputs = memory.chain[i].transactions[t].inputs
          BY <2>1 DEF Transactions
        <5>2. Len(Transactions'[t'].inputs) \in Nat
          BY <2>2, <5>1
        <5> QED BY <2>1, <5>2
      <4>2. t' \in 1..Len(Transactions') /\ t' \in 1..(Len(Transactions') + 1)
        BY <2>1, <2>2, <3>1
      <4>3. i' \in 1..(Len(memory'.chain) + 1)
        BY <2>1, <2>2
      <4> QED BY <4>1, <4>2, <4>3
    <3> QED BY <2>1, <2>2, <3>2 DEF TypeOK, Place, Writes, Saving, Loading, NoLoad, loading
  <2>5. LoadInv'
    BY <2>1 DEF LoadInv, Agrees
  <2> QED BY <2>3, <2>4, <2>5
<1>5. CASE SaveInput
  <2>1. /\ pc = "save_inputs" /\ j <= Len(Transactions[t].inputs) /\ pc' = "save_inputs"
        /\ t' = t /\ i' = i /\ j' = j + 1 /\ memory' = memory
        /\ Writes(<<InputItem(Transactions[t].inputs[j])>>, pc)
    BY <1>5 DEF SaveInput, Writes
  <2>2. /\ Saving /\ L /\ i \in 1..Len(memory.chain) /\ t \in 1..Len(memory.chain[i].transactions)
        /\ j \in 1..Len(memory.chain[i].transactions[t].inputs)
    <3>1. /\ Saving /\ i \in 1..Len(memory.chain) /\ t \in 1..Len(memory.chain[i].transactions)
          /\ j \in 1..(Len(memory.chain[i].transactions[t].inputs) + 1)
      BY <2>1 DEF Saving, TypeOK, Place, Transactions
    <3>2. Len(memory.chain[i].transactions[t].inputs) \in Nat
      BY <1>1, <3>1
    <3>3. j <= Len(memory.chain[i].transactions[t].inputs)
      BY <2>1 DEF Transactions
    <3>4. j \in 1..Len(memory.chain[i].transactions[t].inputs)
      BY <3>1, <3>2, <3>3
    <3> QED BY <1>1, <3>1, <3>4
  <2>3. SaveInv'
    <3>1. <<InputItem(memory.chain[i].transactions[t].inputs[j])>> \in Seq(Item)
      <4>1. InputItem(memory.chain[i].transactions[t].inputs[j]) \in Item
        BY <2>2, ItemsTyped
      <4> QED BY <4>1
    <3>2. AfterInputs(memory, i, t, j)
            = AfterInputs(memory, i, t, j - 1)
                \o <<InputItem(memory.chain[i].transactions[t].inputs[j])>>
      BY <2>2, TransactionWritten DEF TransactionTurns
    <3>3. Written = AfterInputs(memory, i, t, j - 1)
      BY <2>1 DEF Written
    <3>4. Written' = AfterInputs(memory, i, t, j)
      <4>1. Written' = AfterInputs(memory, i, t, (j + 1) - 1)
        BY <2>1 DEF Written
      <4>2. (j + 1) - 1 = j
        BY <2>2
      <4> QED BY <4>1, <4>2
    <3> QED BY <2>1, <2>2, <3>1, <3>2, <3>3, <3>4, TurnKeeps DEF Transactions
  <2>4. TypeOK' /\ Place'
    <3>1. /\ Transactions' = Transactions /\ Len(Transactions[t].inputs) \in Nat
          /\ j' \in 1..(Len(Transactions[t].inputs) + 1)
      <4>1. Transactions' = Transactions
        BY <2>1 DEF Transactions
      <4>2. Len(Transactions[t].inputs) \in Nat /\ j \in 1..Len(Transactions[t].inputs)
        BY <2>2 DEF Transactions
      <4> QED BY <2>1, <4>1, <4>2
    <3> QED BY <2>1, <2>2, <3>1 DEF TypeOK, Place, Writes, Saving, Loading, NoLoad, loading
  <2>5. LoadInv'
    BY <2>1 DEF LoadInv, Agrees
  <2> QED BY <2>3, <2>4, <2>5
<1>6. CASE InputsSaved
  <2>1. /\ pc = "save_inputs" /\ j > Len(Transactions[t].inputs) /\ pc' = "save_outputs"
        /\ t' = t /\ i' = i /\ j' = 1 /\ memory' = memory
        /\ Writes(<<>>, "save_outputs")
    BY <1>6 DEF InputsSaved, Writes
  <2>2. /\ Saving /\ L /\ i \in 1..Len(memory.chain) /\ t \in 1..Len(memory.chain[i].transactions)
        /\ j - 1 = Len(memory.chain[i].transactions[t].inputs)
    <3>1. /\ Saving /\ i \in 1..Len(memory.chain) /\ t \in 1..Len(memory.chain[i].transactions)
          /\ j \in 1..(Len(memory.chain[i].transactions[t].inputs) + 1)
      BY <2>1 DEF Saving, TypeOK, Place, Transactions
    <3>2. L /\ Len(memory.chain[i].transactions[t].inputs) \in Nat
      BY <1>1, <3>1
    <3>3. j > Len(memory.chain[i].transactions[t].inputs)
      BY <2>1 DEF Transactions
    <3>4. j - 1 = Len(memory.chain[i].transactions[t].inputs)
      <4> DEFINE n == Len(memory.chain[i].transactions[t].inputs)
      <4>1. n \in Nat /\ j \in 1..(n + 1) /\ j > n
        BY <3>1, <3>2, <3>3
      <4> HIDE DEF n, L
      <4>2. j - 1 = n
        BY <4>1
      <4> QED BY <4>2 DEF n
    <3> QED BY <3>1, <3>2, <3>4
  <2>3. SaveInv'
    <3>1. AfterOutputs(memory, i, t, 0) = AfterInputs(memory, i, t, j - 1)
      BY <2>2, TransactionWritten DEF TransactionTurns
    <3>2. Written = AfterInputs(memory, i, t, j - 1)
      BY <2>1 DEF Written
    <3>3. Written' = AfterOutputs(memory, i, t, 0)
      <4>1. Written' = AfterOutputs(memory, i, t, 1 - 1)
        BY <2>1 DEF Written
      <4> QED BY <4>1
    <3>4. <<>> \in Seq(Item)
      OBVIOUS
    <3> QED BY <2>1, <2>2, <3>1, <3>2, <3>3, <3>4, TurnKeeps
  <2>4. TypeOK' /\ Place'
    <3>1. /\ Transactions' = Transactions /\ Len(Transactions[t].outputs) \in Nat
          /\ j' \in 1..(Len(Transactions[t].outputs) + 1)
      <4>1. Transactions' = Transactions
        BY <2>1 DEF Transactions
      <4>2. Len(Transactions[t].outputs) \in Nat
        BY <2>2 DEF Transactions
      <4> QED BY <2>1, <4>1, <4>2
    <3> QED BY <2>1, <2>2, <3>1 DEF TypeOK, Place, Writes, Saving, Loading, NoLoad, loading
  <2>5. LoadInv'
    BY <2>1 DEF LoadInv, Agrees
  <2> QED BY <2>3, <2>4, <2>5
<1>7. CASE SaveOutput
  <2>1. /\ pc = "save_outputs" /\ j <= Len(Transactions[t].outputs) /\ pc' = "save_outputs"
        /\ t' = t /\ i' = i /\ j' = j + 1 /\ memory' = memory
        /\ Writes(<<OutputItem(Transactions[t].outputs[j])>>, pc)
    BY <1>7 DEF SaveOutput, Writes
  <2>2. /\ Saving /\ L /\ i \in 1..Len(memory.chain) /\ t \in 1..Len(memory.chain[i].transactions)
        /\ j \in 1..Len(memory.chain[i].transactions[t].outputs)
    <3>1. /\ Saving /\ i \in 1..Len(memory.chain) /\ t \in 1..Len(memory.chain[i].transactions)
          /\ j \in 1..(Len(memory.chain[i].transactions[t].outputs) + 1)
      BY <2>1 DEF Saving, TypeOK, Place, Transactions
    <3>2. L /\ Len(memory.chain[i].transactions[t].outputs) \in Nat
      BY <1>1, <3>1
    <3>3. j <= Len(memory.chain[i].transactions[t].outputs)
      BY <2>1 DEF Transactions
    <3>4. j \in 1..Len(memory.chain[i].transactions[t].outputs)
      BY <3>1, <3>2, <3>3
    <3> QED BY <1>1, <3>1, <3>4
  <2>3. SaveInv'
    <3>1. <<OutputItem(memory.chain[i].transactions[t].outputs[j])>> \in Seq(Item)
      <4>1. OutputItem(memory.chain[i].transactions[t].outputs[j]) \in Item
        BY <2>2, ItemsTyped
      <4> QED BY <4>1
    <3>2. AfterOutputs(memory, i, t, j)
            = AfterOutputs(memory, i, t, j - 1)
                \o <<OutputItem(memory.chain[i].transactions[t].outputs[j])>>
      BY <2>2, TransactionWritten DEF TransactionTurns
    <3>3. Written = AfterOutputs(memory, i, t, j - 1)
      BY <2>1 DEF Written
    <3>4. Written' = AfterOutputs(memory, i, t, j)
      <4>1. Written' = AfterOutputs(memory, i, t, (j + 1) - 1)
        BY <2>1 DEF Written
      <4>2. (j + 1) - 1 = j
        BY <2>2
      <4> QED BY <4>1, <4>2
    <3> QED BY <2>1, <2>2, <3>1, <3>2, <3>3, <3>4, TurnKeeps DEF Transactions
  <2>4. TypeOK' /\ Place'
    <3>1. /\ Transactions' = Transactions /\ Len(Transactions[t].outputs) \in Nat
          /\ j' \in 1..(Len(Transactions[t].outputs) + 1)
      <4>1. Transactions' = Transactions
        BY <2>1 DEF Transactions
      <4>2. Len(Transactions[t].outputs) \in Nat /\ j \in 1..Len(Transactions[t].outputs)
        BY <2>2 DEF Transactions
      <4> QED BY <2>1, <4>1, <4>2
    <3> QED BY <2>1, <2>2, <3>1 DEF TypeOK, Place, Writes, Saving, Loading, NoLoad, loading
  <2>5. LoadInv'
    BY <2>1 DEF LoadInv, Agrees
  <2> QED BY <2>3, <2>4, <2>5
<1>8. CASE OutputsSaved
  <2>1. /\ pc = "save_outputs" /\ j > Len(Transactions[t].outputs) /\ pc' = "save_transaction"
        /\ t' = t + 1 /\ i' = i /\ j' = j /\ memory' = memory
        /\ Writes(<<>>, "save_transaction")
    BY <1>8 DEF OutputsSaved, Writes
  <2>2. /\ Saving /\ L /\ i \in 1..Len(memory.chain) /\ t \in 1..Len(memory.chain[i].transactions)
        /\ j - 1 = Len(memory.chain[i].transactions[t].outputs)
    <3>1. /\ Saving /\ i \in 1..Len(memory.chain) /\ t \in 1..Len(memory.chain[i].transactions)
          /\ j \in 1..(Len(memory.chain[i].transactions[t].outputs) + 1)
      BY <2>1 DEF Saving, TypeOK, Place, Transactions
    <3>2. L /\ Len(memory.chain[i].transactions[t].outputs) \in Nat
      BY <1>1, <3>1
    <3>3. j > Len(memory.chain[i].transactions[t].outputs)
      BY <2>1 DEF Transactions
    <3>4. j - 1 = Len(memory.chain[i].transactions[t].outputs)
      <4> DEFINE n == Len(memory.chain[i].transactions[t].outputs)
      <4>1. n \in Nat /\ j \in 1..(n + 1) /\ j > n
        BY <3>1, <3>2, <3>3
      <4> HIDE DEF n, L
      <4>2. j - 1 = n
        BY <4>1
      <4> QED BY <4>2 DEF n
    <3> QED BY <3>1, <3>2, <3>4
  <2>3. SaveInv'
    <3>1. AfterTransactions(memory, i, t) = AfterOutputs(memory, i, t, j - 1)
      BY <2>2, TransactionWritten DEF TransactionTurns
    <3>2. Written = AfterOutputs(memory, i, t, j - 1)
      BY <2>1 DEF Written
    <3>3. Written' = AfterTransactions(memory, i, t)
      <4>1. Written' = AfterTransactions(memory, i, (t + 1) - 1)
        BY <2>1 DEF Written
      <4>2. (t + 1) - 1 = t
        BY <2>2
      <4> QED BY <4>1, <4>2
    <3>4. <<>> \in Seq(Item)
      OBVIOUS
    <3> QED BY <2>1, <2>2, <3>1, <3>2, <3>3, <3>4, TurnKeeps
  <2>4. TypeOK' /\ Place'
    <3>1. /\ Transactions' = Transactions /\ Len(Transactions) \in Nat
          /\ t' \in 1..(Len(Transactions) + 1)
      <4>1. Transactions' = Transactions
        BY <2>1 DEF Transactions
      <4>2. Len(Transactions) \in Nat /\ t \in 1..Len(Transactions)
        BY <2>2 DEF Transactions
      <4> QED BY <2>1, <4>1, <4>2
    <3> QED BY <2>1, <2>2, <3>1 DEF TypeOK, Place, Writes, Saving, Loading, NoLoad, loading
  <2>5. LoadInv'
    BY <2>1 DEF LoadInv, Agrees
  <2> QED BY <2>3, <2>4, <2>5
<1>9. CASE TransactionsSaved
  <2>1. /\ pc = "save_transaction" /\ t > Len(Transactions) /\ pc' = "save_block"
        /\ t' = t /\ i' = i + 1 /\ j' = j /\ memory' = memory
        /\ Writes(<<>>, "save_block")
    BY <1>9 DEF TransactionsSaved, Writes
  <2>2. /\ Saving /\ L /\ i \in 1..Len(memory.chain)
        /\ t - 1 = Len(memory.chain[i].transactions)
    <3>1. /\ Saving /\ i \in 1..Len(memory.chain)
          /\ t \in 1..(Len(memory.chain[i].transactions) + 1)
      BY <2>1 DEF Saving, TypeOK, Place, Transactions
    <3>2. L /\ Len(memory.chain[i].transactions) \in Nat
      BY <1>1, <3>1
    <3>3. t > Len(memory.chain[i].transactions)
      BY <2>1 DEF Transactions
    <3>4. t - 1 = Len(memory.chain[i].transactions)
      BY SMTT(30), <3>1, <3>2, <3>3
    <3> QED BY <3>1, <3>2, <3>4
  <2>3. SaveInv'
    <3>1. AfterBlocks(memory, i) = AfterTransactions(memory, i, t - 1)
      BY <2>2, BlockWritten DEF BlockTurns
    <3>2. Written = AfterTransactions(memory, i, t - 1)
      BY <2>1 DEF Written
    <3>3. Written' = AfterBlocks(memory, i)
      <4>1. Written' = AfterBlocks(memory, (i + 1) - 1)
        BY <2>1 DEF Written
      <4>2. (i + 1) - 1 = i
        BY <2>2
      <4> QED BY <4>1, <4>2
    <3>4. <<>> \in Seq(Item)
      OBVIOUS
    <3> QED BY <2>1, <2>2, <3>1, <3>2, <3>3, <3>4, TurnKeeps
  <2>4. TypeOK' /\ Place'
    <3>1. i' \in 1..(Len(memory.chain) + 1)
      BY <2>1, <2>2
    <3> QED BY <2>1, <2>2, <3>1 DEF TypeOK, Place, Writes, Saving, Loading, NoLoad, loading
  <2>5. LoadInv'
    BY <2>1 DEF LoadInv, Agrees
  <2> QED BY <2>3, <2>4, <2>5
<1>10. CASE BlocksSaved
  <2>1. /\ pc = "save_block" /\ i > Len(memory.chain) /\ pc' = "save_unspent"
        /\ t' = t /\ i' = 1 /\ j' = j /\ memory' = memory
        /\ Writes(<<>>, "save_unspent")
    BY <1>10 DEF BlocksSaved, Writes
  <2>2. Saving /\ L /\ i - 1 = Len(memory.chain)
    <3>1. Saving /\ i \in 1..(Len(memory.chain) + 1)
      BY <2>1 DEF Saving, TypeOK
    <3> QED BY <1>1, <2>1, <3>1
  <2>3. SaveInv'
    <3>1. AfterUnspent(memory, 0) = AfterBlocks(memory, i - 1)
      BY <2>2, UnspentWritten DEF LedgerTurns
    <3>2. Written = AfterBlocks(memory, i - 1)
      BY <2>1 DEF Written
    <3>3. Written' = AfterUnspent(memory, 0)
      <4>1. Written' = AfterUnspent(memory, 1 - 1)
        BY <2>1 DEF Written
      <4> QED BY <4>1
    <3>4. <<>> \in Seq(Item)
      OBVIOUS
    <3> QED BY <2>1, <2>2, <3>1, <3>2, <3>3, <3>4, TurnKeeps
  <2>4. TypeOK' /\ Place'
    <3>1. i' \in 1..(Len(memory.unspent) + 1)
      BY <2>1, <2>2
    <3> QED BY <2>1, <2>2, <3>1 DEF TypeOK, Place, Writes, Saving, Loading, NoLoad, loading
  <2>5. LoadInv'
    BY <2>1 DEF LoadInv, Agrees
  <2> QED BY <2>3, <2>4, <2>5
<1>11. CASE SaveUnspent
  <2>1. /\ pc = "save_unspent" /\ i <= Len(memory.unspent) /\ pc' = "save_unspent"
        /\ t' = t /\ i' = i + 1 /\ j' = j /\ memory' = memory
        /\ Writes(<<UnspentItem(memory.unspent[i])>>, pc)
    BY <1>11 DEF SaveUnspent, Writes
  <2>2. Saving /\ L /\ i \in 1..Len(memory.unspent)
    <3>1. Saving /\ i \in 1..(Len(memory.unspent) + 1)
      BY <2>1 DEF Saving, TypeOK
    <3> QED BY <1>1, <2>1, <3>1
  <2>3. SaveInv'
    <3>1. <<UnspentItem(memory.unspent[i])>> \in Seq(Item)
      <4>1. UnspentItem(memory.unspent[i]) \in Item
        BY <2>2, ItemsTyped
      <4> QED BY <4>1
    <3>2. AfterUnspent(memory, i)
            = AfterUnspent(memory, i - 1) \o <<UnspentItem(memory.unspent[i])>>
      BY <2>2, UnspentWritten DEF LedgerTurns
    <3>3. Written = AfterUnspent(memory, i - 1)
      BY <2>1 DEF Written
    <3>4. Written' = AfterUnspent(memory, i)
      <4>1. Written' = AfterUnspent(memory, (i + 1) - 1)
        BY <2>1 DEF Written
      <4>2. (i + 1) - 1 = i
        BY <2>2
      <4> QED BY <4>1, <4>2
    <3> QED BY <2>1, <2>2, <3>1, <3>2, <3>3, <3>4, TurnKeeps
  <2>4. TypeOK' /\ Place'
    <3>1. i' \in 1..(Len(memory.unspent) + 1)
      BY <2>1, <2>2
    <3> QED BY <2>1, <2>2, <3>1 DEF TypeOK, Place, Writes, Saving, Loading, NoLoad, loading
  <2>5. LoadInv'
    BY <2>1 DEF LoadInv, Agrees
  <2> QED BY <2>3, <2>4, <2>5
<1>12. CASE SaveReturns
  BY <1>12 DEF SaveReturns, Return, Ends, TypeOK, Place, SaveInv, LoadInv, Agrees,
               Saving, Loading, NoSave, NoLoad
<1> QED
  BY <1>2, <1>3, <1>4, <1>5, <1>6, <1>7, <1>8, <1>9, <1>10, <1>11, <1>12 DEF Saves

-----------------------------------------------------------------------------
(* load.                                                                    *)

(* What is read one by one is the first values of the list. *)
ListRead(list) ==
    /\ Firsts(list, 0) = <<>>
    /\ \A n \in 0..Len(list) : Len(Firsts(list, n)) = n
    /\ \A n \in 1..Len(list) : Append(Firsts(list, n - 1), list[n]) = Firsts(list, n)
    /\ Firsts(list, Len(list)) = list

(* Appending its values one by one gives the list. *)
LEMMA ListsAreRead ==
  ASSUME NEW list, IsList(list)
  PROVE  ListRead(list)
<1> DEFINE N == Len(list)
           E == {list[k] : k \in 1..N}
<1>1. N \in Nat /\ list = [k \in 1..N |-> list[k]]
  BY DEF IsList
<1>2. \A k \in 1..N : list[k] \in E
  OBVIOUS
<1> HIDE DEF E
<1>3. ASSUME NEW n \in 0..N PROVE Firsts(list, n) \in Seq(E) /\ Len(Firsts(list, n)) = n
  <2>1. N \in Nat
    BY <1>1
  <2> HIDE DEF N
  <2>2. Divided(list, n, N, E)
    BY <1>2, <2>1, FirstsDivided
  <2> QED BY <2>2 DEF Divided
<1>4. Firsts(list, 0) = <<>>
  <2>1. Firsts(list, 0) \in Seq(E) /\ Len(Firsts(list, 0)) = 0
    BY <1>1, <1>3
  <2> QED BY <2>1, EmptySeq
<1>5. Firsts(list, N) = list
  BY <1>1 DEF Firsts
<1>6. ASSUME NEW n \in 1..N
      PROVE  Append(Firsts(list, n - 1), list[n]) = Firsts(list, n)
  <2>1. Firsts(list, n - 1) \in Seq(E) /\ list[n] \in E
    <3>1. n - 1 \in 0..N
      BY <1>1
    <3> QED BY <1>2, <1>3, <3>1
  <2>2. Append(Firsts(list, n - 1), list[n]) = Firsts(list, n - 1) \o <<list[n]>>
    BY <2>1, AppendIsConcat
  <2>3. <<>> \o Firsts(list, n) = (<<>> \o Firsts(list, n - 1)) \o <<list[n]>>
    <3>1. <<>> \in Seq(E)
      OBVIOUS
    <3>2. ListTurns(<<>>, list, N, E)
      <4> HIDE DEF N
      <4> QED BY <1>1, <1>2, <3>1, ListWritten
    <3> QED BY <3>2 DEF ListTurns
  <2>4. <<>> \o Firsts(list, n) = Firsts(list, n) /\ <<>> \o Firsts(list, n - 1) = Firsts(list, n - 1)
    <3>1. Firsts(list, n) \in Seq(E)
      <4>1. n \in 0..N
        BY <1>1
      <4> QED BY <1>3, <4>1
    <3> QED BY <2>1, <3>1, ConcatEmptySeq
  <2> QED BY <2>2, <2>3, <2>4
<1> QED BY <1>3, <1>4, <1>5, <1>6 DEF ListRead

(* The lists of a ledger. *)
LEMMA LedgerRead ==
  ASSUME NEW ledger \in Ledgers
  PROVE  /\ ListRead(ledger.chain) /\ ListRead(ledger.unspent)
         /\ \A b \in 1..Len(ledger.chain) :
               /\ ListRead(ledger.chain[b].transactions)
               /\ \A x \in 1..Len(ledger.chain[b].transactions) :
                     /\ ListRead(ledger.chain[b].transactions[x].inputs)
                     /\ ListRead(ledger.chain[b].transactions[x].outputs)
<1>1. /\ IsList(ledger.chain) /\ IsList(ledger.unspent)
      /\ \A b \in 1..Len(ledger.chain) :
            /\ IsList(ledger.chain[b].transactions)
            /\ \A x \in 1..Len(ledger.chain[b].transactions) :
                  /\ IsList(ledger.chain[b].transactions[x].inputs)
                  /\ IsList(ledger.chain[b].transactions[x].outputs)
  BY PersistenceAssumption DEF IsLedger, IsBlock, IsTransaction
<1> QED BY <1>1, ListsAreRead

(* No item is a torn one. *)
LEMMA ItemsNotTorn ==
  \A item \in Item : item # Torn
<1> SUFFICES ASSUME NEW ledger \in Ledgers, NEW item \in LedgerSet(ledger) PROVE item # Torn
  BY DEF Item
<1> DEFINE Kinds == {"header", "info", "data_len", "data", "hash", "tx_size", "id", "tx_in",
                     "tx_out", "input", "output", "unspent"}
<1>1. \A y : \A a \in TransactionSet(y) : a[1] \in Kinds
  BY DEF TransactionSet, TransactionItems, InputItem, OutputItem
<1>2. \A b : \A a \in BlockSet(b) : a[1] \in Kinds
  <2> SUFFICES ASSUME NEW b, NEW a \in BlockSet(b) PROVE a[1] \in Kinds
    OBVIOUS
  <2>1. CASE a \in {BlockItems(b)[k] : k \in 1..5}
    BY <2>1 DEF BlockItems
  <2>2. CASE a \in UNION {TransactionSet(b.transactions[n]) : n \in 1..Len(b.transactions)}
    <3>1. PICK n \in 1..Len(b.transactions) : a \in TransactionSet(b.transactions[n])
      BY <2>2
    <3> QED BY <1>1, <3>1
  <2> QED BY <2>1, <2>2 DEF BlockSet
<1>3. item[1] \in Kinds
  <2>1. CASE item = HeaderItem(ledger)
    BY <2>1 DEF HeaderItem
  <2>2. CASE item \in UNION {BlockSet(ledger.chain[n]) : n \in 1..Len(ledger.chain)}
    <3>1. PICK n \in 1..Len(ledger.chain) : item \in BlockSet(ledger.chain[n])
      BY <2>2
    <3> QED BY <1>2, <3>1
  <2>3. CASE item \in {UnspentItem(ledger.unspent[n]) : n \in 1..Len(ledger.unspent)}
    BY <2>3 DEF UnspentItem
  <2> QED BY <2>1, <2>2, <2>3 DEF LedgerSet
<1>4. Torn[1] = "torn"
  BY DEF Torn
<1> QED BY <1>3, <1>4

(* The file is that of the ledger. *)
FileOf(ledger) == file = WholeFile(ledger)

(* The items behind those that were read, as load finds them. *)
Follow(items, a) ==
    /\ \A k \in 1..Len(items) : Whole(pos + (k - 1)) /\ file[pos + (k - 1)] = items[k]
    /\ pos + Len(items) = Len(a \o items) + 1

(* What the file holds behind a beginning of it is whole and is what comes next. *)
LEMMA ItemsFound ==
  ASSUME NEW ledger \in Ledgers, FileOf(ledger),
         NEW a \in Seq(Item), NEW items \in Seq(Item), Behind(a),
         Begins(a \o items, WholeFile(ledger), Item)
  PROVE  Follow(items, a)
<1> DEFINE w == WholeFile(ledger)
           A == Len(a)
           L == Len(items)
<1>1. A \in Nat /\ L \in Nat /\ Len(w) \in Nat /\ w \in Seq(Item)
  BY BeginsItems DEF Begins
<1>2. /\ Len(a \o items) = A + L
      /\ \A k \in 1..(A + L) : (a \o items)[k] = IF k <= A THEN a[k] ELSE items[k - A]
  BY ConcatProperties
<1>3. /\ A + L <= Len(w)
      /\ \A k \in 1..(A + L) : w[k] = (a \o items)[k]
  <2> DEFINE z == a \o items
  <2>1. Begins(z, w, Item)
    OBVIOUS
  <2>2. Len(z) = A + L
    BY <1>2
  <2> HIDE DEF z, w, A, L
  <2>3. Len(z) <= Len(w) /\ \A k \in 1..Len(z) : w[k] = z[k]
    BY <2>1, BeginsItems
  <2> QED BY <2>2, <2>3 DEF z
<1>4. pos = A + 1 /\ file = w
  BY DEF Behind, FileOf
<1> HIDE DEF w, A, L
<1>5. ASSUME NEW k \in 1..L
      PROVE  Whole(pos + (k - 1)) /\ file[pos + (k - 1)] = items[k]
  <2> DEFINE p == pos + (k - 1)
  <2>1. p = A + k /\ p \in 1..(A + L) /\ p \in 1..Len(w) /\ ~(p <= A) /\ p - A = k
    BY <1>1, <1>3, <1>4
  <2> HIDE DEF p
  <2>2. file[p] = items[k]
    BY <1>2, <1>3, <1>4, <2>1
  <2>3. file[p] # Torn
    <3>1. items[k] \in Item
      BY DEF L
    <3> QED BY <2>2, <3>1, ItemsNotTorn
  <2>4. Whole(p)
    BY <1>4, <2>1, <2>3 DEF Whole
  <2> QED BY <2>2, <2>4 DEF p
<1>6. pos + L = (A + L) + 1
  BY <1>1, <1>4
<1> QED BY <1>2, <1>5, <1>6 DEF Follow, L, A

(* The header is the first item. *)
LEMMA HeaderFound ==
  ASSUME NEW ledger \in Ledgers, FileOf(ledger)
  PROVE  Whole(1) /\ file[1] = HeaderItem(ledger)
<1> DEFINE h == HeaderItem(ledger)
           a == <<h>>
<1>1. AfterBlocks(ledger, 0) = a /\ h \in Item /\ a \in Seq(Item)
  BY LedgerWhole, ItemsTyped DEF LedgerTyped
<1>2. Begins(a, WholeFile(ledger), Item)
  <2>1. 0 \in 0..Len(ledger.chain)
    BY Lengths
  <2> QED BY <1>1, <2>1, WrittenBegins
<1>3. Len(a) = 1 /\ a[1] = h
  OBVIOUS
<1>4. h # Torn
  BY <1>1, ItemsNotTorn
<1> HIDE DEF a, h
<1>5. Len(WholeFile(ledger)) >= 1 /\ WholeFile(ledger)[1] = h
  <2>1. /\ Len(a) \in Nat /\ Len(WholeFile(ledger)) \in Nat /\ Len(a) <= Len(WholeFile(ledger))
        /\ \A k \in 1..Len(a) : WholeFile(ledger)[k] = a[k]
    BY <1>2, BeginsItems
  <2> QED BY <1>3, <2>1
<1>6. Whole(1) /\ file[1] = h
  BY <1>4, <1>5 DEF FileOf, Whole
<1> QED BY <1>6 DEF h

(* After the header no block is read. *)
LEMMA HeaderAgrees ==
  ASSUME NEW ledger \in Ledgers, FileOf(ledger), Agrees(ledger), LoadHeader
  PROVE  Agrees(ledger)'
<1> DEFINE a == <<HeaderItem(ledger)>>
<1>1. /\ pc = "load_header" /\ pos = 1 /\ pos' = 2 /\ pc' = "load_block"
      /\ part' = [chain |-> <<>>, unspent |-> <<>>]
      /\ Whole(1) => head' = file[1][2]
  BY DEF LoadHeader, Reads, Agrees
<1>2. AfterBlocks(ledger, 0) = a
  BY LedgerWhole DEF LedgerTyped
<1>3. Len(ledger.chain) \in Nat /\ Len(ledger.unspent) \in Nat
  BY Lengths
<1>4. Whole(1) /\ file[1] = HeaderItem(ledger)
  BY HeaderFound
<1>5. head' = HeaderItem(ledger)[2]
  BY <1>1, <1>4
<1>6. AtBlocks(ledger)'
  <2>1. Firsts(ledger.chain, 0) = <<>> /\ Firsts(ledger.unspent, 0) = <<>>
    BY LedgerRead DEF ListRead
  <2>2. 0 \in 0..Len(ledger.chain) /\ 0 \in 0..Len(ledger.unspent)
    BY <1>3
  <2>3. pos' = Len(AfterBlocks(ledger, 0)) + 1
    <3>1. Len(a) = 1
      OBVIOUS
    <3> HIDE DEF a
    <3>2. Len(AfterBlocks(ledger, 0)) = 1
      BY <1>2, <3>1
    <3>3. pos' = 1 + 1
      BY <1>1
    <3> QED BY <3>2, <3>3
  <2>4. BlocksRead(ledger, 0, 0)'
    BY <1>1, <2>1, <2>3 DEF BlocksRead, Behind
  <2> QED BY <2>2, <2>4 DEF AtBlocks
<1> QED BY <1>1, <1>5, <1>6 DEF Agrees

(* The five items of a block, and its number of transactions. *)
BlockFound(ledger, b) ==
    LET B == ledger.chain[b]
    IN  /\ b \in 1..Len(ledger.chain)
        /\ part = [chain |-> Firsts(ledger.chain, b - 1), unspent |-> <<>>]
        /\ Whole(pos) /\ file[pos] = <<"info", B.info>>
        /\ Whole(pos + 1) /\ file[pos + 1] = <<"data_len", B.data_len>>
        /\ Whole(pos + 2) /\ file[pos + 2] = <<"data", B.data>>
        /\ Whole(pos + 3) /\ file[pos + 3] = <<"hash", B.hash>>
        /\ Whole(pos + 4) /\ file[pos + 4] = <<"tx_size", TxSize(B)>>
        /\ pos + 5 = Len(AfterTransactions(ledger, b, 0)) + 1

(* While blocks are missing, load finds the next one. *)
LEMMA BlockIsFound ==
  ASSUME NEW ledger \in Ledgers, FileOf(ledger), Agrees(ledger), pc = "load_block",
         Len(part.chain) < head.blocks
  PROVE  \E b : BlockFound(ledger, b)
<1>1. head = HeaderItem(ledger)[2] /\ AtBlocks(ledger)
  BY DEF Agrees
<1>2. PICK n \in 0..Len(ledger.chain), m \in 0..Len(ledger.unspent) : BlocksRead(ledger, n, m)
  BY <1>1 DEF AtBlocks
<1>3. Len(ledger.chain) \in Nat /\ Len(ledger.unspent) \in Nat
  BY Lengths
<1>4. /\ Len(part.chain) = n /\ head.blocks = Len(ledger.chain)
      /\ Firsts(ledger.unspent, 0) = <<>>
  <2>1. Len(Firsts(ledger.chain, n)) = n /\ Firsts(ledger.unspent, 0) = <<>>
    BY LedgerRead DEF ListRead
  <2>2. part.chain = Firsts(ledger.chain, n)
    BY <1>2 DEF BlocksRead
  <2>3. head.blocks = Len(ledger.chain)
    BY <1>1 DEF HeaderItem
  <2> QED BY <2>1, <2>2, <2>3
<1>5. /\ n < Len(ledger.chain)
      /\ m = 0 /\ Behind(AfterBlocks(ledger, n))
      /\ part = [chain |-> Firsts(ledger.chain, n), unspent |-> <<>>]
  <2>1. n < Len(ledger.chain)
    BY <1>4
  <2>2. n # Len(ledger.chain)
    BY <1>3, <2>1
  <2>3. m = 0 /\ Behind(AfterBlocks(ledger, n))
    BY <1>2, <2>2 DEF BlocksRead
  <2> QED BY <1>2, <1>4, <2>1, <2>3 DEF BlocksRead
<1> DEFINE b == n + 1
           B == ledger.chain[b]
           items == BlockItems(B)
           a == AfterBlocks(ledger, n)
<1>6. b \in 1..Len(ledger.chain) /\ b - 1 = n
  BY <1>3, <1>5
<1>7. /\ a \in Seq(Item) /\ items \in Seq(Item)
      /\ AfterTransactions(ledger, b, 0) = a \o items
      /\ Begins(a \o items, WholeFile(ledger), Item)
  <2>1. a \in Seq(Item)
    BY LedgerWhole DEF LedgerTyped
  <2>2. items \in Seq(Item)
    BY <1>6, ItemsTyped
  <2>3. AfterTransactions(ledger, b, 0) = AfterBlocks(ledger, b - 1) \o items
    <3>1. BlockTurns(ledger, b)
      BY <1>6, BlockWritten
    <3> QED BY <3>1 DEF BlockTurns
  <2>4. AfterTransactions(ledger, b, 0) = a \o items
    BY <1>6, <2>3
  <2>5. 0 \in 0..Len(ledger.chain[b].transactions)
    BY <1>6, Lengths
  <2>6. Begins(AfterTransactions(ledger, b, 0), WholeFile(ledger), Item)
    BY <1>6, <2>5, WrittenBegins
  <2> QED BY <2>1, <2>2, <2>4, <2>6
<1>8. /\ Len(items) = 5
      /\ items[1] = <<"info", B.info>> /\ items[2] = <<"data_len", B.data_len>>
      /\ items[3] = <<"data", B.data>> /\ items[4] = <<"hash", B.hash>>
      /\ items[5] = <<"tx_size", TxSize(B)>>
  BY DEF BlockItems
<1>9. Follow(items, a)
  <2> HIDE DEF items, a
  <2> QED BY <1>5, <1>7, ItemsFound DEF a
<1> HIDE DEF items, a
<1>10. /\ Whole(pos) /\ file[pos] = <<"info", B.info>>
       /\ Whole(pos + 1) /\ file[pos + 1] = <<"data_len", B.data_len>>
       /\ Whole(pos + 2) /\ file[pos + 2] = <<"data", B.data>>
       /\ Whole(pos + 3) /\ file[pos + 3] = <<"hash", B.hash>>
       /\ Whole(pos + 4) /\ file[pos + 4] = <<"tx_size", TxSize(B)>>
       /\ pos + 5 = Len(a \o items) + 1
  <2>1. \A k \in 1..5 : Whole(pos + (k - 1)) /\ file[pos + (k - 1)] = items[k]
    BY <1>8, <1>9 DEF Follow
  <2>2. pos + 5 = Len(a \o items) + 1
    BY <1>8, <1>9 DEF Follow
  <2>3. /\ pos \in Nat
        /\ pos + (1 - 1) = pos /\ pos + (2 - 1) = pos + 1 /\ pos + (3 - 1) = pos + 2
        /\ pos + (4 - 1) = pos + 3 /\ pos + (5 - 1) = pos + 4
    <3>1. Len(a) \in Nat
      BY <1>7
    <3> QED BY <1>5, <3>1 DEF Behind, a
  <2>4. Whole(pos) /\ file[pos] = items[1]
    BY <2>1, <2>3
  <2>5. Whole(pos + 1) /\ file[pos + 1] = items[2]
    BY <2>1, <2>3
  <2>6. Whole(pos + 2) /\ file[pos + 2] = items[3]
    BY <2>1, <2>3
  <2>7. Whole(pos + 3) /\ file[pos + 3] = items[4]
    BY <2>1, <2>3
  <2>8. Whole(pos + 4) /\ file[pos + 4] = items[5]
    BY <2>1, <2>3
  <2> QED BY <1>8, <2>2, <2>4, <2>5, <2>6, <2>7, <2>8
<1>11. part = [chain |-> Firsts(ledger.chain, b - 1), unspent |-> <<>>]
  BY <1>5, <1>6
<1>12. pos + 5 = Len(AfterTransactions(ledger, b, 0)) + 1
  BY <1>7, <1>10
<1> HIDE DEF b
<1>13. BlockFound(ledger, b)
  BY <1>6, <1>10, <1>11, <1>12 DEF BlockFound
<1> QED BY <1>13

(* It then has the block without its transactions. *)
LEMMA BlockAgrees ==
  ASSUME NEW ledger \in Ledgers, FileOf(ledger), Agrees(ledger), LoadBlock
  PROVE  Agrees(ledger)'
<1>1. /\ pc = "load_block" /\ pos' = pos + 5 /\ pc' = "load_transaction"
      /\ head' = head /\ part' = part /\ Len(part.chain) < head.blocks
      /\ head = HeaderItem(ledger)[2]
  BY DEF LoadBlock, Reads, Agrees
<1>2. \E b : BlockFound(ledger, b)
  BY <1>1, BlockIsFound
<1>3. PICK b : BlockFound(ledger, b)
  BY <1>2
<1> DEFINE B == ledger.chain[b]
<1>4. /\ b \in 1..Len(ledger.chain)
      /\ part = [chain |-> Firsts(ledger.chain, b - 1), unspent |-> <<>>]
      /\ Whole(pos) /\ file[pos] = <<"info", B.info>>
      /\ Whole(pos + 1) /\ file[pos + 1] = <<"data_len", B.data_len>>
      /\ Whole(pos + 2) /\ file[pos + 2] = <<"data", B.data>>
      /\ Whole(pos + 3) /\ file[pos + 3] = <<"hash", B.hash>>
      /\ Whole(pos + 4) /\ file[pos + 4] = <<"tx_size", TxSize(B)>>
      /\ pos + 5 = Len(AfterTransactions(ledger, b, 0)) + 1
  BY <1>3 DEF BlockFound
<1>5. block' = [size |-> TxSize(B), info |-> B.info, data_len |-> B.data_len,
                data |-> B.data, hash |-> B.hash, list |-> <<>>]
  <2>1. /\ Content(pos) = B.info /\ Content(pos + 1) = B.data_len
        /\ Content(pos + 2) = B.data /\ Content(pos + 3) = B.hash
    BY <1>4 DEF Content
  <2>2. Count(pos + 4) = {TxSize(B)}
    BY <1>4 DEF Count
  <2> QED BY <2>1, <2>2 DEF LoadBlock
<1>6. AtTransactions(ledger)'
  <2>1. Firsts(B.transactions, 0) = <<>> /\ 0 \in 0..Len(B.transactions)
    <3>1. ListRead(B.transactions)
      BY <1>4, LedgerRead
    <3>2. Len(B.transactions) \in Nat
      BY <1>4, Lengths
    <3> QED BY <3>1, <3>2 DEF ListRead
  <2>2. BlockRead(ledger, b, 0)'
    BY <1>1, <1>4, <1>5, <2>1 DEF BlockRead
  <2>3. TransactionsRead(ledger, b, 0)'
    BY <1>1, <1>4, <2>2 DEF TransactionsRead, Behind
  <2> QED BY <1>4, <2>1, <2>3 DEF AtTransactions
<1> QED BY <1>1, <1>6 DEF Agrees

(* The items of a transaction, when the block has more of them. *)
TransactionFound(ledger, n, z) ==
    LET y == ledger.chain[n].transactions[z]
    IN  /\ n \in 1..Len(ledger.chain) /\ z \in 1..Len(ledger.chain[n].transactions)
        /\ BlockRead(ledger, n, z - 1)
        /\ Whole(pos) /\ file[pos] = <<"id", y.id>>
        /\ Whole(pos + 1) /\ file[pos + 1] = <<"tx_in", Len(y.inputs)>>
        /\ Whole(pos + 2) /\ file[pos + 2] = <<"tx_out", Len(y.outputs)>>
        /\ pos + 3 = Len(AfterInputs(ledger, n, z, 0)) + 1

(* While transactions are missing, load finds the next one. *)
LEMMA TransactionIsFound ==
  ASSUME NEW ledger \in Ledgers, FileOf(ledger), Agrees(ledger), pc = "load_transaction",
         Len(block.list) < block.size
  PROVE  \E n, z : TransactionFound(ledger, n, z)
<1>1. AtTransactions(ledger)
  BY DEF Agrees
<1>2. PICK n \in 1..Len(ledger.chain) :
           \E x \in 0..Len(ledger.chain[n].transactions) : TransactionsRead(ledger, n, x)
  BY <1>1 DEF AtTransactions
<1>3. PICK x \in 0..Len(ledger.chain[n].transactions) : TransactionsRead(ledger, n, x)
  BY <1>2
<1> DEFINE B == ledger.chain[n]
           N == Len(B.transactions)
           z == x + 1
           y == B.transactions[z]
           items == TransactionItems(y)
           a == AfterTransactions(ledger, n, x)
<1>4. N \in Nat /\ ListRead(B.transactions) /\ x \in 0..N
  <2>1. N \in Nat
    BY Lengths
  <2>2. ListRead(B.transactions)
    BY LedgerRead
  <2> QED BY <2>1, <2>2
<1>5. BlockRead(ledger, n, x) /\ Behind(a)
  BY <1>3 DEF TransactionsRead
<1>6. block.size = TxSize(B) /\ block.list = Firsts(B.transactions, x)
  BY <1>5 DEF BlockRead
<1>7. x < N
  <2>1. Len(block.list) = x
    BY <1>4, <1>6 DEF ListRead
  <2>2. TxSize(B) = -1 \/ TxSize(B) = N
    BY DEF TxSize
  <2> QED BY <1>4, <1>6, <2>1, <2>2
<1>8. z \in 1..N /\ z - 1 = x
  BY <1>4, <1>7
<1>9. /\ Len(y.inputs) \in Nat /\ Len(y.outputs) \in Nat
       /\ ListRead(y.inputs) /\ ListRead(y.outputs)
  <2> HIDE DEF z
  <2>1. Len(y.inputs) \in Nat /\ Len(y.outputs) \in Nat
    BY <1>8, Lengths
  <2>2. ListRead(y.inputs) /\ ListRead(y.outputs)
    BY <1>8, LedgerRead
  <2> QED BY <2>1, <2>2
<1>10. /\ a \in Seq(Item) /\ items \in Seq(Item)
      /\ AfterInputs(ledger, n, z, 0) = a \o items
      /\ Begins(a \o items, WholeFile(ledger), Item)
  <2>1. a \in Seq(Item)
    BY <1>4, BlockWritten DEF BlockTurns
  <2>2. items \in Seq(Item)
    BY <1>8, ItemsTyped
  <2>3. AfterInputs(ledger, n, z, 0) = AfterTransactions(ledger, n, z - 1) \o items
    BY <1>8, TransactionWritten DEF TransactionTurns
  <2>4. AfterInputs(ledger, n, z, 0) = a \o items
    BY <1>8, <2>3
  <2>5. 0 \in 0..Len(y.inputs)
    BY <1>9
  <2>6. Begins(AfterInputs(ledger, n, z, 0), WholeFile(ledger), Item)
    BY <1>8, <2>5, WrittenBegins
  <2> QED BY <2>1, <2>2, <2>4, <2>6
<1>11. /\ Len(items) = 3
       /\ items[1] = <<"id", y.id>> /\ items[2] = <<"tx_in", Len(y.inputs)>>
       /\ items[3] = <<"tx_out", Len(y.outputs)>>
  BY DEF TransactionItems
<1>12. Follow(items, a)
  <2> HIDE DEF items, a
  <2> QED BY <1>5, <1>10, ItemsFound
<1> HIDE DEF items, a
<1>13. /\ Whole(pos) /\ file[pos] = <<"id", y.id>>
       /\ Whole(pos + 1) /\ file[pos + 1] = <<"tx_in", Len(y.inputs)>>
       /\ Whole(pos + 2) /\ file[pos + 2] = <<"tx_out", Len(y.outputs)>>
       /\ pos + 3 = Len(a \o items) + 1
  <2>1. \A k \in 1..3 : Whole(pos + (k - 1)) /\ file[pos + (k - 1)] = items[k]
    BY <1>11, <1>12 DEF Follow
  <2>2. pos + 3 = Len(a \o items) + 1
    BY <1>11, <1>12 DEF Follow
  <2>3. /\ pos \in Nat
        /\ pos + (1 - 1) = pos /\ pos + (2 - 1) = pos + 1 /\ pos + (3 - 1) = pos + 2
    <3>1. Len(a) \in Nat
      BY <1>10
    <3> QED BY <1>5, <3>1 DEF Behind
  <2>4. Whole(pos) /\ file[pos] = items[1]
    BY <2>1, <2>3
  <2>5. Whole(pos + 1) /\ file[pos + 1] = items[2]
    BY <2>1, <2>3
  <2>6. Whole(pos + 2) /\ file[pos + 2] = items[3]
    BY <2>1, <2>3
  <2> QED BY <1>11, <2>2, <2>4, <2>5, <2>6
<1>14. BlockRead(ledger, n, z - 1) /\ pos + 3 = Len(AfterInputs(ledger, n, z, 0)) + 1
  BY <1>5, <1>8, <1>10, <1>13
<1> HIDE DEF z
<1>15. TransactionFound(ledger, n, z)
  BY <1>8, <1>13, <1>14 DEF TransactionFound
<1> QED BY <1>15

(* It then has the transaction without its inputs and outputs. *)
LEMMA TransactionAgrees ==
  ASSUME NEW ledger \in Ledgers, FileOf(ledger), Agrees(ledger), LoadTransaction
  PROVE  Agrees(ledger)'
<1>1. /\ pc = "load_transaction" /\ pos' = pos + 3 /\ pc' = "load_lists"
      /\ head' = head /\ part' = part /\ block' = block /\ Len(block.list) < block.size
      /\ head = HeaderItem(ledger)[2]
  BY DEF LoadTransaction, Reads, Agrees
<1>2. \E n, z : TransactionFound(ledger, n, z)
  BY <1>1, TransactionIsFound
<1>3. PICK n, z : TransactionFound(ledger, n, z)
  BY <1>2
<1> DEFINE y == ledger.chain[n].transactions[z]
<1>4. /\ n \in 1..Len(ledger.chain) /\ z \in 1..Len(ledger.chain[n].transactions)
      /\ BlockRead(ledger, n, z - 1)
      /\ Whole(pos) /\ file[pos] = <<"id", y.id>>
      /\ Whole(pos + 1) /\ file[pos + 1] = <<"tx_in", Len(y.inputs)>>
      /\ Whole(pos + 2) /\ file[pos + 2] = <<"tx_out", Len(y.outputs)>>
      /\ pos + 3 = Len(AfterInputs(ledger, n, z, 0)) + 1
  BY <1>3 DEF TransactionFound
<1>5. tx' = [ins |-> Len(y.inputs), outs |-> Len(y.outputs), id |-> y.id,
             inputs |-> <<>>, outputs |-> <<>>]
  <2>1. Content(pos) = y.id
    BY <1>4 DEF Content
  <2>2. Count(pos + 1) = {Len(y.inputs)} /\ Count(pos + 2) = {Len(y.outputs)}
    BY <1>4 DEF Count
  <2> QED BY <2>1, <2>2 DEF LoadTransaction
<1>6. AtLists(ledger)'
  <2>1. /\ Firsts(y.inputs, 0) = <<>> /\ Firsts(y.outputs, 0) = <<>>
        /\ 0 \in 0..Len(y.inputs) /\ 0 \in 0..Len(y.outputs)
    <3>1. ListRead(y.inputs) /\ ListRead(y.outputs)
      BY <1>4, LedgerRead
    <3>2. Len(y.inputs) \in Nat /\ Len(y.outputs) \in Nat
      BY <1>4, Lengths
    <3> HIDE DEF y
    <3> QED BY <3>1, <3>2 DEF ListRead
  <2>2. BlockRead(ledger, n, z - 1)'
    BY <1>1, <1>4 DEF BlockRead
  <2>3. ListsRead(ledger, n, z, 0, 0)'
    BY <1>1, <1>4, <1>5, <2>1, <2>2 DEF ListsRead, Behind
  <2> QED BY <1>4, <2>1, <2>3 DEF AtLists
<1> QED BY <1>1, <1>6 DEF Agrees

(* Where a load is in the lists of a transaction. *)
ListsAt(ledger, n, x, k, l) ==
    /\ n \in 1..Len(ledger.chain) /\ x \in 1..Len(ledger.chain[n].transactions)
    /\ k \in 0..Len(ledger.chain[n].transactions[x].inputs)
    /\ l \in 0..Len(ledger.chain[n].transactions[x].outputs)
    /\ Len(ledger.chain[n].transactions[x].inputs) \in Nat
    /\ Len(ledger.chain[n].transactions[x].outputs) \in Nat
    /\ ListsRead(ledger, n, x, k, l)
    /\ tx.ins = Len(ledger.chain[n].transactions[x].inputs)
    /\ tx.outs = Len(ledger.chain[n].transactions[x].outputs)
    /\ Len(tx.inputs) = k /\ Len(tx.outputs) = l

(* Where load is in the inputs and outputs. *)
LEMMA ListsPlace ==
  ASSUME NEW ledger \in Ledgers, Agrees(ledger), pc = "load_lists"
  PROVE  /\ head = HeaderItem(ledger)[2]
         /\ \E n, x, k, l : ListsAt(ledger, n, x, k, l)
<1>1. head = HeaderItem(ledger)[2] /\ AtLists(ledger)
  BY DEF Agrees
<1>2. PICK n \in 1..Len(ledger.chain) :
           \E x \in 1..Len(ledger.chain[n].transactions) :
              LET y == ledger.chain[n].transactions[x]
              IN  \E k \in 0..Len(y.inputs), l \in 0..Len(y.outputs) : ListsRead(ledger, n, x, k, l)
  BY <1>1 DEF AtLists
<1>3. PICK x \in 1..Len(ledger.chain[n].transactions) :
           LET y == ledger.chain[n].transactions[x]
           IN  \E k \in 0..Len(y.inputs), l \in 0..Len(y.outputs) : ListsRead(ledger, n, x, k, l)
  BY <1>2
<1> DEFINE y == ledger.chain[n].transactions[x]
<1>4. PICK k \in 0..Len(y.inputs), l \in 0..Len(y.outputs) : ListsRead(ledger, n, x, k, l)
  BY <1>3
<1>5. /\ Len(y.inputs) \in Nat /\ Len(y.outputs) \in Nat
      /\ ListRead(y.inputs) /\ ListRead(y.outputs)
  BY Lengths, LedgerRead
<1>6. /\ tx.ins = Len(y.inputs) /\ tx.outs = Len(y.outputs)
      /\ tx.inputs = Firsts(y.inputs, k) /\ tx.outputs = Firsts(y.outputs, l)
  BY <1>4 DEF ListsRead
<1>7. Len(tx.inputs) = k /\ Len(tx.outputs) = l
  BY <1>5, <1>6 DEF ListRead
<1>8. ListsAt(ledger, n, x, k, l)
  BY <1>4, <1>5, <1>6, <1>7 DEF ListsAt
<1> QED BY <1>1, <1>8

(* One input more. *)
LEMMA InputAgrees ==
  ASSUME NEW ledger \in Ledgers, FileOf(ledger), Agrees(ledger), LoadInput
  PROVE  Agrees(ledger)'
<1>1. /\ pc = "load_lists" /\ pos' = pos + 1 /\ pc' = "load_lists"
      /\ head' = head /\ part' = part /\ block' = block /\ Len(tx.inputs) < tx.ins
      /\ tx' = [tx EXCEPT !.inputs = Append(@, Content(pos))]
  BY DEF LoadInput, Reads
<1>2. head = HeaderItem(ledger)[2] /\ \E n, x, k, l : ListsAt(ledger, n, x, k, l)
  BY <1>1, ListsPlace
<1>3. PICK n, x, k, l : ListsAt(ledger, n, x, k, l)
  BY <1>2
<1> DEFINE y == ledger.chain[n].transactions[x]
           m == k + 1
           item == InputItem(y.inputs[m])
           a == AfterInputs(ledger, n, x, k)
<1>4. /\ n \in 1..Len(ledger.chain) /\ x \in 1..Len(ledger.chain[n].transactions)
      /\ k \in 0..Len(y.inputs) /\ l \in 0..Len(y.outputs)
      /\ Len(y.inputs) \in Nat /\ Len(y.outputs) \in Nat
      /\ ListsRead(ledger, n, x, k, l)
      /\ tx.ins = Len(y.inputs) /\ Len(tx.inputs) = k
  BY <1>3 DEF ListsAt
<1>5. k < Len(y.inputs) /\ m \in 1..Len(y.inputs) /\ m - 1 = k
  BY SMTT(30), <1>1, <1>4
<1>6. /\ BlockRead(ledger, n, x - 1)
      /\ tx = [ins |-> Len(y.inputs), outs |-> Len(y.outputs), id |-> y.id,
               inputs |-> Firsts(y.inputs, k), outputs |-> Firsts(y.outputs, l)]
      /\ l = 0 /\ Behind(a)
  BY <1>4, <1>5 DEF ListsRead
<1>7. /\ a \in Seq(Item) /\ item \in Item
      /\ AfterInputs(ledger, n, x, m) = a \o <<item>>
      /\ Begins(a \o <<item>>, WholeFile(ledger), Item)
  <2> HIDE DEF m
  <2>1. item \in Item
    BY <1>4, <1>5, ItemsTyped
  <2>2. a \in Seq(Item) /\ AfterInputs(ledger, n, x, m) = AfterInputs(ledger, n, x, m - 1) \o <<item>>
    BY <1>4, <1>5, TransactionWritten DEF TransactionTurns
  <2>3. Begins(AfterInputs(ledger, n, x, m), WholeFile(ledger), Item)
    <3>1. m \in 0..Len(y.inputs)
      BY <1>5
    <3> QED BY <1>4, <3>1, WrittenBegins
  <2> QED BY <1>5, <2>1, <2>2, <2>3
<1>8. Whole(pos) /\ file[pos] = item /\ pos + 1 = Len(AfterInputs(ledger, n, x, m)) + 1
  <2> HIDE DEF item, a, m
  <2>1. <<item>> \in Seq(Item) /\ Len(<<item>>) = 1 /\ <<item>>[1] = item
    BY <1>7
  <2>2. Follow(<<item>>, a)
    BY <1>6, <1>7, <2>1, ItemsFound
  <2>3. pos \in Nat /\ pos + (1 - 1) = pos
    <3>1. Len(a) \in Nat
      BY <1>7
    <3> QED BY <1>6, <3>1 DEF Behind
  <2>4. 1 \in 1..Len(<<item>>)
    BY <2>1
  <2>5. Whole(pos + (1 - 1)) /\ file[pos + (1 - 1)] = <<item>>[1]
    BY <2>2, <2>4 DEF Follow
  <2>6. pos + 1 = Len(a \o <<item>>) + 1
    BY <2>1, <2>2 DEF Follow
  <2> QED BY <1>7, <2>1, <2>3, <2>5, <2>6
<1>9. tx' = [ins |-> Len(y.inputs), outs |-> Len(y.outputs), id |-> y.id,
             inputs |-> Firsts(y.inputs, m), outputs |-> Firsts(y.outputs, l)]
  <2>1. Content(pos) = y.inputs[m]
    BY <1>8 DEF Content, InputItem
  <2>2. Append(Firsts(y.inputs, k), y.inputs[m]) = Firsts(y.inputs, m)
    <3>1. ListRead(y.inputs)
      BY <1>4, LedgerRead
    <3> HIDE DEF y, m
    <3> QED BY <1>5, <3>1 DEF ListRead
  <2> HIDE DEF y, m
  <2> QED BY <1>1, <1>6, <2>1, <2>2
<1>10. AtLists(ledger)'
  <2>1. BlockRead(ledger, n, x - 1)'
    BY <1>1, <1>6 DEF BlockRead
  <2>2. Behind(AfterInputs(ledger, n, x, m))'
    BY <1>1, <1>8 DEF Behind
  <2>3. ListsRead(ledger, n, x, m, l)'
    BY <1>6, <1>9, <2>1, <2>2 DEF ListsRead
  <2>4. m \in 0..Len(y.inputs)
    BY <1>5
  <2> HIDE DEF m
  <2> QED BY <1>4, <2>3, <2>4 DEF AtLists
<1> QED BY <1>1, <1>2, <1>10 DEF Agrees

(* One output more. *)
LEMMA OutputAgrees ==
  ASSUME NEW ledger \in Ledgers, FileOf(ledger), Agrees(ledger), LoadOutput
  PROVE  Agrees(ledger)'
<1>1. /\ pc = "load_lists" /\ pos' = pos + 1 /\ pc' = "load_lists"
      /\ head' = head /\ part' = part /\ block' = block
      /\ Len(tx.inputs) >= tx.ins /\ Len(tx.outputs) < tx.outs
      /\ tx' = [tx EXCEPT !.outputs = Append(@, Content(pos))]
  BY DEF LoadOutput, Reads
<1>2. head = HeaderItem(ledger)[2] /\ \E n, x, k, l : ListsAt(ledger, n, x, k, l)
  BY <1>1, ListsPlace
<1>3. PICK n, x, k, l : ListsAt(ledger, n, x, k, l)
  BY <1>2
<1> DEFINE y == ledger.chain[n].transactions[x]
           m == l + 1
           item == OutputItem(y.outputs[m])
           a == AfterOutputs(ledger, n, x, l)
<1>4. /\ n \in 1..Len(ledger.chain) /\ x \in 1..Len(ledger.chain[n].transactions)
      /\ k \in 0..Len(y.inputs) /\ l \in 0..Len(y.outputs)
      /\ Len(y.inputs) \in Nat /\ Len(y.outputs) \in Nat
      /\ ListsRead(ledger, n, x, k, l)
      /\ tx.ins = Len(y.inputs) /\ Len(tx.inputs) = k
      /\ tx.outs = Len(y.outputs) /\ Len(tx.outputs) = l
  BY <1>3 DEF ListsAt
<1>5. k = Len(y.inputs) /\ l < Len(y.outputs) /\ m \in 1..Len(y.outputs) /\ m - 1 = l
  <2>1. k = Len(y.inputs)
    BY <1>1, <1>4
  <2>2. l < Len(y.outputs) /\ l \in Nat
    BY <1>1, <1>4
  <2> HIDE DEF y
  <2> QED BY <1>4, <2>1, <2>2
<1>6. /\ BlockRead(ledger, n, x - 1)
      /\ tx = [ins |-> Len(y.inputs), outs |-> Len(y.outputs), id |-> y.id,
               inputs |-> Firsts(y.inputs, k), outputs |-> Firsts(y.outputs, l)]
      /\ Behind(a)
  <2>1. AfterOutputs(ledger, n, x, 0) = AfterInputs(ledger, n, x, Len(y.inputs))
    BY <1>4, TransactionWritten DEF TransactionTurns
  <2>2. CASE l = 0 /\ Behind(AfterInputs(ledger, n, x, k))
    BY <1>4, <1>5, <2>1, <2>2 DEF ListsRead
  <2>3. CASE Behind(a)
    BY <1>4, <2>3 DEF ListsRead
  <2> QED BY <1>4, <2>2, <2>3 DEF ListsRead
<1>7. /\ a \in Seq(Item) /\ item \in Item
      /\ AfterOutputs(ledger, n, x, m) = a \o <<item>>
      /\ Begins(a \o <<item>>, WholeFile(ledger), Item)
  <2> HIDE DEF m
  <2>1. item \in Item
    BY <1>4, <1>5, ItemsTyped
  <2>2. a \in Seq(Item) /\ AfterOutputs(ledger, n, x, m) = AfterOutputs(ledger, n, x, m - 1) \o <<item>>
    BY <1>4, <1>5, TransactionWritten DEF TransactionTurns
  <2>3. Begins(AfterOutputs(ledger, n, x, m), WholeFile(ledger), Item)
    <3>1. m \in 0..Len(y.outputs)
      BY <1>5
    <3> QED BY <1>4, <3>1, WrittenBegins
  <2> QED BY <1>5, <2>1, <2>2, <2>3
<1>8. Whole(pos) /\ file[pos] = item /\ pos + 1 = Len(AfterOutputs(ledger, n, x, m)) + 1
  <2> HIDE DEF item, a, m
  <2>1. <<item>> \in Seq(Item) /\ Len(<<item>>) = 1 /\ <<item>>[1] = item
    BY <1>7
  <2>2. Follow(<<item>>, a)
    BY <1>6, <1>7, <2>1, ItemsFound
  <2>3. pos \in Nat /\ pos + (1 - 1) = pos
    <3>1. Len(a) \in Nat
      BY <1>7
    <3> QED BY <1>6, <3>1 DEF Behind
  <2>4. 1 \in 1..Len(<<item>>)
    BY <2>1
  <2>5. Whole(pos + (1 - 1)) /\ file[pos + (1 - 1)] = <<item>>[1]
    BY <2>2, <2>4 DEF Follow
  <2>6. pos + 1 = Len(a \o <<item>>) + 1
    BY <2>1, <2>2 DEF Follow
  <2> QED BY <1>7, <2>1, <2>3, <2>5, <2>6
<1>9. tx' = [ins |-> Len(y.inputs), outs |-> Len(y.outputs), id |-> y.id,
             inputs |-> Firsts(y.inputs, k), outputs |-> Firsts(y.outputs, m)]
  <2>1. Content(pos) = y.outputs[m]
    BY <1>8 DEF Content, OutputItem
  <2>2. Append(Firsts(y.outputs, l), y.outputs[m]) = Firsts(y.outputs, m)
    <3>1. ListRead(y.outputs)
      BY <1>4, LedgerRead
    <3> HIDE DEF y, m
    <3> QED BY <1>5, <3>1 DEF ListRead
  <2> HIDE DEF y, m
  <2> QED BY <1>1, <1>6, <2>1, <2>2
<1>10. AtLists(ledger)'
  <2>1. BlockRead(ledger, n, x - 1)'
    BY <1>1, <1>6 DEF BlockRead
  <2>2. Behind(AfterOutputs(ledger, n, x, m))'
    BY <1>1, <1>8 DEF Behind
  <2>3. ListsRead(ledger, n, x, k, m)'
    BY <1>5, <1>9, <2>1, <2>2 DEF ListsRead
  <2>4. m \in 0..Len(y.outputs)
    BY <1>5
  <2> HIDE DEF m
  <2> QED BY <1>4, <2>3, <2>4 DEF AtLists
<1> QED BY <1>1, <1>2, <1>10 DEF Agrees

(* The transaction is complete. *)
LEMMA AddedTransactionAgrees ==
  ASSUME NEW ledger \in Ledgers, FileOf(ledger), Agrees(ledger), AddTransaction
  PROVE  Agrees(ledger)'
<1>1. /\ pc = "load_lists" /\ pos' = pos /\ pc' = "load_transaction"
      /\ head' = head /\ part' = part
      /\ Len(tx.inputs) >= tx.ins /\ Len(tx.outputs) >= tx.outs
      /\ block' = [block EXCEPT !.list =
                     Append(@, [id |-> tx.id, inputs |-> tx.inputs, outputs |-> tx.outputs])]
  BY DEF AddTransaction, Reads
<1>2. head = HeaderItem(ledger)[2] /\ \E n, x, k, l : ListsAt(ledger, n, x, k, l)
  BY <1>1, ListsPlace
<1>3. PICK n, x, k, l : ListsAt(ledger, n, x, k, l)
  BY <1>2
<1> DEFINE B == ledger.chain[n]
           y == B.transactions[x]
<1>4. /\ n \in 1..Len(ledger.chain) /\ x \in 1..Len(B.transactions)
      /\ k \in 0..Len(y.inputs) /\ l \in 0..Len(y.outputs)
      /\ Len(y.inputs) \in Nat /\ Len(y.outputs) \in Nat
      /\ ListsRead(ledger, n, x, k, l)
      /\ tx.ins = Len(y.inputs) /\ Len(tx.inputs) = k
      /\ tx.outs = Len(y.outputs) /\ Len(tx.outputs) = l
  BY <1>3 DEF ListsAt
<1>5. k = Len(y.inputs) /\ l = Len(y.outputs)
  <2> HIDE DEF y
  <2>1. k = Len(y.inputs)
    BY <1>1, <1>4
  <2>2. l = Len(y.outputs)
    BY <1>1, <1>4
  <2> QED BY <2>1, <2>2
<1>6. /\ BlockRead(ledger, n, x - 1)
      /\ tx = [ins |-> Len(y.inputs), outs |-> Len(y.outputs), id |-> y.id,
               inputs |-> Firsts(y.inputs, k), outputs |-> Firsts(y.outputs, l)]
      /\ \/ l = 0 /\ Behind(AfterInputs(ledger, n, x, k))
         \/ Behind(AfterOutputs(ledger, n, x, l))
  BY <1>4 DEF ListsRead
<1>7. Behind(AfterTransactions(ledger, n, x))
  <2>1. /\ AfterOutputs(ledger, n, x, 0) = AfterInputs(ledger, n, x, Len(y.inputs))
        /\ AfterTransactions(ledger, n, x) = AfterOutputs(ledger, n, x, Len(y.outputs))
    BY <1>4, TransactionWritten DEF TransactionTurns
  <2> QED BY <1>5, <1>6, <2>1
<1>8. [id |-> tx.id, inputs |-> tx.inputs, outputs |-> tx.outputs] = y
  <2>1. ListRead(y.inputs) /\ ListRead(y.outputs)
    BY <1>4, LedgerRead
  <2>2. tx.inputs = y.inputs /\ tx.outputs = y.outputs /\ tx.id = y.id
    BY <1>5, <1>6, <2>1 DEF ListRead
  <2>3. IsTransaction(y)
    BY <1>4, PersistenceAssumption DEF IsLedger, IsBlock
  <2>4. y = [id |-> y.id, inputs |-> y.inputs, outputs |-> y.outputs]
    BY <2>3 DEF IsTransaction
  <2> QED BY <2>2, <2>4
<1>9. block' = [size |-> TxSize(B), info |-> B.info, data_len |-> B.data_len,
                data |-> B.data, hash |-> B.hash, list |-> Firsts(B.transactions, x)]
  <2>1. Append(Firsts(B.transactions, x - 1), y) = Firsts(B.transactions, x)
    <3>1. ListRead(B.transactions)
      BY <1>4, LedgerRead
    <3> HIDE DEF B
    <3> QED BY <1>4, <3>1 DEF ListRead
  <2>2. block = [size |-> TxSize(B), info |-> B.info, data_len |-> B.data_len,
                 data |-> B.data, hash |-> B.hash, list |-> Firsts(B.transactions, x - 1)]
    BY <1>6 DEF BlockRead
  <2>3. block' = [block EXCEPT !.list = Append(@, y)]
    BY <1>1, <1>8
  <2> HIDE DEF B, y
  <2> QED BY <2>1, <2>2, <2>3
<1>10. AtTransactions(ledger)'
  <2>1. part' = [chain |-> Firsts(ledger.chain, n - 1), unspent |-> <<>>]
    BY <1>1, <1>6 DEF BlockRead
  <2>2. BlockRead(ledger, n, x)'
    BY <1>9, <2>1 DEF BlockRead
  <2>3. TransactionsRead(ledger, n, x)'
    BY <1>1, <1>7, <2>2 DEF TransactionsRead, Behind
  <2>4. Len(B.transactions) \in Nat /\ x \in 0..Len(B.transactions)
    BY <1>4, Lengths
  <2> QED BY <1>4, <2>3, <2>4 DEF AtTransactions
<1> QED BY <1>1, <1>2, <1>10 DEF Agrees

(* The block is complete. *)
LEMMA AddedBlockAgrees ==
  ASSUME NEW ledger \in Ledgers, FileOf(ledger), Agrees(ledger), AddBlock
  PROVE  Agrees(ledger)'
<1>1. /\ pc = "load_transaction" /\ pos' = pos /\ pc' = "load_block" /\ head' = head
      /\ Len(block.list) >= block.size
      /\ part' = [part EXCEPT !.chain = Append(@, LoadedBlock)]
      /\ head = HeaderItem(ledger)[2] /\ AtTransactions(ledger)
  BY DEF AddBlock, Reads, Agrees
<1>2. PICK n \in 1..Len(ledger.chain) :
           \E x \in 0..Len(ledger.chain[n].transactions) : TransactionsRead(ledger, n, x)
  BY <1>1 DEF AtTransactions
<1>3. PICK x \in 0..Len(ledger.chain[n].transactions) : TransactionsRead(ledger, n, x)
  BY <1>2
<1> DEFINE B == ledger.chain[n]
           N == Len(B.transactions)
<1>4. N \in Nat /\ ListRead(B.transactions) /\ x \in 0..N /\ IsBlock(B)
  <2>1. N \in Nat
    BY Lengths
  <2>2. ListRead(B.transactions)
    BY LedgerRead
  <2>3. IsBlock(B)
    BY PersistenceAssumption DEF IsLedger
  <2> QED BY <2>1, <2>2, <2>3
<1>5. /\ part = [chain |-> Firsts(ledger.chain, n - 1), unspent |-> <<>>]
      /\ block = [size |-> TxSize(B), info |-> B.info, data_len |-> B.data_len,
                  data |-> B.data, hash |-> B.hash, list |-> Firsts(B.transactions, x)]
      /\ Behind(AfterTransactions(ledger, n, x))
  BY <1>3 DEF TransactionsRead, BlockRead
<1> HIDE DEF B, N
<1>6. /\ TxSize(B) = IF B.listed THEN N ELSE -1
      /\ ~B.listed => N = 0
  <2>1. /\ B.listed \in BOOLEAN /\ (B.info.index = 0 => ~B.listed)
        /\ ~B.listed => B.transactions = <<>>
    BY <1>4 DEF IsBlock
  <2> QED BY <2>1 DEF TxSize, N
<1>7. x = N
  <2>1. Len(block.list) = x
    <3>1. block.list = Firsts(B.transactions, x)
      BY <1>5
    <3> QED BY <1>4, <3>1 DEF ListRead, N
  <2>2. block.size = TxSize(B)
    BY <1>5
  <2> QED BY <1>1, <1>4, <1>6, <2>1, <2>2
<1>8. LoadedBlock = B
  <2>1. block.list = B.transactions
    <3>1. block.list = Firsts(B.transactions, N)
      BY <1>5, <1>7
    <3> QED BY <1>4, <3>1 DEF ListRead, N
  <2>2. (block.size # -1) = B.listed
    <3>1. block.size = TxSize(B)
      BY <1>5
    <3>2. B.listed \in BOOLEAN
      BY <1>4 DEF IsBlock
    <3>3. N # -1
      BY <1>4
    <3> QED BY <1>6, <3>1, <3>2, <3>3
  <2>3. /\ block.info = B.info /\ block.data_len = B.data_len
        /\ block.data = B.data /\ block.hash = B.hash
    BY <1>5
  <2>4. B = [info |-> B.info, data_len |-> B.data_len, data |-> B.data, hash |-> B.hash,
             listed |-> B.listed, transactions |-> B.transactions]
    BY <1>4 DEF IsBlock
  <2>5. LoadedBlock
          = [info |-> B.info, data_len |-> B.data_len, data |-> B.data, hash |-> B.hash,
             listed |-> B.listed, transactions |-> B.transactions]
    BY <2>1, <2>2, <2>3 DEF LoadedBlock
  <2> QED BY <2>4, <2>5
<1>9. AtBlocks(ledger)'
  <2>1. Append(Firsts(ledger.chain, n - 1), B) = Firsts(ledger.chain, n)
    BY LedgerRead DEF ListRead, B
  <2>2. Firsts(ledger.unspent, 0) = <<>>
    BY LedgerRead DEF ListRead
  <2>3. part' = [chain |-> Firsts(ledger.chain, n), unspent |-> Firsts(ledger.unspent, 0)]
    BY <1>1, <1>5, <1>8, <2>1, <2>2
  <2>4. AfterBlocks(ledger, n) = AfterTransactions(ledger, n, x)
    BY <1>7, BlockWritten DEF BlockTurns, B, N
  <2>5. BlocksRead(ledger, n, 0)'
    BY <1>1, <1>5, <2>3, <2>4 DEF BlocksRead, Behind
  <2>6. n \in 0..Len(ledger.chain) /\ 0 \in 0..Len(ledger.unspent)
    BY Lengths
  <2> QED BY <2>5, <2>6 DEF AtBlocks
<1> QED BY <1>1, <1>9 DEF Agrees

(* Where a load is when it has all the blocks. *)
LEMMA UnspentPlace ==
  ASSUME NEW ledger \in Ledgers, Agrees(ledger), pc = "load_block",
         Len(part.chain) >= head.blocks
  PROVE  /\ head = HeaderItem(ledger)[2]
         /\ \E m \in 0..Len(ledger.unspent) :
               /\ part = [chain |-> ledger.chain, unspent |-> Firsts(ledger.unspent, m)]
               /\ Behind(AfterUnspent(ledger, m))
               /\ Len(part.unspent) = m /\ head.unspent = Len(ledger.unspent)
<1>1. head = HeaderItem(ledger)[2] /\ AtBlocks(ledger)
  BY DEF Agrees
<1>2. PICK n \in 0..Len(ledger.chain), m \in 0..Len(ledger.unspent) : BlocksRead(ledger, n, m)
  BY <1>1 DEF AtBlocks
<1>3. /\ head.blocks = Len(ledger.chain) /\ head.unspent = Len(ledger.unspent)
      /\ Len(ledger.chain) \in Nat /\ Len(ledger.unspent) \in Nat
  BY <1>1, Lengths DEF HeaderItem
<1>4. /\ part = [chain |-> Firsts(ledger.chain, n), unspent |-> Firsts(ledger.unspent, m)]
      /\ \/ m = 0 /\ Behind(AfterBlocks(ledger, n))
         \/ Behind(AfterUnspent(ledger, m))
  BY <1>2 DEF BlocksRead
<1>5. ListRead(ledger.chain) /\ ListRead(ledger.unspent)
  BY LedgerRead
<1>6. n = Len(ledger.chain) /\ Len(part.unspent) = m
  <2>1. part.chain = Firsts(ledger.chain, n) /\ part.unspent = Firsts(ledger.unspent, m)
    BY <1>4
  <2>2. Len(part.chain) = n /\ Len(part.unspent) = m
    BY <1>5, <2>1 DEF ListRead
  <2> QED BY <1>3, <2>2
<1>7. Firsts(ledger.chain, n) = ledger.chain
  BY <1>5, <1>6 DEF ListRead
<1>8. AfterUnspent(ledger, 0) = AfterBlocks(ledger, n)
  BY <1>6, UnspentWritten DEF LedgerTurns
<1>9. Behind(AfterUnspent(ledger, m))
  BY <1>4, <1>8
<1> QED BY <1>1, <1>3, <1>4, <1>6, <1>7, <1>9

(* One unspent output more. *)
LEMMA UnspentAgrees ==
  ASSUME NEW ledger \in Ledgers, FileOf(ledger), Agrees(ledger), LoadUnspent
  PROVE  Agrees(ledger)'
<1>1. /\ pc = "load_block" /\ pos' = pos + 1 /\ pc' = "load_block" /\ head' = head
      /\ Len(part.chain) >= head.blocks /\ Len(part.unspent) < head.unspent
      /\ part' = [part EXCEPT !.unspent = Append(@, Content(pos))]
  BY DEF LoadUnspent, Reads
<1>2. /\ head = HeaderItem(ledger)[2]
      /\ \E m \in 0..Len(ledger.unspent) :
            /\ part = [chain |-> ledger.chain, unspent |-> Firsts(ledger.unspent, m)]
            /\ Behind(AfterUnspent(ledger, m))
            /\ Len(part.unspent) = m /\ head.unspent = Len(ledger.unspent)
  BY <1>1, UnspentPlace
<1>3. PICK m \in 0..Len(ledger.unspent) :
            /\ part = [chain |-> ledger.chain, unspent |-> Firsts(ledger.unspent, m)]
            /\ Behind(AfterUnspent(ledger, m))
            /\ Len(part.unspent) = m /\ head.unspent = Len(ledger.unspent)
  BY <1>2
<1> DEFINE l == m + 1
           item == UnspentItem(ledger.unspent[l])
           a == AfterUnspent(ledger, m)
<1>4. Len(ledger.chain) \in Nat /\ Len(ledger.unspent) \in Nat
  BY Lengths
<1>5. m < Len(ledger.unspent) /\ l \in 1..Len(ledger.unspent) /\ l - 1 = m
  <2>1. m < Len(ledger.unspent)
    BY <1>1, <1>3
  <2> QED BY <1>4, <2>1
<1>6. /\ a \in Seq(Item) /\ item \in Item
      /\ AfterUnspent(ledger, l) = a \o <<item>>
      /\ Begins(a \o <<item>>, WholeFile(ledger), Item)
  <2> HIDE DEF l
  <2>1. item \in Item
    BY <1>5, ItemsTyped
  <2>2. a \in Seq(Item) /\ AfterUnspent(ledger, l) = AfterUnspent(ledger, l - 1) \o <<item>>
    BY <1>5, UnspentWritten DEF LedgerTurns
  <2>3. Begins(AfterUnspent(ledger, l), WholeFile(ledger), Item)
    <3>1. l \in 0..Len(ledger.unspent)
      BY <1>5
    <3> QED BY <3>1, UnspentWritten DEF LedgerTurns
  <2> QED BY <1>5, <2>1, <2>2, <2>3
<1>7. Whole(pos) /\ file[pos] = item /\ pos + 1 = Len(AfterUnspent(ledger, l)) + 1
  <2>1. Behind(a)
    BY <1>3
  <2> HIDE DEF item, a, l
  <2>2. <<item>> \in Seq(Item) /\ Len(<<item>>) = 1 /\ <<item>>[1] = item
    BY <1>6
  <2>3. Follow(<<item>>, a)
    BY <1>6, <2>1, <2>2, ItemsFound
  <2>4. pos \in Nat /\ pos + (1 - 1) = pos
    <3>1. Len(a) \in Nat
      BY <1>6
    <3> QED BY <2>1, <3>1 DEF Behind
  <2>5. 1 \in 1..Len(<<item>>)
    BY <2>2
  <2>6. Whole(pos + (1 - 1)) /\ file[pos + (1 - 1)] = <<item>>[1]
    BY <2>3, <2>5 DEF Follow
  <2>7. pos + 1 = Len(a \o <<item>>) + 1
    BY <2>2, <2>3 DEF Follow
  <2> QED BY <1>6, <2>2, <2>4, <2>6, <2>7
<1>8. part' = [chain |-> ledger.chain, unspent |-> Firsts(ledger.unspent, l)]
  <2>1. Content(pos) = ledger.unspent[l]
    BY <1>7 DEF Content, UnspentItem
  <2>2. Append(Firsts(ledger.unspent, m), ledger.unspent[l]) = Firsts(ledger.unspent, l)
    <3>1. ListRead(ledger.unspent)
      BY LedgerRead
    <3> HIDE DEF l
    <3> QED BY <1>5, <3>1 DEF ListRead
  <2> HIDE DEF l
  <2> QED BY <1>1, <1>3, <2>1, <2>2
<1>9. AtBlocks(ledger)'
  <2> HIDE DEF l
  <2>1. Firsts(ledger.chain, Len(ledger.chain)) = ledger.chain
    BY LedgerRead DEF ListRead
  <2>2. Behind(AfterUnspent(ledger, l))'
    BY <1>1, <1>7 DEF Behind
  <2>3. BlocksRead(ledger, Len(ledger.chain), l)'
    BY <1>8, <2>1, <2>2 DEF BlocksRead
  <2>4. Len(ledger.chain) \in 0..Len(ledger.chain) /\ l \in 0..Len(ledger.unspent)
    BY <1>4, <1>5
  <2> QED BY <2>3, <2>4 DEF AtBlocks
<1> QED BY <1>1, <1>2, <1>9 DEF Agrees

(* A load that returns has the ledger of the file. *)
LEMMA LoadedIsLedger ==
  ASSUME NEW ledger \in Ledgers, FileOf(ledger), Agrees(ledger), LoadReturns
  PROVE  memory' = ledger
<1>1. /\ pc = "load_block" /\ memory' = part
      /\ Len(part.chain) >= head.blocks /\ Len(part.unspent) >= head.unspent
  BY DEF LoadReturns
<1>2. /\ head = HeaderItem(ledger)[2]
      /\ \E m \in 0..Len(ledger.unspent) :
            /\ part = [chain |-> ledger.chain, unspent |-> Firsts(ledger.unspent, m)]
            /\ Behind(AfterUnspent(ledger, m))
            /\ Len(part.unspent) = m /\ head.unspent = Len(ledger.unspent)
  BY <1>1, UnspentPlace
<1>3. PICK m \in 0..Len(ledger.unspent) :
            /\ part = [chain |-> ledger.chain, unspent |-> Firsts(ledger.unspent, m)]
            /\ Len(part.unspent) = m /\ head.unspent = Len(ledger.unspent)
  BY <1>2
<1>4. m = Len(ledger.unspent)
  <2>1. Len(ledger.unspent) \in Nat
    BY Lengths
  <2>2. m >= Len(ledger.unspent)
    BY <1>1, <1>3
  <2> QED BY <2>1, <2>2
<1>5. Firsts(ledger.unspent, Len(ledger.unspent)) = ledger.unspent
  BY LedgerRead DEF ListRead
<1>6. ledger = [chain |-> ledger.chain, unspent |-> ledger.unspent]
  BY PersistenceAssumption DEF IsLedger
<1> QED BY <1>1, <1>3, <1>4, <1>5, <1>6

(* What load finds in a whole file does not run out. *)
LEMMA WholeNotExhausted ==
  ASSUME NEW ledger \in Ledgers, FileOf(ledger), Agrees(ledger), LoadExhausts
  PROVE  FALSE
<1>1. \/ pc = "load_header" /\ ~Whole(1)
      \/ pc = "load_block" /\ Len(part.chain) < head.blocks /\ ~Whole(pos + 4)
      \/ pc = "load_transaction" /\ Len(block.list) < block.size /\ ~Whole(pos + 2)
  BY DEF LoadExhausts
<1>2. CASE pc = "load_header" /\ ~Whole(1)
  BY <1>2, HeaderFound
<1>3. CASE pc = "load_block" /\ Len(part.chain) < head.blocks /\ ~Whole(pos + 4)
  <2>1. \E b : BlockFound(ledger, b)
    BY <1>3, BlockIsFound
  <2> QED BY <1>3, <2>1 DEF BlockFound
<1>4. CASE pc = "load_transaction" /\ Len(block.list) < block.size /\ ~Whole(pos + 2)
  <2>1. \E n, z : TransactionFound(ledger, n, z)
    BY <1>4, TransactionIsFound
  <2> QED BY <1>4, <2>1 DEF TransactionFound
<1> QED BY <1>1, <1>2, <1>3, <1>4

(* A load leaves the file and what belongs to save alone. *)
LEMMA LoadsTyped ==
  ASSUME TypeOK, Loads
  PROVE  TypeOK' /\ Place' /\ SaveInv' /\ Loading /\ file' = file
<1> DEFINE Goes(next) == /\ Loading /\ next \in {"load_block", "load_transaction", "load_lists"}
                         /\ Reads(next)
<1>1. ASSUME NEW next, Goes(next)
      PROVE  TypeOK' /\ Place' /\ SaveInv' /\ Loading /\ file' = file
  BY <1>1 DEF Goes, Reads, saving, TypeOK, Place, SaveInv, Saving, Loading, NoSave, NoLoad
<1>2. ASSUME NEW how \in {"idle", "stopped"}, Loading, Ends(how), ret' \in {-1, 0},
             exists' = exists, file' = file
      PROVE  TypeOK' /\ Place' /\ SaveInv' /\ Loading /\ file' = file
  BY <1>2 DEF Ends, TypeOK, Place, SaveInv, Saving, Loading, NoSave, NoLoad
<1>3. CASE LoadHeader
  <2>1. Goes("load_block")
    BY <1>3 DEF LoadHeader, Loading
  <2> HIDE DEF Goes
  <2> QED BY <1>1, <2>1
<1>4. CASE LoadBlock
  <2>1. Goes("load_transaction")
    BY <1>4 DEF LoadBlock, Loading
  <2> HIDE DEF Goes
  <2> QED BY <1>1, <2>1
<1>5. CASE LoadTransaction
  <2>1. Goes("load_lists")
    BY <1>5 DEF LoadTransaction, Loading
  <2> HIDE DEF Goes
  <2> QED BY <1>1, <2>1
<1>6. CASE LoadInput
  <2>1. Goes("load_lists")
    BY <1>6 DEF LoadInput, Loading, Reads
  <2> HIDE DEF Goes
  <2> QED BY <1>1, <2>1
<1>7. CASE LoadOutput
  <2>1. Goes("load_lists")
    BY <1>7 DEF LoadOutput, Loading, Reads
  <2> HIDE DEF Goes
  <2> QED BY <1>1, <2>1
<1>8. CASE AddTransaction
  <2>1. Goes("load_transaction")
    BY <1>8 DEF AddTransaction, Loading
  <2> HIDE DEF Goes
  <2> QED BY <1>1, <2>1
<1>9. CASE AddBlock
  <2>1. Goes("load_block")
    BY <1>9 DEF AddBlock, Loading
  <2> HIDE DEF Goes
  <2> QED BY <1>1, <2>1
<1>10. CASE LoadUnspent
  <2>1. Goes("load_block")
    BY <1>10 DEF LoadUnspent, Loading, Reads
  <2> HIDE DEF Goes
  <2> QED BY <1>1, <2>1
<1>11. CASE HeaderRefused
  <2>1. Ends("idle") /\ Loading /\ ret' = -1 /\ exists' = exists /\ file' = file
    BY <1>11 DEF HeaderRefused, Return, Loading
  <2> QED BY <1>2, <2>1
<1>12. CASE LoadReturns
  <2>1. Ends("idle") /\ Loading /\ ret' = 0 /\ exists' = exists /\ file' = file
    BY <1>12 DEF LoadReturns, Return, Loading
  <2> QED BY <1>2, <2>1
<1>13. CASE LoadExhausts
  <2>1. Ends("stopped") /\ Loading /\ ret' = ret /\ exists' = exists /\ file' = file
    BY <1>13 DEF LoadExhausts, Loading
  <2>2. ret \in {-1, 0}
    BY DEF TypeOK
  <2> QED BY <1>2, <2>1, <2>2
<1> QED
  BY <1>3, <1>4, <1>5, <1>6, <1>7, <1>8, <1>9, <1>10, <1>11, <1>12, <1>13 DEF Loads

(* Every step of a load keeps the invariant. *)
LEMMA LoadsKeep ==
  ASSUME PersistenceInv, Loads
  PROVE  PersistenceInv'
<1>1. TypeOK' /\ Place' /\ SaveInv' /\ file' = file
  BY LoadsTyped DEF PersistenceInv
<1>2. LoadInv'
  <2> SUFFICES ASSUME NEW ledger \in Ledgers, (file = WholeFile(ledger))'
               PROVE  Agrees(ledger)'
    BY DEF LoadInv
  <2>1. FileOf(ledger) /\ Agrees(ledger)
    BY <1>1 DEF FileOf, LoadInv, PersistenceInv
  <2>2. CASE LoadHeader
    BY <2>1, <2>2, HeaderAgrees
  <2>3. CASE LoadBlock
    BY <2>1, <2>3, BlockAgrees
  <2>4. CASE LoadTransaction
    BY <2>1, <2>4, TransactionAgrees
  <2>5. CASE LoadInput
    BY <2>1, <2>5, InputAgrees
  <2>6. CASE LoadOutput
    BY <2>1, <2>6, OutputAgrees
  <2>7. CASE AddTransaction
    BY <2>1, <2>7, AddedTransactionAgrees
  <2>8. CASE AddBlock
    BY <2>1, <2>8, AddedBlockAgrees
  <2>9. CASE LoadUnspent
    BY <2>1, <2>9, UnspentAgrees
  <2>10. CASE HeaderRefused \/ LoadReturns
    BY <2>10 DEF HeaderRefused, LoadReturns, Return, Ends, Agrees
  <2>11. CASE LoadExhausts
    BY <2>1, <2>11, WholeNotExhausted
  <2> QED
    BY <2>2, <2>3, <2>4, <2>5, <2>6, <2>7, <2>8, <2>9, <2>10, <2>11 DEF Loads
<1> QED BY <1>1, <1>2 DEF PersistenceInv

-----------------------------------------------------------------------------
(* The theorems.                                                            *)

(* The first step of a save: the file is empty, and its header is due. *)
LEMMA OpenKeeps ==
  ASSUME PersistenceInv, SaveOpens
  PROVE  PersistenceInv'
<1>1. /\ pc = "idle" /\ pc' = "save_block" /\ memory \in Ledgers /\ memory' = memory
      /\ exists' = TRUE /\ file' = <<>> /\ out' = <<HeaderItem(memory)>> /\ ret' = ret
      /\ lost' = lost /\ i' = i /\ t' = t /\ j' = j
      /\ pos' = pos /\ head' = head /\ part' = part /\ block' = block /\ tx' = tx
  BY DEF SaveOpens, loading
<1>2. ~Saving /\ ~Loading /\ lost = FALSE /\ i = 1 /\ ret \in {-1, 0} /\ NoLoad
  BY <1>1 DEF PersistenceInv, TypeOK, Saving, Loading, NoSave
<1>3. Len(memory.chain) \in Nat
  BY <1>1, Lengths
<1>4. TypeOK'
  <2>1. i' \in 1..(Len(memory.chain) + 1)
    BY <1>1, <1>2, <1>3
  <2> QED BY <1>1, <1>2, <2>1 DEF TypeOK, Saving, Loading, NoLoad
<1>5. Place' /\ LoadInv'
  BY <1>1 DEF Place, LoadInv, Agrees
<1>6. SaveInv'
  <2>1. Written' = AfterBlocks(memory, 1 - 1)
    BY <1>1, <1>2 DEF Written
  <2>2. AfterBlocks(memory, 0) = <<HeaderItem(memory)>>
    BY <1>1, LedgerWhole DEF LedgerTyped
  <2>3. <<HeaderItem(memory)>> \in Seq(Item)
    <3>1. HeaderItem(memory) \in Item
      BY <1>1, ItemsTyped
    <3> QED BY <3>1
  <2>4. Due(Written)'
    <3>1. 1 - 1 = 0 /\ <<>> \in Seq(Item)
      OBVIOUS
    <3>2. <<>> \o <<HeaderItem(memory)>> = <<HeaderItem(memory)>>
      BY <2>3, ConcatEmptySeq
    <3> QED BY <1>1, <2>1, <2>2, <2>3, <3>1, <3>2 DEF Due
  <2> QED BY <1>1, <1>2, <2>4 DEF SaveInv
<1> QED BY <1>4, <1>5, <1>6 DEF PersistenceInv

(* The steps between the commands, and those that end one. *)
LEMMA RestKeeps ==
  ASSUME PersistenceInv, Work \/ SaveFails \/ LoadFails \/ LoadOpens \/ Stop \/ Launch
  PROVE  PersistenceInv'
<1> USE DEF PersistenceInv
<1>1. CASE Work
  BY <1>1 DEF Work, saving, loading, TypeOK, Place, SaveInv, LoadInv, Agrees, Saving, Loading,
              NoSave, NoLoad
<1>2. CASE SaveFails \/ LoadFails \/ Launch
  BY <1>2 DEF SaveFails, LoadFails, Launch, Return, Ends, TypeOK, Place, SaveInv, LoadInv, Agrees,
              Saving, Loading, NoSave, NoLoad
<1>3. CASE LoadOpens
  BY <1>3 DEF LoadOpens, saving, loading, TypeOK, Place, SaveInv, LoadInv, Agrees, Saving, Loading,
              NoSave, NoLoad
<1>4. CASE Stop
  BY <1>4 DEF Stop, Ends, TypeOK, Place, SaveInv, LoadInv, Agrees, Saving, Loading, NoSave, NoLoad
<1> QED BY <1>1, <1>2, <1>3, <1>4

(* Every step keeps the invariant. *)
LEMMA StepKeeps ==
  ASSUME PersistenceInv, [Next]_vars
  PROVE  PersistenceInv'
<1>1. CASE Next
  BY <1>1, SavesKeep, LoadsKeep, OpenKeeps, RestKeeps DEF Next
<1>2. CASE UNCHANGED vars
  <2>1. /\ pc' = pc /\ ret' = ret /\ memory' = memory /\ exists' = exists /\ file' = file
        /\ lost' = lost /\ out' = out /\ i' = i /\ t' = t /\ j' = j
        /\ pos' = pos /\ head' = head /\ part' = part /\ block' = block /\ tx' = tx
    BY <1>2 DEF vars, saving, loading
  <2>2. TypeOK' /\ Place'
    BY <2>1 DEF PersistenceInv, TypeOK, Place, Saving, Loading, NoSave, NoLoad, Transactions
  <2>3. SaveInv'
    BY <2>1 DEF PersistenceInv, SaveInv, Written, Due, Saving
  <2>4. \A ledger : Agrees(ledger)' = Agrees(ledger)
    <3> SUFFICES ASSUME NEW ledger PROVE Agrees(ledger)' = Agrees(ledger)
      OBVIOUS
    <3>1. AtBlocks(ledger)' = AtBlocks(ledger)
      BY <2>1 DEF AtBlocks, BlocksRead, Behind
    <3>2. AtTransactions(ledger)' = AtTransactions(ledger)
      BY <2>1 DEF AtTransactions, TransactionsRead, BlockRead, Behind
    <3>3. AtLists(ledger)' = AtLists(ledger)
      BY <2>1 DEF AtLists, ListsRead, BlockRead, Behind
    <3> QED BY <2>1, <3>1, <3>2, <3>3 DEF Agrees
  <2>5. LoadInv'
    BY <2>1, <2>4 DEF PersistenceInv, LoadInv
  <2> QED BY <2>2, <2>3, <2>5 DEF PersistenceInv
<1> QED BY <1>1, <1>2

(* Initially nothing is saved or loaded. *)
LEMMA FirstState ==
  ASSUME Init
  PROVE  PersistenceInv
BY DEF Init, PersistenceInv, TypeOK, Place, SaveInv, LoadInv, Agrees, Saving, Loading, NoSave,
       NoLoad

(* The invariant holds in every reachable state. *)
LEMMA InvariantHolds == Spec => []PersistenceInv
<1>1. PersistenceInv /\ [Next]_vars => PersistenceInv'
  BY StepKeeps
<1>2. Init => PersistenceInv
  BY FirstState
<1> QED BY <1>1, <1>2, PTL DEF Spec

(* What the variables of save and load hold while they run, and that they   *)
(* are reset when they end.                                                 *)
THEOREM PersistenceTypeCorrect == Spec => []TypeOK
<1>1. PersistenceInv => TypeOK
  BY DEF PersistenceInv
<1> QED BY <1>1, InvariantHolds, PTL

(* At every moment the file is a first one, or the beginning of one save of *)
(* one ledger: open() truncates, and what a save writes after a write that  *)
(* failed is lost too.                                                      *)
THEOREM FileAlwaysBeginning == Spec => []FileIsBeginning
<1>1. ASSUME PersistenceInv, FileIsBeginning, [Next]_vars PROVE FileIsBeginning'
  <2>1. CASE file' = file
    BY <1>1, <2>1 DEF FileIsBeginning
  <2>2. CASE Write
    <3>1. Saving /\ file' \in Beginnings(WholeFile(memory))
      BY <1>1, <2>2, WriteKeeps DEF PersistenceInv
    <3>2. memory \in Ledgers
      BY <1>1, <3>1 DEF PersistenceInv, TypeOK
    <3> QED BY <3>1, <3>2 DEF FileIsBeginning
  <2>3. CASE SaveOpens
    <3>1. memory \in Ledgers /\ file' = <<>>
      BY <2>3 DEF SaveOpens
    <3>2. <<>> \in Beginnings(WholeFile(memory))
      <4>1. Begins(<<>>, WholeFile(memory), Item)
        <5>1. WholeFile(memory) \in Seq(Item)
          <6>1. 0 \in 0..Len(memory.unspent)
            BY <3>1, Lengths
          <6> QED BY <3>1, <6>1, UnspentWritten DEF LedgerTurns, Begins
        <5>2. WholeFile(memory) = <<>> \o WholeFile(memory) /\ <<>> \in Seq(Item)
          BY <5>1, ConcatEmptySeq
        <5> QED BY <5>1, <5>2 DEF Begins
      <4> QED BY <4>1, InBeginnings
    <3> QED BY <3>1, <3>2 DEF FileIsBeginning
  <2>4. \/ file' = file \/ Write \/ SaveOpens
    <3>1. CASE Loads
      BY <1>1, <3>1, LoadsTyped DEF PersistenceInv
    <3>2. CASE Saves
      BY <3>2 DEF Saves, SaveBlock, SaveTransaction, SaveInput, InputsSaved, SaveOutput,
                  OutputsSaved, TransactionsSaved, BlocksSaved, SaveUnspent, SaveReturns, Writes
    <3>3. CASE UNCHANGED vars
      BY <3>3 DEF vars
    <3>4. CASE Work \/ SaveFails \/ LoadFails \/ LoadOpens \/ Stop \/ Launch
      BY <3>4 DEF Work, SaveFails, LoadFails, LoadOpens, Stop, Launch
    <3> QED BY <1>1, <3>1, <3>2, <3>3, <3>4 DEF Next
  <2> QED BY <2>1, <2>2, <2>3, <2>4
<1>2. Init => FileIsBeginning
  <2> SUFFICES ASSUME Init PROVE FileIsBeginning
    OBVIOUS
  <2>1. CASE exists
    BY <2>1 DEF Init, FileIsBeginning
  <2>2. CASE ~exists
    <3>1. file = <<>> /\ Genesis \in Ledgers
      BY <2>2, PersistenceAssumption DEF Init
    <3>2. WholeFile(Genesis) \in Seq(Item)
      <4>1. 0 \in 0..Len(Genesis.unspent)
        BY <3>1, Lengths
      <4> QED BY <3>1, <4>1, UnspentWritten DEF LedgerTurns, Begins
    <3>3. Begins(<<>>, WholeFile(Genesis), Item)
      <4>1. WholeFile(Genesis) = <<>> \o WholeFile(Genesis) /\ <<>> \in Seq(Item)
        BY <3>2, ConcatEmptySeq
      <4> QED BY <3>2, <4>1 DEF Begins
    <3> QED BY <3>1, <3>3, InBeginnings DEF FileIsBeginning
  <2> QED BY <2>1, <2>2
<1>3. PersistenceInv /\ FileIsBeginning /\ [Next]_vars => FileIsBeginning'
  BY <1>1
<1> QED BY <1>2, <1>3, InvariantHolds, PTL DEF Spec

(* The file of a ledger is the same in Store. *)
LEMMA SameFile ==
  /\ \A ledger : S!WholeFile(ledger) = WholeFile(ledger)
  /\ \A whole : S!Beginnings(whole) = Beginnings(whole)
<1>1. \A whole : S!Beginnings(whole) = Beginnings(whole)
  BY DEF S!Beginnings, Beginnings, S!Torn, Torn
<1>2. \A y : S!WholeTransaction(y) = WholeTransaction(y)
  BY DEF S!WholeTransaction, WholeTransaction, S!TransactionItems, TransactionItems,
         S!EachItem, EachItem, S!InputItem, InputItem, S!OutputItem, OutputItem
<1>3. \A s : S!FlattenSeq(s) = FlattenSeq(s)
  BY DEF S!FlattenSeq, FlattenSeq
<1>4. \A b : S!WholeBlock(b) = WholeBlock(b)
  <2> SUFFICES ASSUME NEW b PROVE S!WholeBlock(b) = WholeBlock(b)
    OBVIOUS
  <2>1. S!BlockItems(b) = BlockItems(b)
    BY DEF S!BlockItems, BlockItems, S!TxSize, TxSize
  <2>2. [n \in 1..Len(b.transactions) |-> S!WholeTransaction(b.transactions[n])]
          = [n \in 1..Len(b.transactions) |-> WholeTransaction(b.transactions[n])]
    BY <1>2
  <2> QED BY <1>3, <2>1, <2>2
          DEF S!WholeBlock, WholeBlock, S!Concat, Concat, S!EachItem, EachItem
<1>5. \A ledger : S!WholeFile(ledger) = WholeFile(ledger)
  <2> SUFFICES ASSUME NEW ledger PROVE S!WholeFile(ledger) = WholeFile(ledger)
    OBVIOUS
  <2>1. S!HeaderItem(ledger) = HeaderItem(ledger)
    BY DEF S!HeaderItem, HeaderItem
  <2>2. [n \in 1..Len(ledger.chain) |-> S!WholeBlock(ledger.chain[n])]
          = [n \in 1..Len(ledger.chain) |-> WholeBlock(ledger.chain[n])]
    BY <1>4
  <2>3. [n \in 1..Len(ledger.unspent) |-> S!UnspentItem(ledger.unspent[n])]
          = [n \in 1..Len(ledger.unspent) |-> UnspentItem(ledger.unspent[n])]
    BY DEF S!UnspentItem, UnspentItem
  <2> QED BY <1>3, <2>1, <2>2, <2>3
          DEF S!WholeFile, WholeFile, S!Concat, Concat, S!EachItem, EachItem
<1> QED BY <1>1, <1>5

(* What Store sees: what is done, and the file a save that does not fail    *)
(* leaves.                                                                  *)
doing == IF Saving THEN (IF lost THEN "failed" ELSE "save") ELSE IF Loading THEN "load" ELSE pc
stored == IF Saving /\ ~lost THEN WholeFile(memory) ELSE file
storeVars == <<doing, memory, stored>>

(* The steps of a save: it goes on, cannot write any more, or ends.         *)
LEMMA SavesImplement ==
  ASSUME PersistenceInv, Saves
  PROVE  [S!Next]_storeVars
<1>1. CASE Write
  <2>1. /\ Saving /\ memory \in Ledgers
        /\ pc' = pc /\ memory' = memory
        /\ file' \in Beginnings(WholeFile(memory))
        /\ \/ lost' = lost
           \/ DiskFills /\ ~lost /\ lost' = TRUE
        /\ lost => file' = file
    <3>1. Saving /\ file' \in Beginnings(WholeFile(memory))
      BY <1>1, WriteKeeps DEF PersistenceInv
    <3>2. memory \in Ledgers
      BY <3>1 DEF PersistenceInv, TypeOK
    <3> QED BY <1>1, <3>1, <3>2 DEF Write
  <2>2. Saving'
    BY <2>1 DEF Saving
  <2>3. CASE lost' = lost
    <3>1. doing' = doing /\ stored' = stored
      BY <2>1, <2>2, <2>3 DEF doing, stored
    <3> QED BY <2>1, <3>1 DEF storeVars
  <2>4. CASE DiskFills /\ ~lost /\ lost' = TRUE
    <3>1. doing = "save" /\ doing' = "failed" /\ stored = WholeFile(memory) /\ stored' = file'
      BY <2>1, <2>2, <2>4 DEF doing, stored
    <3>2. S!Cut
      BY <2>1, <3>1, SameFile DEF S!Cut, stored
    <3>3. S!Fail
      BY <2>1, <2>4, <3>1, <3>2 DEF S!Fail, S!Does, doing
    <3> QED BY <3>3 DEF S!Next
  <2> QED BY <2>1, <2>3, <2>4
<1>2. CASE \/ SaveBlock \/ SaveTransaction \/ SaveInput \/ InputsSaved \/ SaveOutput
           \/ OutputsSaved \/ TransactionsSaved \/ BlocksSaved \/ SaveUnspent
  <2>1. Saving /\ Saving' /\ memory' = memory /\ file' = file /\ lost' = lost
    BY <1>2 DEF SaveBlock, SaveTransaction, SaveInput, InputsSaved, SaveOutput, OutputsSaved,
                TransactionsSaved, BlocksSaved, SaveUnspent, Writes, Saving
  <2>2. doing' = doing /\ stored' = stored
    BY <2>1 DEF doing, stored
  <2> QED BY <2>1, <2>2 DEF storeVars
<1>3. CASE SaveReturns
  <2>1. /\ pc = "save_unspent" /\ i > Len(memory.unspent) /\ out = <<>>
        /\ pc' = "idle" /\ memory' = memory /\ file' = file
    BY <1>3 DEF SaveReturns, Return, Ends
  <2>2. Saving /\ ~Saving' /\ ~Loading'
    BY <2>1 DEF Saving, Loading
  <2>3. ~lost => file = WholeFile(memory)
    <3> SUFFICES ASSUME ~lost PROVE file = WholeFile(memory)
      OBVIOUS
    <3>1. Written = WholeFile(memory)
      BY <2>1, <2>2, WrittenWhole DEF PersistenceInv
    <3>2. Due(Written)
      BY <2>2 DEF PersistenceInv, SaveInv
    <3>3. file \in Seq(Item) /\ file \o <<>> = Written
      BY <2>1, <3>2 DEF Due
    <3> QED BY <3>1, <3>3, ConcatEmptySeq
  <2>4. stored' = stored
    BY <2>1, <2>2, <2>3 DEF stored
  <2>5. doing \in {"save", "failed"} /\ doing' = "idle"
    BY <2>1, <2>2 DEF doing
  <2>6. S!SaveEnds
    BY <2>1, <2>4, <2>5 DEF S!SaveEnds, S!Does, doing, stored
  <2> QED BY <2>6 DEF S!Next
<1> QED BY <1>1, <1>2, <1>3 DEF Saves

(* The steps of a load: it goes on, or ends, with the ledger of a whole     *)
(* file.                                                                    *)
LEMMA LoadsImplement ==
  ASSUME PersistenceInv, Loads
  PROVE  [S!Next]_storeVars
<1>1. Loading /\ file' = file
  BY LoadsTyped DEF PersistenceInv
<1>2. ~Saving /\ doing = "load" /\ stored = file
  BY <1>1 DEF doing, stored, Saving, Loading
<1>3. ASSUME NEW ledger \in Ledgers, stored = WholeFile(ledger)
      PROVE  FileOf(ledger) /\ Agrees(ledger)
  BY <1>2, <1>3 DEF FileOf, PersistenceInv, LoadInv
<1>4. CASE \/ LoadHeader \/ LoadBlock \/ LoadTransaction \/ LoadInput \/ LoadOutput
           \/ AddTransaction \/ AddBlock \/ LoadUnspent
  <2>1. Loading' /\ memory' = memory
    BY <1>4 DEF LoadHeader, LoadBlock, LoadTransaction, LoadInput, LoadOutput, AddTransaction,
                AddBlock, LoadUnspent, Reads, Loading
  <2>2. doing' = doing /\ stored' = stored
    BY <1>1, <1>2, <2>1 DEF doing, stored, Saving, Loading
  <2> QED BY <2>1, <2>2 DEF storeVars
<1>5. CASE HeaderRefused \/ LoadReturns
  <2>1. pc' = "idle"
    BY <1>5 DEF HeaderRefused, LoadReturns, Return, Ends
  <2>2. doing' = "idle" /\ stored' = stored
    BY <1>1, <1>2, <2>1 DEF doing, stored, Saving, Loading
  <2>3. ASSUME NEW ledger \in Ledgers, stored = WholeFile(ledger)
        PROVE  memory' = ledger
    <3>1. FileOf(ledger) /\ Agrees(ledger)
      BY <1>3, <2>3
    <3>2. CASE HeaderRefused
      <4>1. Whole(1) /\ file[1] = HeaderItem(ledger)
        BY <3>1, HeaderFound
      <4>2. HeaderItem(ledger)[2].valid
        BY DEF HeaderItem
      <4> QED BY <3>2, <4>1, <4>2 DEF HeaderRefused
    <3>3. CASE LoadReturns
      BY <3>1, <3>3, LoadedIsLedger
    <3> QED BY <1>5, <3>2, <3>3
  <2>4. S!LoadEnds
    BY <1>2, <2>2, <2>3, SameFile DEF S!LoadEnds, S!Does, doing, stored
  <2> QED BY <2>4 DEF S!Next
<1>6. CASE LoadExhausts
  <2>1. pc' = "stopped" /\ memory' = Genesis
    BY <1>6 DEF LoadExhausts, Ends
  <2>2. doing' = "stopped" /\ stored' = stored
    BY <1>1, <1>2, <2>1 DEF doing, stored, Saving, Loading
  <2>3. ASSUME NEW ledger \in Ledgers, stored = WholeFile(ledger)
        PROVE  FALSE
    <3>1. FileOf(ledger) /\ Agrees(ledger)
      BY <1>3, <2>3
    <3> QED BY <1>6, <3>1, WholeNotExhausted
  <2>4. ~S!IsWhole(stored)
    BY <2>3, SameFile DEF S!IsWhole
  <2>5. S!Stop
    BY <1>2, <2>1, <2>2, <2>4 DEF S!Stop, doing, stored
  <2> QED BY <2>5 DEF S!Next
<1> QED BY <1>4, <1>5, <1>6 DEF Loads

(* A stopped save leaves a beginning of what it should write. *)
LEMMA CutShort ==
  ASSUME PersistenceInv, Saving
  PROVE  memory \in Ledgers /\ file \in Beginnings(WholeFile(memory))
<1>1. memory \in Ledgers
  BY DEF PersistenceInv, TypeOK
<1>2. CASE lost
  BY <1>1, <1>2 DEF PersistenceInv, SaveInv
<1>3. CASE ~lost
  <2>1. Begins(Written, WholeFile(memory), Item)
    BY WrittenWhole DEF PersistenceInv
  <2>2. file \in Seq(Item) /\ out \in Seq(Item) /\ file \o out = Written
    BY <1>3 DEF PersistenceInv, SaveInv, Due
  <2>3. Begins(file, Written, Item)
    BY <2>2, BeginsSame
  <2>4. Begins(file, WholeFile(memory), Item)
    BY <2>1, <2>3, BeginsTwice
  <2> QED BY <1>1, <2>4, InBeginnings
<1> QED BY <1>2, <1>3

(* The other steps. *)
LEMMA RestImplements ==
  ASSUME PersistenceInv,
         Work \/ SaveFails \/ SaveOpens \/ LoadFails \/ LoadOpens \/ Stop \/ Launch
  PROVE  [S!Next]_storeVars
<1>1. CASE Work
  <2>1. pc = "idle" /\ pc' = "idle" /\ memory' \in Ledgers /\ file' = file
    BY <1>1 DEF Work
  <2>2. doing = "idle" /\ doing' = "idle" /\ stored' = stored
    BY <2>1 DEF doing, stored, Saving, Loading
  <2>3. S!Work
    BY <2>1, <2>2 DEF S!Work, S!Does, doing, stored
  <2> QED BY <2>3 DEF S!Next
<1>2. CASE SaveFails \/ LoadFails
  <2>1. pc = "idle" /\ pc' = "idle" /\ memory' = memory /\ file' = file
    BY <1>2 DEF SaveFails, LoadFails, Return, Ends
  <2>2. doing' = doing /\ stored' = stored
    BY <2>1 DEF doing, stored, Saving, Loading
  <2> QED BY <2>1, <2>2 DEF storeVars
<1>3. CASE SaveOpens
  <2>1. pc = "idle" /\ pc' = "save_block" /\ memory' = memory /\ lost' = lost
    BY <1>3 DEF SaveOpens
  <2>2. lost = FALSE
    BY <2>1 DEF PersistenceInv, TypeOK, Saving, NoSave
  <2>3. doing = "idle" /\ doing' = "save" /\ stored' = WholeFile(memory)
    BY <2>1, <2>2 DEF doing, stored, Saving, Loading
  <2>4. S!Save
    BY <2>1, <2>3, SameFile DEF S!Save, S!Does, doing, stored
  <2> QED BY <2>4 DEF S!Next
<1>4. CASE LoadOpens
  <2>1. pc = "idle" /\ pc' = "load_header" /\ memory' = memory /\ file' = file
    BY <1>4 DEF LoadOpens
  <2>2. doing = "idle" /\ doing' = "load" /\ stored' = stored
    BY <2>1 DEF doing, stored, Saving, Loading
  <2>3. S!Load
    BY <2>1, <2>2 DEF S!Load, S!Does, doing, stored
  <2> QED BY <2>3 DEF S!Next
<1>5. CASE Stop
  <2>1. ProcessStops /\ (Saving \/ Loading) /\ pc' = "stopped" /\ memory' = Genesis /\ file' = file
    BY <1>5 DEF Stop, Ends, PersistenceInv, TypeOK
  <2>2. doing' = "stopped" /\ stored' = file
    BY <2>1 DEF doing, stored, Saving, Loading
  <2>3. CASE Saving /\ ~lost
    <3>1. doing = "save" /\ file \in Beginnings(WholeFile(memory))
      BY <2>3, CutShort DEF doing
    <3>2. S!Cut
      BY <2>2, <3>1, SameFile DEF S!Cut, stored
    <3>3. S!Stop
      BY <2>1, <2>2, <3>1, <3>2 DEF S!Stop, doing
    <3> QED BY <3>3 DEF S!Next
  <2>4. CASE ~(Saving /\ ~lost)
    <3>1. doing \in {"failed", "load"} /\ stored = file
      BY <2>1, <2>4 DEF doing, stored
    <3>2. S!Stop
      BY <2>1, <2>2, <3>1 DEF S!Stop, doing, stored
    <3> QED BY <3>2 DEF S!Next
  <2> QED BY <2>3, <2>4
<1>6. CASE Launch
  <2>1. pc = "stopped" /\ pc' = "idle" /\ memory' = memory /\ file' = file
    BY <1>6 DEF Launch, Return, Ends
  <2>2. doing = "stopped" /\ doing' = "idle" /\ stored' = stored
    BY <2>1 DEF doing, stored, Saving, Loading
  <2>3. S!Launch
    BY <2>1, <2>2 DEF S!Launch, S!Does, doing, stored
  <2> QED BY <2>3 DEF S!Next
<1> QED BY <1>1, <1>2, <1>3, <1>4, <1>5, <1>6

(* blockchain_serialize and blockchain_deserialize do what Store says: a    *)
(* save that ends replaces the file by the whole ledger, one that does not  *)
(* leaves a beginning of it, and a load of a whole file gives the ledger    *)
(* that was saved.                                                          *)
THEOREM StoreImplemented == Spec => ImplementsStore
<1>1. Init => S!Init
  BY DEF Init, S!Init, Saving, Loading
<1>2. PersistenceInv /\ [Next]_vars => [S!Next]_storeVars
  <2> SUFFICES ASSUME PersistenceInv, [Next]_vars PROVE [S!Next]_storeVars
    OBVIOUS
  <2>1. CASE UNCHANGED vars
    <3>1. pc' = pc /\ memory' = memory /\ file' = file /\ lost' = lost
      BY <2>1 DEF vars, saving
    <3> QED BY <3>1 DEF storeVars, doing, stored, Saving, Loading
  <2>2. CASE Next
    BY <2>2, SavesImplement, LoadsImplement, RestImplements DEF Next
  <2> QED BY <2>1, <2>2
<1> QED BY <1>1, <1>2, InvariantHolds, PTL
        DEF Spec, ImplementsStore, S!Spec, storeVars, doing, stored

=============================================================================
