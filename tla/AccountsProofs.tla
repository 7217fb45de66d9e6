--------------------------- MODULE AccountsProofs ---------------------------
(***************************************************************************)
(* A session without files implements module Accounts: the outputs a key   *)
(* has in the list are its balance, and the pending transactions are the   *)
(* payments that the next block settles.  And in every session, with files *)
(* or without, send accepts exactly what the free outputs cover.           *)
(***************************************************************************)
EXTENDS SessionProofs

-----------------------------------------------------------------------------
(* Whose an output is, and what of it a key has.                            *)

(* Outputs for different keys have different hashes. *)
OwnersTold ==
    \A a, b \in Amount, p, q \in Keys :
        SHA256(<<"out", a, p>>) = SHA256(<<"out", b, q>>) => p = q

(* The key of the outputs with a hash. *)
Owners ==
    [h \in OutputHashes |-> CHOOSE key \in Keys : \E a \in Amount : h = SHA256(<<"out", a, key>>)]

(* The amount of the outputs with a hash, if they are the key's. *)
OwnedBy(key) == [h \in OutputHashes |-> IF Owners[h] = key THEN Values[h] ELSE 0]

(* The hash of an output tells its key. *)
LEMMA OwnerOfHash ==
  ASSUME OwnersTold, NEW out, IsOutput(out)
  PROVE  out.hash \in OutputHashes /\ out.pub \in Keys /\ Owners[out.hash] = out.pub
<1>1. PICK amount \in Amount : \E key \in Keys : out = TxOutCreate(amount, key)
  BY DEF IsOutput
<1>2. PICK key \in Keys : out = TxOutCreate(amount, key)
  BY <1>1
<1> DEFINE h == SHA256(<<"out", amount, key>>)
           Is(k) == \E a \in Amount : h = SHA256(<<"out", a, k>>)
<1>3. out.hash = h /\ out.pub = key
  BY <1>2 DEF TxOutCreate
<1>4. h \in OutputHashes /\ Is(key)
  BY DEF OutputHashes
<1>5. \A k \in Keys : Is(k) => k = key
  BY DEF OwnersTold
<1>6. Owners[h] = CHOOSE k \in Keys : Is(k)
  BY <1>4 DEF Owners
<1> HIDE DEF h, Is
<1>7. (CHOOSE k \in Keys : Is(k)) = key
  BY <1>4, <1>5
<1> QED BY <1>3, <1>4, <1>6, <1>7

(* What a key has of an output is nothing, or all of it. *)
LEMMA OwnedType ==
  ASSUME NEW key
  PROVE  /\ OwnedBy(key) \in [OutputHashes -> Int]
         /\ \A h \in OutputHashes : /\ Values[h] \in Nat /\ OwnedBy(key)[h] \in Nat
                                    /\ OwnedBy(key)[h] <= Values[h]
                                    /\ OwnedBy(key)[h] = IF Owners[h] = key THEN Values[h] ELSE 0
<1>1. ASSUME NEW h \in OutputHashes PROVE Values[h] \in Nat
  <2> DEFINE Is(a) == \E k \in Keys : h = SHA256(<<"out", a, k>>)
  <2>1. \E a \in Amount : Is(a)
    BY DEF OutputHashes
  <2>2. Values[h] = CHOOSE a \in Amount : Is(a)
    BY DEF Values
  <2> HIDE DEF Is
  <2>3. Values[h] \in Amount
    BY <2>1, <2>2
  <2> QED BY <2>3, AmountAssumption DEF Amount
<1>2. \A h \in OutputHashes : OwnedBy(key)[h] = IF Owners[h] = key THEN Values[h] ELSE 0
  BY DEF OwnedBy
<1>3. OwnedBy(key) \in [OutputHashes -> Int]
  BY <1>1 DEF OwnedBy
<1> QED BY <1>1, <1>2, <1>3

(* Greater numbers for the hashes, greater sums. *)
LEMMA HeldOrder ==
  ASSUME NEW E, NEW H, Hashed(E, H), NEW c \in [H -> Int], NEW d \in [H -> Int],
         \A h \in H : c[h] <= d[h], NEW list \in Seq(E)
  PROVE  Held(c, list) <= Held(d, list)
<1> DEFINE n == Len(list)
           f == [i \in 1..n |-> c[list[i].out.hash]]
           g == [i \in 1..n |-> d[list[i].out.hash]]
<1>1. n \in Nat /\ \A i \in 1..n : list[i].out.hash \in H
  BY SeqIsSeq DEF IsSeq, Hashed
<1>2. \A i \in 1..n : f[i] \in Int /\ g[i] \in Int /\ f[i] <= g[i]
  BY <1>1
<1>3. Held(c, list) = Total(f, n) /\ Held(d, list) = Total(g, n)
  BY DEF Held
<1> HIDE DEF f, g, n
<1>4. Total(f, n) <= Total(g, n)
  BY <1>1, <1>2, TotalMonotone
<1> QED BY <1>3, <1>4

(* Numbers that are not negative have such a sum. *)
LEMMA HeldNatural ==
  ASSUME NEW E, NEW H, Hashed(E, H), NEW c \in [H -> Int],
         \A h \in H : c[h] \in Nat, NEW list \in Seq(E)
  PROVE  Held(c, list) \in Nat
<1> DEFINE n == Len(list)
           f == [i \in 1..n |-> c[list[i].out.hash]]
<1>1. n \in Nat /\ \A i \in 1..n : list[i].out.hash \in H
  BY SeqIsSeq DEF IsSeq, Hashed
<1>2. \A i \in 1..n : f[i] \in Nat /\ f[i] \in Int
  BY <1>1
<1>3. Held(c, list) = Total(f, n)
  BY DEF Held
<1> HIDE DEF f, n
<1>4. 0 \in 0..n /\ n \in 0..n
  BY <1>1
<1>5. Total(f, 0) = 0 /\ Total(f, n) \in Int /\ Total(f, 0) <= Total(f, n)
  BY <1>1, <1>2, <1>4, TotalSteps, TotalPrefix
<1> QED BY <1>3, <1>5

(* The balance of a key is the sum of what it has, modulo 2^32. *)
LEMMA BalanceHeld ==
  ASSUME AmountsTold, OwnersTold, NEW u, IsUnspentList(u), Genuine(Members(u)), NEW key
  PROVE  Sum32([i \in 1..Len(u) |-> IF u[i].out.pub = key THEN u[i].out.amount ELSE 0], Len(u))
           = Held(OwnedBy(key), u) % UINT32
<1> DEFINE n == Len(u)
           c == OwnedBy(key)
           f == [i \in 1..n |-> IF u[i].out.pub = key THEN u[i].out.amount ELSE 0]
           g == [i \in 1..n |-> c[u[i].out.hash]]
<1>1. n \in Nat /\ \A i \in 1..n : u[i].out.amount \in Int
  BY AmountAssumption DEF IsUnspentList, IsSeq, Amount
<1>2. ASSUME NEW i \in 1..n
      PROVE  f[i] \in Int /\ g[i] = f[i]
  <2>1. IsOutput(u[i].out)
    BY DEF Genuine, Members
  <2>2. /\ u[i].out.hash \in OutputHashes /\ Values[u[i].out.hash] = u[i].out.amount
        /\ Owners[u[i].out.hash] = u[i].out.pub
    BY <2>1, OwnerOfHash, ValueOfOutput
  <2>3. c[u[i].out.hash] = IF u[i].out.pub = key THEN u[i].out.amount ELSE 0
    BY <2>2, OwnedType
  <2> QED BY <1>1, <2>3
<1>3. Held(c, u) = Total(g, n)
  BY DEF Held
<1> HIDE DEF f, g, c, n
<1>4. Sum32(f, n) = Total(f, n) % UINT32
  BY <1>1, <1>2, Sum32IsTotal
<1>5. Total(g, n) = Total(f, n)
  BY <1>1, <1>2, TotalSame
<1> QED BY <1>3, <1>4, <1>5 DEF f, n, c

-----------------------------------------------------------------------------
(* Sums.                                                                    *)

(* Nothing added up is nothing. *)
LEMMA TotalZero ==
  ASSUME NEW n \in Nat, NEW f, \A k \in 1..n : f[k] = 0
  PROVE  Total(f, n) = 0
<1>1. \A k \in 1..n : f[k] \in Int /\ f[k] = f[k] + f[k]
  OBVIOUS
<1>2. Total(f, n) = Total(f, n) + Total(f, n)
  BY <1>1, TotalPlus
<1>3. n \in 0..n
  OBVIOUS
<1>4. Total(f, n) \in Int
  BY <1>1, <1>3, TotalSteps
<1> DEFINE t == Total(f, n)
<1>5. t \in Int /\ t = t + t
  BY <1>2, <1>4
<1> HIDE DEF t
<1>6. t = 0
  BY <1>5
<1> QED BY <1>6 DEF t

(* The first number, and the sum of those behind it. *)
LEMMA TotalBehind ==
  ASSUME NEW n \in Nat, NEW f, NEW h, h[1] \in Int,
         \A k \in 1..n : f[k] \in Int /\ h[k + 1] = f[k]
  PROVE  Total(h, n + 1) = h[1] + Total(f, n)
<1> DEFINE e == [k \in 1..1 |-> h[1]]
<1>1. \A k \in 1..1 : e[k] \in Int /\ h[k] = e[k] /\ e[k] = h[1]
  OBVIOUS
<1> HIDE DEF e
<1>2. \A k \in 1..n : f[k] \in Int /\ h[1 + k] = f[k]
  <2> SUFFICES ASSUME NEW k \in 1..n PROVE f[k] \in Int /\ h[1 + k] = f[k]
    OBVIOUS
  <2>1. 1 + k = k + 1
    OBVIOUS
  <2> QED BY <2>1
<1>3. 1 \in Nat /\ n + 1 = 1 + n
  OBVIOUS
<1>4. Total(h, n + 1) = Total(e, 1) + Total(f, n)
  BY <1>1, <1>2, <1>3, TotalConcat
<1>5. Total(e, 1) = h[1]
  <2>1. \A k \in 1..1 : e[k] \in Int
    BY <1>1
  <2>2. Total(e, 0) = 0 /\ \A m \in 1..1 : Total(e, m) = Total(e, m - 1) + e[m]
    BY <2>1, TotalSteps
  <2>3. 1 \in 1..1 /\ 1 - 1 = 0
    OBVIOUS
  <2>4. Total(e, 1) = Total(e, 0) + e[1]
    BY <2>2, <2>3
  <2> QED BY <1>1, <2>2, <2>3, <2>4
<1> QED BY <1>4, <1>5

(* The sums of two numbers, and of one. *)
LEMMA TotalOfFew ==
  ASSUME NEW f, NEW n \in 1..2, \A k \in 1..n : f[k] \in Int
  PROVE  Total(f, n) = IF n = 1 THEN f[1] ELSE f[1] + f[2]
<1>1. Total(f, 0) = 0 /\ \A m \in 1..n : Total(f, m) = Total(f, m - 1) + f[m]
  BY TotalSteps
<1>2. 1 \in 1..n /\ f[1] \in Int /\ 1 - 1 = 0
  OBVIOUS
<1>3. Total(f, 1) = f[1]
  <2>1. Total(f, 1) = Total(f, 0) + f[1]
    BY <1>1, <1>2
  <2> QED BY <1>1, <1>2, <2>1
<1>4. CASE n = 1
  BY <1>3, <1>4
<1>5. CASE n = 2
  <2>1. 2 \in 1..n /\ 2 - 1 = 1
    BY <1>5
  <2>2. Total(f, 2) = Total(f, 1) + f[2]
    BY <1>1, <2>1
  <2> QED BY <1>3, <1>5, <2>2
<1> QED BY <1>4, <1>5

-----------------------------------------------------------------------------
(* What one pending transaction does to the balances.                       *)

(* The transaction spends outputs of one key, pays an amount to a key, and  *)
(* gives the rest back: neither more nor less than it spends.               *)
IsPayment(tx, from) ==
    /\ HashedInputs(tx, OutputHashes)
    /\ Len(tx.inputs) > 0
    /\ \A n \in 1..Len(tx.inputs) : Owners[tx.inputs[n].tx_out_hash] = from
    /\ tx.inputs[1].sig[2] = from
    /\ MadeOutputs(tx)
    /\ Len(tx.outputs) \in 1..2
    /\ tx.outputs[1].amount # 0
    /\ Len(tx.outputs) = 2 => tx.outputs[2].pub = from
    /\ Spends(Values, tx, Len(tx.inputs)) = Paid(tx)

(* What the payment takes from a key, and what it brings it. *)
Leaves(key, tx) == IF Payment(tx).from = key THEN Payment(tx).amount ELSE 0
Arrives(key, tx) == IF Payment(tx).to = key THEN Payment(tx).amount ELSE 0

(* A key's part of what it spends is all or nothing. *)
LEMMA SpendsOwned ==
  ASSUME NEW tx, NEW from, IsPayment(tx, from), NEW key
  PROVE  LET n == Len(tx.inputs)
         IN  /\ Spends(Values, tx, n) \in Nat
             /\ Spends(OwnedBy(key), tx, n) = IF from = key THEN Spends(Values, tx, n) ELSE 0
<1> DEFINE n == Len(tx.inputs)
           c == OwnedBy(key)
           f == [k \in 1..n |-> c[tx.inputs[k].tx_out_hash]]
           g == [k \in 1..n |-> Values[tx.inputs[k].tx_out_hash]]
<1>1. n \in Nat /\ \A k \in 1..n : /\ tx.inputs[k].tx_out_hash \in OutputHashes
                                  /\ Owners[tx.inputs[k].tx_out_hash] = from
  BY DEF IsPayment, HashedInputs
<1>2. \A k \in 1..n : /\ g[k] \in Nat /\ g[k] \in Int
                      /\ f[k] = IF from = key THEN g[k] ELSE 0
  BY <1>1, OwnedType
<1>3. Spends(Values, tx, n) = Total(g, n) /\ Spends(c, tx, n) = Total(f, n)
  BY DEF Spends
<1> HIDE DEF f, g, c, n
<1>4. Total(g, n) \in Nat
  <2>1. 0 \in 0..n /\ n \in 0..n
    BY <1>1
  <2>2. Total(g, 0) = 0 /\ Total(g, n) \in Int /\ Total(g, 0) <= Total(g, n)
    BY <1>1, <1>2, <2>1, TotalSteps, TotalPrefix
  <2> QED BY <2>2
<1>5. CASE from = key
  <2>1. Total(f, n) = Total(g, n)
    BY <1>1, <1>2, <1>5, TotalSame
  <2> QED BY <1>3, <1>4, <1>5, <2>1 DEF c, n
<1>6. CASE from # key
  <2>1. Total(f, n) = 0
    BY <1>1, <1>2, <1>6, TotalZero
  <2> QED BY <1>3, <1>4, <1>6, <2>1 DEF c, n
<1> QED BY <1>5, <1>6

(* What a transaction makes for a key, by its outputs. *)
LEMMA MakesOwned ==
  ASSUME AmountsTold, OwnersTold, NEW tx, NEW from, IsPayment(tx, from), NEW key
  PROVE  LET a == tx.outputs[1].amount
             b == tx.outputs[2].amount
             two == Len(tx.outputs) = 2
         IN  /\ a \in Nat /\ a > 0
             /\ two => b \in Nat
             /\ Paid(tx) = IF two THEN a + b ELSE a
             /\ Makes(Values, tx) = Paid(tx)
             /\ Makes(OwnedBy(key), tx)
                  = (IF tx.outputs[1].pub = key THEN a ELSE 0)
                      + (IF two /\ from = key THEN b ELSE 0)
<1> DEFINE n == Len(tx.outputs)
           c == OwnedBy(key)
           a == tx.outputs[1].amount
           b == tx.outputs[2].amount
           p == tx.outputs[1].pub
           f == [o \in 1..n |-> tx.outputs[o].amount]
           g == [o \in 1..n |-> Values[tx.outputs[o].hash]]
           h == [o \in 1..n |-> c[tx.outputs[o].hash]]
<1>1. n \in 1..2 /\ a # 0 /\ (n = 2 => tx.outputs[2].pub = from)
  BY DEF IsPayment
<1>2. \A o \in 1..n : /\ tx.outputs[o].amount \in Amount
                      /\ tx.outputs[o].hash \in OutputHashes
                      /\ Values[tx.outputs[o].hash] = tx.outputs[o].amount
                      /\ Owners[tx.outputs[o].hash] = tx.outputs[o].pub
  BY ValueOfOutput, OwnerOfHash DEF IsPayment, MadeOutputs
<1>3. \A o \in 1..n : /\ f[o] \in Int /\ g[o] \in Int /\ h[o] \in Int
                      /\ f[o] = tx.outputs[o].amount
                      /\ g[o] = f[o]
                      /\ h[o] = IF tx.outputs[o].pub = key THEN f[o] ELSE 0
  <2> SUFFICES ASSUME NEW o \in 1..n
               PROVE  /\ f[o] \in Int /\ g[o] \in Int /\ h[o] \in Int
                      /\ f[o] = tx.outputs[o].amount
                      /\ g[o] = f[o]
                      /\ h[o] = IF tx.outputs[o].pub = key THEN f[o] ELSE 0
    OBVIOUS
  <2>1. f[o] = tx.outputs[o].amount /\ f[o] \in Int
    BY <1>2, AmountAssumption DEF Amount
  <2>2. g[o] = f[o]
    BY <1>2, <2>1
  <2>3. h[o] = c[tx.outputs[o].hash]
    OBVIOUS
  <2>4. c[tx.outputs[o].hash] = IF tx.outputs[o].pub = key THEN tx.outputs[o].amount ELSE 0
    BY <1>2, OwnedType
  <2> HIDE DEF f, g, h, c
  <2> QED BY <2>1, <2>2, <2>3, <2>4
<1>4. Paid(tx) = Total(f, n) /\ Makes(Values, tx) = Total(g, n) /\ Makes(c, tx) = Total(h, n)
  BY DEF Paid, Makes
<1>5. \A o \in 1..n : tx.outputs[o].amount \in Nat
  BY <1>2, AmountAssumption DEF Amount
<1>6. 1 \in 1..n /\ (n = 2 => 2 \in 1..n)
  BY <1>1
<1>7. a \in Nat /\ (n = 2 => b \in Nat) /\ a > 0
  BY <1>1, <1>5, <1>6
<1>8. /\ f[1] = a /\ h[1] = IF p = key THEN a ELSE 0
      /\ n = 2 => f[2] = b /\ h[2] = IF from = key THEN b ELSE 0
  BY <1>1, <1>3, <1>6
<1> HIDE DEF f, g, h, c, n, a, b, p
<1>9. Total(g, n) = Total(f, n)
  BY <1>1, <1>3, TotalSame
<1>10. /\ Total(f, n) = IF n = 1 THEN f[1] ELSE f[1] + f[2]
       /\ Total(h, n) = IF n = 1 THEN h[1] ELSE h[1] + h[2]
  BY <1>1, <1>3, TotalOfFew
<1>11. Paid(tx) = IF n = 2 THEN a + b ELSE a
  BY <1>1, <1>4, <1>7, <1>8, <1>10
<1>12. Makes(c, tx) = (IF p = key THEN a ELSE 0) + (IF n = 2 /\ from = key THEN b ELSE 0)
  BY <1>1, <1>4, <1>7, <1>8, <1>10
<1> QED BY <1>4, <1>7, <1>9, <1>11, <1>12 DEF n, a, b, c, p

(* The transaction moves its amount from one key to another. *)
LEMMA PaymentMoves ==
  ASSUME AmountsTold, OwnersTold, NEW tx, NEW from, IsPayment(tx, from), NEW key
  PROVE  LET n == Len(tx.inputs)
             c == OwnedBy(key)
         IN  /\ Spends(c, tx, n) \in Nat /\ Makes(c, tx) \in Int
             /\ Leaves(key, tx) \in Nat /\ Arrives(key, tx) \in Nat
             /\ Leaves(key, tx) <= Spends(c, tx, n)
             /\ Makes(c, tx) + Leaves(key, tx) = Spends(c, tx, n) + Arrives(key, tx)
             /\ Spends(Values, tx, n) \in Nat /\ Makes(Values, tx) = Spends(Values, tx, n)
<1> DEFINE n == Len(tx.inputs)
           c == OwnedBy(key)
           a == tx.outputs[1].amount
           b == tx.outputs[2].amount
           two == Len(tx.outputs) = 2
           S == Spends(Values, tx, n)
           s == Spends(c, tx, n)
           m == Makes(c, tx)
           l == Leaves(key, tx)
           r == Arrives(key, tx)
           P == tx.outputs[1].pub
<1>1. S \in Nat /\ s = IF from = key THEN S ELSE 0
  BY SpendsOwned
<1>2. /\ a \in Nat /\ a > 0 /\ (two => b \in Nat)
      /\ Paid(tx) = IF two THEN a + b ELSE a
      /\ Makes(Values, tx) = Paid(tx)
      /\ m = (IF P = key THEN a ELSE 0) + (IF two /\ from = key THEN b ELSE 0)
  BY MakesOwned
<1>3. S = Paid(tx) /\ tx.inputs[1].sig[2] = from
  BY DEF IsPayment
<1>4. l = (IF from = key THEN a ELSE 0) /\ r = IF P = key THEN a ELSE 0
  BY <1>3 DEF Leaves, Arrives, Payment
<1> HIDE DEF n, c, a, b, two, S, s, m, l, r, P
<1>5. /\ s \in Nat /\ m \in Int /\ l \in Nat /\ r \in Nat /\ l <= s /\ m + l = s + r
      /\ S \in Nat /\ Makes(Values, tx) = S
  BY <1>1, <1>2, <1>3, <1>4
<1> QED BY <1>5 DEF n, c, S, s, m, l, r

-----------------------------------------------------------------------------
(* What the pending transactions do together.                               *)

(* What they spend and make, what leaves a key and what arrives there. *)
AllSpends(c, txs) ==
    Total([i \in 1..Len(txs) |-> Spends(c, txs[i], Len(txs[i].inputs))], Len(txs))
AllMakes(c, txs) == Total([i \in 1..Len(txs) |-> Makes(c, txs[i])], Len(txs))
AllLeaves(key, txs) == Total([i \in 1..Len(txs) |-> Leaves(key, txs[i])], Len(txs))
AllArrives(key, txs) == Total([i \in 1..Len(txs) |-> Arrives(key, txs[i])], Len(txs))

(* Each of them is a payment of some key. *)
ArePayments(txs) == \A i \in 1..Len(txs) : \E from \in Keys : IsPayment(txs[i], from)

(* What the payments move is taken from one key and given to another. *)
LEMMA PaymentsMove ==
  ASSUME AmountsTold, OwnersTold, NEW txs, Len(txs) \in Nat, ArePayments(txs), NEW key
  PROVE  LET c == OwnedBy(key)
         IN  /\ AllSpends(c, txs) \in Int /\ AllMakes(c, txs) \in Int
             /\ AllLeaves(key, txs) \in Int /\ AllArrives(key, txs) \in Int
             /\ AllLeaves(key, txs) <= AllSpends(c, txs)
             /\ AllMakes(c, txs) + AllLeaves(key, txs)
                  = AllSpends(c, txs) + AllArrives(key, txs)
<1> DEFINE n == Len(txs)
           c == OwnedBy(key)
           S == [i \in 1..n |-> Spends(c, txs[i], Len(txs[i].inputs))]
           M == [i \in 1..n |-> Makes(c, txs[i])]
           L == [i \in 1..n |-> Leaves(key, txs[i])]
           R == [i \in 1..n |-> Arrives(key, txs[i])]
           B == [i \in 1..n |-> S[i] + R[i]]
<1>1. ASSUME NEW i \in 1..n
      PROVE  /\ S[i] \in Int /\ M[i] \in Int /\ L[i] \in Int /\ R[i] \in Int
             /\ L[i] <= S[i] /\ M[i] + L[i] = S[i] + R[i]
  <2>1. PICK from \in Keys : IsPayment(txs[i], from)
    BY DEF ArePayments
  <2>2. /\ Spends(c, txs[i], Len(txs[i].inputs)) \in Nat /\ Makes(c, txs[i]) \in Int
        /\ Leaves(key, txs[i]) \in Nat /\ Arrives(key, txs[i]) \in Nat
        /\ Leaves(key, txs[i]) <= Spends(c, txs[i], Len(txs[i].inputs))
        /\ Makes(c, txs[i]) + Leaves(key, txs[i])
             = Spends(c, txs[i], Len(txs[i].inputs)) + Arrives(key, txs[i])
    BY <2>1, PaymentMoves
  <2> HIDE DEF c
  <2> QED BY <2>2
<1>2. /\ AllSpends(c, txs) = Total(S, n) /\ AllMakes(c, txs) = Total(M, n)
      /\ AllLeaves(key, txs) = Total(L, n) /\ AllArrives(key, txs) = Total(R, n)
  BY DEF AllSpends, AllMakes, AllLeaves, AllArrives
<1>3. \A i \in 1..n : B[i] = S[i] + R[i] /\ B[i] = M[i] + L[i]
  <2> HIDE DEF S, M, L, R
  <2> QED BY <1>1
<1> HIDE DEF n, c, S, M, L, R, B
<1>4. n \in Nat /\ n \in 0..n
  BY DEF n
<1>5. /\ Total(S, n) \in Int /\ Total(M, n) \in Int
      /\ Total(L, n) \in Int /\ Total(R, n) \in Int
  <2>1. Total(S, n) \in Int
    BY <1>1, <1>4, TotalSteps
  <2>2. Total(M, n) \in Int
    BY <1>1, <1>4, TotalSteps
  <2>3. Total(L, n) \in Int
    BY <1>1, <1>4, TotalSteps
  <2>4. Total(R, n) \in Int
    BY <1>1, <1>4, TotalSteps
  <2> QED BY <2>1, <2>2, <2>3, <2>4
<1>6. Total(L, n) <= Total(S, n)
  BY <1>1, <1>4, TotalMonotone
<1>7. Total(B, n) = Total(S, n) + Total(R, n)
  BY <1>1, <1>3, <1>4, TotalPlus
<1>8. Total(B, n) = Total(M, n) + Total(L, n)
  BY <1>1, <1>3, <1>4, TotalPlus
<1>9. Total(M, n) + Total(L, n) = Total(S, n) + Total(R, n)
  BY <1>7, <1>8
<1> QED BY <1>2, <1>5, <1>6, <1>9 DEF c

(* They make neither more nor less than they spend. *)
LEMMA PaymentsEven ==
  ASSUME AmountsTold, OwnersTold, NEW txs, Len(txs) \in Nat, ArePayments(txs)
  PROVE  /\ AllSpends(Values, txs) \in Int
         /\ AllMakes(Values, txs) = AllSpends(Values, txs)
<1> DEFINE n == Len(txs)
           S == [i \in 1..n |-> Spends(Values, txs[i], Len(txs[i].inputs))]
           M == [i \in 1..n |-> Makes(Values, txs[i])]
<1>1. ASSUME NEW i \in 1..n
      PROVE  S[i] \in Int /\ M[i] = S[i]
  <2>1. PICK from \in Keys : IsPayment(txs[i], from)
    BY DEF ArePayments
  <2>2. /\ Spends(Values, txs[i], Len(txs[i].inputs)) \in Nat
        /\ Makes(Values, txs[i]) = Spends(Values, txs[i], Len(txs[i].inputs))
    BY <2>1, PaymentMoves
  <2> QED BY <2>2
<1>2. AllSpends(Values, txs) = Total(S, n) /\ AllMakes(Values, txs) = Total(M, n)
  BY DEF AllSpends, AllMakes
<1> HIDE DEF n, S, M
<1>3. n \in Nat /\ n \in 0..n
  BY DEF n
<1>4. Total(S, n) \in Int
  BY <1>1, <1>3, TotalSteps
<1>5. Total(M, n) = Total(S, n)
  BY <1>1, <1>3, TotalSame
<1> QED BY <1>2, <1>4, <1>5

(* One more term. *)
LEMMA TotalAppend ==
  ASSUME NEW n \in Nat, NEW f, NEW h, \A k \in 1..n : f[k] \in Int /\ h[k] = f[k],
         h[n + 1] \in Int
  PROVE  Total(h, n + 1) = Total(f, n) + h[n + 1]
<1>1. \A k \in 1..(n + 1) : h[k] \in Int
  <2> TAKE k \in 1..(n + 1)
  <2>1. k \in 1..n \/ k = n + 1
    OBVIOUS
  <2> QED BY <2>1
<1>2. n + 1 \in Nat /\ n + 1 \in 1..(n + 1) /\ (n + 1) - 1 = n
  OBVIOUS
<1>3. Total(h, n + 1) = Total(h, n) + h[n + 1]
  BY <1>1, <1>2, TotalSteps
<1>4. Total(h, n) = Total(f, n)
  BY TotalSame
<1> QED BY <1>3, <1>4

(* One more payment spends and takes what it spends and takes. *)
LEMMA PaymentAppended ==
  ASSUME AmountsTold, OwnersTold, NEW txs, Len(txs) \in Nat, ArePayments(txs),
         NEW more, Len(more) = Len(txs) + 1, \A i \in 1..Len(txs) : more[i] = txs[i],
         NEW c, \A i \in 1..Len(more) : Spends(c, more[i], Len(more[i].inputs)) \in Int
  PROVE  LET tx == more[Len(txs) + 1]
         IN  AllSpends(c, more) = AllSpends(c, txs) + Spends(c, tx, Len(tx.inputs))
<1> DEFINE n == Len(txs)
           s(tx) == Spends(c, tx, Len(tx.inputs))
           f == [i \in 1..n |-> s(txs[i])]
           h == [i \in 1..Len(more) |-> s(more[i])]
<1>1. n \in Nat /\ Len(more) = n + 1 /\ \A i \in 1..n : i \in 1..Len(more) /\ more[i] = txs[i]
  OBVIOUS
<1>2. AllSpends(c, txs) = Total(f, n) /\ AllSpends(c, more) = Total(h, n + 1)
  <2>1. AllSpends(c, more) = Total(h, Len(more))
    BY DEF AllSpends
  <2> QED BY <2>1 DEF AllSpends
<1>3. \A i \in 1..Len(more) : s(more[i]) \in Int
  OBVIOUS
<1> HIDE DEF n, s
<1>4. \A k \in 1..n : f[k] \in Int /\ h[k] = f[k]
  BY <1>1, <1>3
<1>5. h[n + 1] = s(more[n + 1]) /\ h[n + 1] \in Int
  <2>1. n + 1 \in 1..Len(more)
    BY <1>1
  <2> QED BY <1>3, <2>1
<1> HIDE DEF f, h
<1>6. Total(h, n + 1) = Total(f, n) + h[n + 1]
  BY <1>1, <1>4, <1>5, TotalAppend
<1> QED BY <1>2, <1>5, <1>6 DEF s, n

(* The block spends and makes what the transactions behind its coinbase do. *)
LEMMA BlockOfRest ==
  ASSUME NEW D, NEW first, NEW kept \in Seq(D), NEW c, Makes(c, first) \in Int,
         \A i \in 1..Len(kept) : /\ Spends(c, kept[i], Len(kept[i].inputs)) \in Int
                                 /\ Makes(c, kept[i]) \in Int
  PROVE  LET txs == <<first>> \o kept
         IN  /\ BlockSpends(c, txs, Len(txs)) = AllSpends(c, kept)
             /\ BlockMakes(c, txs, Len(txs)) = Makes(c, first) + AllMakes(c, kept)
<1> DEFINE txs == <<first>> \o kept
           K == Len(kept)
           s(tx) == Spends(c, tx, Len(tx.inputs))
           m(tx) == Makes(c, tx)
           f == [i \in 1..K |-> s(kept[i])]
           h == [i \in 1..Len(txs) |-> IF i = 1 THEN 0 ELSE s(txs[i])]
           g == [i \in 1..K |-> m(kept[i])]
           e == [i \in 1..Len(txs) |-> m(txs[i])]
<1>1. /\ K \in Nat /\ Len(txs) = K + 1 /\ txs[1] = first
      /\ \A i \in 1..K : i + 1 \in 2..Len(txs) /\ txs[i + 1] = kept[i]
  <2> HIDE DEF txs
  <2> QED BY ConsParts DEF txs
<1>2. /\ BlockSpends(c, txs, Len(txs)) = Total(h, K + 1) /\ AllSpends(c, kept) = Total(f, K)
      /\ BlockMakes(c, txs, Len(txs)) = Total(e, K + 1) /\ AllMakes(c, kept) = Total(g, K)
  <2>1. BlockSpends(c, txs, Len(txs)) = Total(h, Len(txs))
    BY DEF BlockSpends
  <2>2. BlockMakes(c, txs, Len(txs)) = Total(e, Len(txs))
    BY DEF BlockMakes
  <2>3. AllSpends(c, kept) = Total(f, K) /\ AllMakes(c, kept) = Total(g, K)
    BY DEF AllSpends, AllMakes
  <2> HIDE DEF txs, h, e
  <2> QED BY <1>1, <2>1, <2>2, <2>3
<1>3. m(first) \in Int /\ \A i \in 1..K : s(kept[i]) \in Int /\ m(kept[i]) \in Int
  OBVIOUS
<1> HIDE DEF txs, s, m, K
<1>4. 1 \in 1..Len(txs) /\ \A i \in 1..K : i + 1 \in 1..Len(txs) /\ i + 1 # 1
  BY <1>1
<1>5. h[1] = 0 /\ e[1] = m(first)
  BY <1>1, <1>4
<1>6. \A k \in 1..K : /\ f[k] \in Int /\ h[k + 1] = f[k]
                      /\ g[k] \in Int /\ e[k + 1] = g[k]
  <2> SUFFICES ASSUME NEW k \in 1..K
               PROVE  /\ f[k] \in Int /\ h[k + 1] = f[k]
                      /\ g[k] \in Int /\ e[k + 1] = g[k]
    OBVIOUS
  <2>1. k + 1 \in 1..Len(txs) /\ k + 1 # 1 /\ txs[k + 1] = kept[k]
    BY <1>1, <1>4
  <2>2. h[k + 1] = s(txs[k + 1]) /\ e[k + 1] = m(txs[k + 1])
    BY <2>1
  <2> QED BY <1>3, <2>1, <2>2
<1> HIDE DEF f, g, h, e
<1>7. Total(h, K + 1) = h[1] + Total(f, K)
  <2>1. h[1] \in Int /\ K \in Nat
    BY <1>1, <1>5
  <2>2. \A k \in 1..K : f[k] \in Int /\ h[k + 1] = f[k]
    BY <1>6
  <2> QED BY <2>1, <2>2, TotalBehind
<1>8. Total(e, K + 1) = e[1] + Total(g, K)
  BY <1>1, <1>3, <1>5, <1>6, TotalBehind
<1>9. Total(f, K) \in Int
  <2>1. K \in 0..K
    BY <1>1
  <2> QED BY <1>1, <1>6, <2>1, TotalSteps
<1>10. Total(h, K + 1) = Total(f, K)
  BY <1>5, <1>7, <1>9
<1> QED BY <1>2, <1>5, <1>8, <1>10 DEF txs, m

-----------------------------------------------------------------------------
(* A block of all pending transactions.                                     *)

(* The transactions are valid, and the list has an entry for each of their  *)
(* inputs.                                                                  *)
Settleable(txs, u) ==
    /\ IsTransactionList(txs)
    /\ Made(txs)
    /\ Backed(txs, u)
    /\ \A i \in 1..Len(txs) : TransactionIsValid(txs[i], u)

(* A coinbase has the fields of a transaction. *)
LEMMA CoinbaseTyped ==
  ASSUME NEW key, NEW index
  PROVE  IsTransaction(CoinbaseCreate(key, index))
<1>1. COINBASE_AMOUNT \in Amount
  BY AmountAssumption DEF Amount
<1> QED BY <1>1 DEF CoinbaseCreate, IsTransaction, IsSeq, TxOutCreate

(* Behind a coinbase such transactions are a block that can be paid. *)
LEMMA BlockOfSettleable ==
  ASSUME AmountsTold, IndexesTold, NEW u, IsSeq(u), Genuine(Members(u)),
         NEW txs, Settleable(txs, u), NEW key \in Keys, NEW index \in 0..(UINT32 - 1)
  PROVE  LET block == <<CoinbaseCreate(key, index)>> \o txs
         IN  Payable(block, u) /\ IsTransactionList(block) /\ Made(block)
<1> DEFINE coinbase == CoinbaseCreate(key, index)
           block == <<coinbase>> \o txs
           E == Members(txs)
           D == E \cup {coinbase}
<1>1. IsCoinbase(coinbase) /\ MadeOutputs(coinbase) /\ IsTransaction(coinbase)
  BY CoinbaseFits, CoinbaseTyped
<1>2. txs \in Seq(E) /\ \A tx \in E : IsTransaction(tx)
  BY SeqOfMembers DEF Settleable, IsTransactionList, Members
<1> HIDE DEF coinbase, E
<1>3. Payable(block, u)
  BY <1>1, BlockPayable DEF Settleable
<1>4. /\ block[1] = coinbase
      /\ \A i \in 2..Len(block) : i - 1 \in 1..Len(txs) /\ block[i] = txs[i - 1]
      /\ \A i \in 1..Len(block) : i = 1 \/ i \in 2..Len(block)
  <2> HIDE DEF block
  <2> QED BY <1>2, ConsParts DEF block
<1>5. txs \in Seq(D) /\ coinbase \in D /\ \A tx \in D : IsTransaction(tx)
  BY <1>1, <1>2
<1> HIDE DEF D
<1>6. block \in Seq(D)
  BY <1>5
<1> HIDE DEF block
<1>7. IsTransactionList(block)
  BY <1>5, <1>6, SeqIsSeq DEF IsTransactionList
<1>8. Made(block)
  BY <1>1, <1>4 DEF Made, Settleable
<1> QED BY <1>3, <1>7, <1>8 DEF block, coinbase

(* What the list holds covers what the transactions spend, and a block of   *)
(* all of them takes that away and adds what they make.                     *)
LEMMA BlockSettles ==
  ASSUME AmountsTold, IndexesTold, NEW u, IsSeq(u), Genuine(Members(u)),
         NEW txs, Settleable(txs, u), NEW key \in Keys, NEW index \in 0..(UINT32 - 1),
         NEW hash, NEW c \in [OutputHashes -> Int]
  PROVE  LET coinbase == CoinbaseCreate(key, index)
         IN  /\ \A i \in 1..Len(txs) : Spends(c, txs[i], Len(txs[i].inputs)) \in Int
             /\ (\A h \in OutputHashes : c[h] \in Nat) => AllSpends(c, txs) <= Held(c, u)
             /\ Held(c, UpdateUnspent(<<coinbase>> \o txs, hash, u))
                  = (Held(c, u) - AllSpends(c, txs)) + (Makes(c, coinbase) + AllMakes(c, txs))
<1> DEFINE coinbase == CoinbaseCreate(key, index)
           block == <<coinbase>> \o txs
           D == Members(txs)
           N == Len(block)
           s(tx) == Spends(c, tx, Len(tx.inputs))
<1>1. Payable(block, u) /\ IsTransactionList(block) /\ Made(block)
  BY BlockOfSettleable
<1>2. txs \in Seq(D)
  BY SeqOfMembers DEF Settleable, IsTransactionList
<1> HIDE DEF coinbase, D
<1>3. /\ N = Len(txs) + 1 /\ Len(txs) \in Nat /\ block[1] = coinbase
      /\ \A i \in 1..Len(txs) : i + 1 \in 2..N /\ block[i + 1] = txs[i]
  <2> HIDE DEF block
  <2> QED BY <1>2, ConsParts DEF block
<1> HIDE DEF block
<1>4. PICK E : EntriesIn(E, u, block, hash)
  BY <1>1, BlockEntries
<1>5. Genuine(E) /\ Hashed(E, OutputHashes) /\ u \in Seq(E)
  <2>1. Genuine(E)
    BY <1>1, <1>4, GenuineEntries
  <2> QED BY <1>4, <2>1, GenuineHashed DEF EntriesIn
<1>6. \A t \in 1..N : NewUnspent(block[t], hash) \in Seq(E)
  BY <1>4 DEF EntriesIn
<1>7. MakesInSteps(c, block, hash)
  BY <1>1, <1>5, <1>6, BlockMakesSteps
<1>8. \A t \in 2..N : s(block[t]) \in Int
  BY <1>1, BlockSpendsSteps
<1>9. \A t \in 1..N : Makes(c, block[t]) \in Int
  BY <1>7 DEF MakesInSteps
<1>10. Makes(c, coinbase) \in Int
  <2>1. 1 \in 1..N
    BY <1>3
  <2> QED BY <1>3, <1>9, <2>1
<1>11. \A i \in 1..Len(txs) : s(txs[i]) \in Int /\ Makes(c, txs[i]) \in Int
  <2> TAKE i \in 1..Len(txs)
  <2>1. i + 1 \in 2..N /\ i + 1 \in 1..N /\ block[i + 1] = txs[i]
    BY <1>3
  <2>2. s(block[i + 1]) \in Int /\ Makes(c, block[i + 1]) \in Int
    BY <1>8, <1>9, <2>1
  <2> QED BY <2>1, <2>2
<1>12. /\ BlockSpends(c, block, N) = AllSpends(c, txs)
       /\ BlockMakes(c, block, N) = Makes(c, coinbase) + AllMakes(c, txs)
  BY <1>2, <1>10, <1>11, BlockOfRest DEF block
<1>13. Held(c, UpdateUnspent(block, hash, u))
         = (Held(c, u) - BlockSpends(c, block, N)) + BlockMakes(c, block, N)
  BY <1>1, <1>4, <1>5, BlockHeld
<1>14. ASSUME \A h \in OutputHashes : c[h] \in Nat
       PROVE  AllSpends(c, txs) <= Held(c, u)
  <2>1. N \in 1..N
    BY <1>3
  <2>2. \E old \in Seq(E), new \in Seq(E) :
           Divided(old, new, u, block, N, Updating(u, block, hash)[N])
    BY <1>1, <1>4, <1>5, <2>1, BlockDivided
  <2>3. PICK old \in Seq(E) : \E new \in Seq(E) :
           Divided(old, new, u, block, N, Updating(u, block, hash)[N])
    BY <2>2
  <2>4. Held(c, old) = Held(c, u) - BlockSpends(c, block, N)
    BY <2>3 DEF Divided
  <2>5. Held(c, old) \in Nat /\ Held(c, u) \in Int
    BY <1>5, <1>14, HeldNatural, HeldType
  <2>6. BlockSpends(c, block, N) \in Int
    BY <1>1, <2>1, BlockSpendsSteps
  <2> DEFINE a == Held(c, u)
             b == BlockSpends(c, block, N)
  <2>7. a \in Int /\ b \in Int /\ a - b >= 0
    BY <2>4, <2>5, <2>6
  <2> HIDE DEF a, b
  <2>8. b <= a
    BY <2>7
  <2> QED BY <1>12, <2>8 DEF a, b
<1> QED BY <1>11, <1>12, <1>13, <1>14 DEF coinbase, block

(* An input finds entries of the same output in two lists when each entry   *)
(* of the first is in the second.                                           *)
LEMMA SameOutput ==
  ASSUME AmountsTold, OwnersTold, NEW u, NEW v, IsSeq(u), IsSeq(v),
         Genuine(Members(u)), Genuine(Members(v)), Members(u) \subseteq Members(v),
         NEW tx, TransactionIsValid(tx, u), NEW n \in 1..Len(tx.inputs)
  PROVE  LET j == First(Matches(tx.inputs[n], u))
             k == First(Matches(tx.inputs[n], v))
         IN  /\ j # 0 /\ k # 0
             /\ v[k].out.pub = u[j].out.pub
             /\ v[k].out.amount = u[j].out.amount
<1> DEFINE in == tx.inputs[n]
           j == First(Matches(in, u))
           k == First(Matches(in, v))
<1>1. j \in 1..Len(u) /\ Reference(in) = Reference(TxInCreate(u[j]))
  BY ValidHash
<1>2. Len(u) \in Nat /\ Len(v) \in Nat
  BY DEF IsSeq
<1>3. k \in Matches(in, v)
  <2>1. Matches(in, v) \subseteq 1..Len(v)
    BY DEF Matches
  <2>2. Matches(in, v) # {}
    <3> HIDE DEF j, in
    <3>1. u[j] \in Members(v)
      BY <1>1 DEF Members
    <3>2. PICK i \in 1..Len(v) : v[i] = u[j]
      BY <3>1 DEF Members
    <3>3. i \in Matches(in, v)
      BY <1>1, <3>2 DEF Matches, InOutMatch
    <3> QED BY <3>3
  <2> HIDE DEF in
  <2> QED BY <1>2, <2>1, <2>2, FirstHit
<1> HIDE DEF j, k, in
<1>4. k \in 1..Len(v) /\ Reference(in) = Reference(TxInCreate(v[k]))
  BY <1>3 DEF Matches, InOutMatch
<1>5. v[k].out.hash = u[j].out.hash
  BY <1>1, <1>4 DEF Reference, TxInCreate
<1>6. IsOutput(u[j].out) /\ IsOutput(v[k].out)
  BY <1>1, <1>4 DEF Genuine, Members
<1>7. /\ Values[u[j].out.hash] = u[j].out.amount /\ Owners[u[j].out.hash] = u[j].out.pub
      /\ Values[v[k].out.hash] = v[k].out.amount /\ Owners[v[k].out.hash] = v[k].out.pub
  BY <1>6, ValueOfOutput, OwnerOfHash
<1>8. v[k].out.amount = u[j].out.amount /\ v[k].out.pub = u[j].out.pub
  BY <1>5, <1>7
<1>9. j # 0 /\ k # 0
  BY <1>1, <1>2, <1>4
<1> QED BY <1>8, <1>9 DEF j, k, in

(* So a transaction that is valid against the first is valid against the    *)
(* second: what matters of an entry is its output.                          *)
LEMMA ValidAmongMore ==
  ASSUME AmountsTold, OwnersTold, NEW u, NEW v, IsSeq(u), IsSeq(v),
         Genuine(Members(u)), Genuine(Members(v)), Members(u) \subseteq Members(v),
         NEW tx, TransactionIsValid(tx, u)
  PROVE  TransactionIsValid(tx, v)
<1> DEFINE N == Len(tx.inputs)
           matched(w) == [n \in 1..N |-> First(Matches(tx.inputs[n], w))]
           amounts(w) == [n \in 1..N |-> w[matched(w)[n]].out.amount]
           signed(w) == \A n \in 1..N :
                           /\ matched(w)[n] # 0
                           /\ Verify(w[matched(w)[n]].out.pub, tx.id, tx.inputs[n].sig)
           rest(a) == /\ tx.id = TransactionHash(tx.inputs, tx.outputs)
                      /\ Sum32(a, N) = Sum32([n \in 1..Len(tx.outputs) |->
                                                tx.outputs[n].amount], Len(tx.outputs))
<1>1. \A w : TransactionIsValid(tx, w) <=> signed(w) /\ rest(amounts(w))
  BY DEF TransactionIsValid, Matches
<1>2. \A n \in 1..N : /\ matched(v)[n] # 0
                      /\ v[matched(v)[n]].out.pub = u[matched(u)[n]].out.pub
                      /\ v[matched(v)[n]].out.amount = u[matched(u)[n]].out.amount
  <2> TAKE n \in 1..N
  <2>1. /\ matched(u)[n] = First(Matches(tx.inputs[n], u))
        /\ matched(v)[n] = First(Matches(tx.inputs[n], v))
    OBVIOUS
  <2> HIDE DEF matched
  <2> QED BY <2>1, SameOutput
<1> HIDE DEF matched
<1>3. signed(u) => signed(v)
  BY <1>2
<1>4. amounts(v) = amounts(u)
  BY <1>2
<1> HIDE DEF signed, amounts, rest
<1> QED BY <1>1, <1>3, <1>4

(* Sorting the list makes no transaction invalid. *)
LEMMA ValidSorted ==
  ASSUME AmountsTold, OwnersTold, NEW u, IsSeq(u), Genuine(Members(u)),
         NEW tx, TransactionIsValid(tx, u)
  PROVE  TransactionIsValid(tx, SortByAmount(u))
<1> DEFINE E == Members(u)
           v == SortByAmount(u)
<1>1. u \in Seq(E)
  BY SeqOfMembers
<1>2. /\ v \in Seq(E) /\ Len(v) = Len(u)
      /\ \E place \in [1..Len(u) -> 1..Len(u)] : \A i \in 1..Len(u) : v[place[i]] = u[i]
  <2> HIDE DEF E
  <2> QED BY <1>1, SortType, SortPermutes
<1>3. IsSeq(v) /\ Genuine(Members(v))
  <2>1. \A i \in 1..Len(v) : v[i] \in E
    BY <1>2, SeqIsSeq
  <2> QED BY <1>2, <2>1, SeqIsSeq DEF Genuine, Members
<1>4. Members(u) \subseteq Members(v)
  <2> SUFFICES ASSUME NEW i \in 1..Len(u) PROVE u[i] \in Members(v)
    BY DEF Members
  <2> HIDE DEF v
  <2>1. PICK place \in [1..Len(u) -> 1..Len(u)] : \A l \in 1..Len(u) : v[place[l]] = u[l]
    BY <1>2
  <2>2. place[i] \in 1..Len(v) /\ v[place[i]] = u[i]
    BY <1>2, <2>1
  <2> QED BY <2>2 DEF Members
<1> HIDE DEF v
<1>5. TransactionIsValid(tx, v)
  BY <1>3, <1>4, ValidAmongMore
<1> QED BY <1>5 DEF v

(* The purge keeps all of a pool of valid transactions. *)
LEMMA PurgeOfValid ==
  ASSUME NEW txs, IsSeq(txs), NEW u, \A i \in 1..Len(txs) : TransactionIsValid(txs[i], u)
  PROVE  Purge(txs, u) = txs
<1> DEFINE E == Members(txs)
<1>1. txs \in Seq(E)
  BY SeqOfMembers
<1> HIDE DEF E
<1> QED BY <1>1, PurgeIsValidAmong, AllOfValid

-----------------------------------------------------------------------------
(* What send adds to the pool is a payment.                                 *)

(* An input of transaction_create carries the sender's signature or none.   *)
LEMMA SignedBySender ==
  ASSUME NEW u, NEW sender, NEW txs, NEW inputs \in Seq(SelectableInputs(u, sender, txs)),
         NEW id, NEW n \in 1..Len(inputs)
  PROVE  SignInputs(inputs, id, sender, u)[n].sig \in {Signature(sender, id), NoSignature}
<1> DEFINE I == SelectableInputs(u, sender, txs)
           Signed(in) == [in EXCEPT !.sig = Signature(sender, id)]
           signed == SignInputs(inputs, id, sender, u)
<1>1. signed = [m \in 1..Len(inputs) |->
                  IF \A k \in 1..m : Signable(inputs[k], sender, u)
                  THEN Signed(inputs[m]) ELSE inputs[m]]
  BY DEF SignInputs
<1>2. inputs[n] \in I
  OBVIOUS
<1>3. PICK k \in 1..Len(u) : inputs[n] = TxInCreate(u[k])
  BY <1>2 DEF SelectableInputs
<1>4. \A e : TxInCreate(e).sig = NoSignature /\ Signed(TxInCreate(e)).sig = Signature(sender, id)
  BY DEF TxInCreate
<1>5. inputs[n].sig = NoSignature /\ Signed(inputs[n]).sig = Signature(sender, id)
  BY <1>3, <1>4
<1> HIDE DEF signed, Signed, I
<1>6. signed[n] = Signed(inputs[n]) \/ signed[n] = inputs[n]
  BY <1>1
<1>7. signed[n].sig \in {Signature(sender, id), NoSignature}
  BY <1>5, <1>6
<1> QED BY <1>7 DEF signed

(* The signatures of two keys are different, and none is no signature.      *)
LEMMA SignaturesTold ==
  ASSUME NEW p, NEW q, NEW id, Signature(p, id) \in {Signature(q, id), NoSignature}
  PROVE  p = q
<1>1. Signature(p, id) # NoSignature
  <2>1. Len(<<"sig", p, id>>) = 3 /\ Len(<<"nosig">>) = 1
    OBVIOUS
  <2> QED BY <2>1 DEF Signature, NoSignature
<1>2. Signature(p, id)[2] = p /\ Signature(q, id)[2] = q
  BY DEF Signature
<1> QED BY <1>1, <1>2

(* What transaction_create builds of an amount that send accepts.           *)
SentTo(tx, sender, receiver, amount) ==
    /\ sender \in Keys /\ receiver \in Keys
    /\ amount \in 1..(UINT32 - 1)
    /\ IsTransaction(tx)
    /\ MadeOutputs(tx)
    /\ \A n \in 1..Len(tx.inputs) : tx.inputs[n].sig \in {Signature(sender, tx.id), NoSignature}
    /\ Len(tx.outputs) \in 1..2
    /\ tx.outputs[1].amount = amount /\ tx.outputs[1].pub = receiver
    /\ Len(tx.outputs) = 2 => tx.outputs[2].pub = sender
    /\ Paid(tx) \in 0..(UINT32 - 1)

(* The amount, and the rest of what was selected. *)
LEMMA SentOutputs ==
  ASSUME NEW sender, NEW receiver, NEW amount \in Amount, NEW total \in Amount, total >= amount,
         NEW tx, tx.outputs = SendAmount(sender, receiver, amount, total)
  PROVE  /\ Len(tx.outputs) \in 1..2
         /\ tx.outputs[1].amount = amount /\ tx.outputs[1].pub = receiver
         /\ Len(tx.outputs) = 2 => tx.outputs[2].pub = sender
         /\ Paid(tx) = total
<1> DEFINE first == TxOutCreate(amount, receiver)
           change == TxOutCreate(total - amount, sender)
           paid == [o \in 1..Len(tx.outputs) |-> tx.outputs[o].amount]
<1>1. /\ first.amount = amount /\ first.pub = receiver
      /\ change.amount = total - amount /\ change.pub = sender
  BY DEF TxOutCreate
<1>2. amount \in Int /\ total \in Int /\ total - amount \in Int
  BY AmountAssumption DEF Amount
<1>3. tx.outputs = <<first>> \o (IF total = amount THEN <<>> ELSE <<change>>)
  BY DEF SendAmount
<1>4. Paid(tx) = Total(paid, Len(tx.outputs))
  BY DEF Paid
<1> HIDE DEF first, change
<1>5. CASE total = amount
  <2>1. tx.outputs = <<first>> \o <<>>
    BY <1>3, <1>5
  <2>2. Len(tx.outputs) = 1 /\ tx.outputs[1] = first
    BY <2>1
  <2>3. \A k \in 1..1 : paid[k] \in Int
    BY <1>1, <1>2, <2>2
  <2>4. paid[1] = total
    <3>1. paid[1] = tx.outputs[1].amount
      BY <2>2
    <3> HIDE DEF paid
    <3> QED BY <1>1, <1>5, <2>2, <3>1
  <2> HIDE DEF paid
  <2>5. Total(paid, 1) = paid[1]
    BY <2>3, TotalOfFew
  <2> QED BY <1>1, <1>4, <2>2, <2>4, <2>5
<1>6. CASE total # amount
  <2>1. tx.outputs = <<first>> \o <<change>>
    BY <1>3, <1>6
  <2>2. Len(tx.outputs) = 2 /\ tx.outputs[1] = first /\ tx.outputs[2] = change
    BY <2>1
  <2>3. \A k \in 1..2 : paid[k] \in Int
    BY <1>1, <1>2, <2>2
  <2>4. paid[1] = amount /\ paid[2] = total - amount
    BY <1>1, <2>2
  <2> HIDE DEF paid
  <2>5. Total(paid, 2) = paid[1] + paid[2]
    BY <2>3, TotalOfFew
  <2> QED BY <1>1, <1>2, <1>4, <2>2, <2>4, <2>5
<1> QED BY <1>5, <1>6

(* The transaction that joins the pool is one, and it is valid.             *)
LEMMA SentTransaction ==
  ASSUME IInv, Made(pool), NEW amount \in Amounts, NEW receiver, Send(amount, receiver)
  PROVE  LET tx == TransactionCreate(wallet, receiver, amount % UINT32, unspent, pool)
         IN  /\ pool' = Append(pool, tx)
             /\ TransactionIsValid(tx, unspent)
             /\ SentTo(tx, wallet, receiver, amount % UINT32)
<1> DEFINE sent == amount % UINT32
           sel == Selection(wallet, sent, unspent, pool)
           tx == TransactionCreate(wallet, receiver, sent, unspent, pool)
           total == sel.total
           inputs == sel.inputs
           outputs == SendAmount(wallet, receiver, sent, total)
           id == TransactionHash(inputs, outputs)
<1>1. /\ pool' = Append(pool, tx)
      /\ CanCreate(wallet, receiver, sent, unspent, pool)
      /\ TransactionIsValid(tx, unspent)
  BY DEF Send, Sendable
<1>2. /\ tx.id = id
      /\ tx.inputs = SignInputs(inputs, id, wallet, unspent)
      /\ tx.outputs = SendAmount(wallet, receiver, sent, total)
  BY DEF TransactionCreate
<1>3. wallet \in Keys /\ receiver \in Keys /\ total >= sent /\ sent # 0
  BY <1>1 DEF CanCreate
<1>4. sent \in Amount
  BY CliAssumption, ModuloType DEF Amount
<1>5. /\ Len(unspent) \in Nat
      /\ \A k \in 1..Len(unspent) : unspent[k].out.amount \in Int
  BY AmountAssumption DEF IInv, TypeOK, IsUnspentList, IsSeq, Amount
<1>6. IsUnspentList(unspent)
  BY DEF IInv, TypeOK
<1> HIDE DEF sent
<1>7. /\ inputs \in Seq(SelectableInputs(unspent, wallet, pool))
      /\ total \in 0..(UINT32 - 1)
  BY <1>5, SelectionType
<1>8. IsTransaction(tx)
  BY <1>1, <1>4, <1>6, CreatedTransaction
<1>9. MadeOutputs(tx)
  <2>1. Made(pool')
    BY SendMade
  <2> HIDE DEF tx
  <2>2. Len(pool') = Len(pool) + 1 /\ pool'[Len(pool) + 1] = tx /\ Len(pool) \in Nat
    BY <1>1, AppendMembers DEF IInv, TypeOK, IsTransactionList, IsSeq
  <2>3. Len(pool) + 1 \in 1..Len(pool')
    BY <2>2
  <2> QED BY <2>1, <2>2, <2>3 DEF Made
<1> HIDE DEF tx, sel, total, inputs, outputs, id
<1>10. total \in Amount
  BY <1>7 DEF Amount
<1>11. /\ Len(tx.outputs) \in 1..2
       /\ tx.outputs[1].amount = sent /\ tx.outputs[1].pub = receiver
       /\ Len(tx.outputs) = 2 => tx.outputs[2].pub = wallet
       /\ Paid(tx) = total
  BY <1>2, <1>3, <1>4, <1>10, SentOutputs
<1>12. \A n \in 1..Len(tx.inputs) : tx.inputs[n].sig \in {Signature(wallet, tx.id), NoSignature}
  <2>1. Len(SignInputs(inputs, id, wallet, unspent)) = Len(inputs)
    BY <1>7, SignedInputs
  <2>2. \A n \in 1..Len(inputs) :
           SignInputs(inputs, id, wallet, unspent)[n].sig \in {Signature(wallet, id), NoSignature}
    BY <1>7, SignedBySender
  <2> QED BY <1>2, <2>1, <2>2
<1>13. sent \in 1..(UINT32 - 1)
  BY <1>3, <1>4, AmountAssumption DEF Amount
<1>14. SentTo(tx, wallet, receiver, sent)
  BY <1>3, <1>7, <1>8, <1>9, <1>11, <1>12, <1>13 DEF SentTo
<1> QED BY <1>1, <1>14 DEF tx, sent

(* When it is valid, it is a payment of the sender, provided that what it   *)
(* spends does not wrap around.                                             *)
LEMMA SentIsPayment ==
  ASSUME AmountsTold, OwnersTold, NEW u, IsSeq(u), Genuine(Members(u)),
         NEW tx, NEW sender, NEW receiver, NEW amount,
         SentTo(tx, sender, receiver, amount), TransactionIsValid(tx, u),
         Spends(Values, tx, Len(tx.inputs)) \in 0..(UINT32 - 1)
  PROVE  /\ IsPayment(tx, sender)
         /\ Payment(tx) = [from |-> sender, to |-> receiver, amount |-> amount]
<1> DEFINE N == Len(tx.inputs)
           k(n) == First(Matches(tx.inputs[n], u))
<1>1. Even(tx)
  BY ValidIsEven DEF SentTo
<1>2. HashedInputs(tx, OutputHashes) /\ N \in Nat
  BY <1>1 DEF Even, HashedInputs
<1>3. \A n \in 1..N : /\ Owners[tx.inputs[n].tx_out_hash] = sender
                      /\ tx.inputs[n].sig = Signature(sender, tx.id)
  <2> SUFFICES ASSUME NEW n \in 1..N
               PROVE  /\ Owners[tx.inputs[n].tx_out_hash] = sender
                      /\ tx.inputs[n].sig = Signature(sender, tx.id)
    OBVIOUS
  <2>1. k(n) \in 1..Len(u) /\ tx.inputs[n].tx_out_hash = u[k(n)].out.hash
    BY ValidHash
  <2>2. tx.inputs[n].sig = Signature(u[k(n)].out.pub, tx.id)
    BY DEF TransactionIsValid, Verify, Matches
  <2>3. tx.inputs[n].sig \in {Signature(sender, tx.id), NoSignature}
    BY DEF SentTo
  <2>4. IsOutput(u[k(n)].out)
    BY <2>1 DEF Genuine, Members
  <2>5. Owners[u[k(n)].out.hash] = u[k(n)].out.pub
    BY <2>4, OwnerOfHash
  <2> HIDE DEF k
  <2>6. u[k(n)].out.pub = sender
    <3> DEFINE p == u[k(n)].out.pub
               id == tx.id
    <3>1. Signature(p, id) \in {Signature(sender, id), NoSignature}
      BY <2>2, <2>3
    <3> HIDE DEF p, id
    <3>2. p = sender
      BY <3>1, SignaturesTold
    <3> QED BY <3>2 DEF p
  <2> QED BY <2>1, <2>2, <2>5, <2>6
<1>4. Spends(Values, tx, N) = Paid(tx)
  <2>1. Spends(Values, tx, N) % UINT32 = Paid(tx) % UINT32
    BY <1>1 DEF Even
  <2>2. Paid(tx) \in 0..(UINT32 - 1)
    BY DEF SentTo
  <2>3. \A a \in 0..(UINT32 - 1) : a % UINT32 = a
    BY AmountAssumption
  <2> QED BY <2>1, <2>2, <2>3
<1>5. Len(tx.outputs) \in 1..2 /\ MadeOutputs(tx) /\ tx.outputs[1].amount = amount
      /\ amount \in Int /\ amount >= 1 /\ tx.outputs[1].pub = receiver
      /\ (Len(tx.outputs) = 2 => tx.outputs[2].pub = sender)
  BY AmountAssumption DEF SentTo
<1>6. N > 0
  <2> SUFFICES ASSUME N = 0 PROVE FALSE
    BY <1>2
  <2>1. Spends(Values, tx, 0) = 0
    BY <1>2, ValuesType, SpendsSteps
  <2>2. Paid(tx) = 0
    BY <1>4, <2>1
  <2> DEFINE paid == [o \in 1..Len(tx.outputs) |-> tx.outputs[o].amount]
  <2>3. \A o \in 1..Len(tx.outputs) : paid[o] \in Nat
    BY ValueOfOutput, AmountAssumption, <1>5 DEF MadeOutputs, Amount
  <2>4. paid[1] = amount
    BY <1>5
  <2>5. Paid(tx) = Total(paid, Len(tx.outputs))
    BY DEF Paid
  <2> HIDE DEF paid
  <2>6. Len(tx.outputs) \in Nat /\ 1 \in 0..Len(tx.outputs)
    BY <1>5
  <2>7. Total(paid, 1) <= Total(paid, Len(tx.outputs))
    BY <2>3, <2>6, TotalPrefix
  <2>8. Total(paid, 1) = paid[1]
    <3>1. \A o \in 1..1 : paid[o] \in Int
      BY <1>5, <2>3
    <3> QED BY <3>1, TotalOfFew
  <2> QED BY <1>5, <2>2, <2>4, <2>5, <2>7, <2>8
<1>7. tx.inputs[1].sig[2] = sender
  BY <1>3, <1>6, <1>2 DEF Signature
<1>8. IsPayment(tx, sender)
  BY <1>2, <1>3, <1>4, <1>5, <1>6, <1>7 DEF IsPayment
<1> QED BY <1>5, <1>7, <1>8 DEF Payment

-----------------------------------------------------------------------------
(* The invariant of a session with balances.                                *)

(* All coins together stay below 2^32, so that no sum of amounts wraps      *)
(* around.                                                                  *)
CoinsFit == COINBASE_AMOUNT * (MaxBlocks - 1) < UINT32

(* The list holds one coinbase for each mined block, and the pool has valid *)
(* payments only.                                                           *)
AccountsInv ==
    /\ Len(chain) >= 1
    /\ Held(Values, unspent) = COINBASE_AMOUNT * (Len(chain) - 1)
    /\ Held(Values, unspent) < UINT32
    /\ ArePayments(pool)
    /\ \A i \in 1..Len(pool) : TransactionIsValid(pool[i], unspent)

(* The coins of a key in a list. *)
BalanceIn(key, u) ==
    Sum32([i \in 1..Len(u) |-> IF u[i].out.pub = key THEN u[i].out.amount ELSE 0], Len(u))

(* The value of an output is not negative. *)
LEMMA ValuesNatural == Values \in [OutputHashes -> Int] /\ \A h \in OutputHashes : Values[h] \in Nat
  BY ValuesType, OwnedType

(* While all coins together do not wrap around, a balance is the sum of     *)
(* what a key has.                                                          *)
LEMMA BalanceIs ==
  ASSUME AmountsTold, OwnersTold, NEW u, IsUnspentList(u), Genuine(Members(u)),
         Held(Values, u) < UINT32, NEW key
  PROVE  BalanceIn(key, u) = Held(OwnedBy(key), u) /\ Held(OwnedBy(key), u) \in Nat
<1> DEFINE c == OwnedBy(key)
           E == Members(u)
<1>1. u \in Seq(E) /\ Hashed(E, OutputHashes)
  BY SeqOfMembers, GenuineHashed DEF IsUnspentList
<1>2. /\ c \in [OutputHashes -> Int] /\ Values \in [OutputHashes -> Int]
      /\ \A h \in OutputHashes : c[h] \in Nat /\ c[h] <= Values[h]
  BY OwnedType, ValuesType
<1>3. BalanceIn(key, u) = Held(c, u) % UINT32
  BY BalanceHeld DEF BalanceIn
<1> HIDE DEF c, E
<1>4. Held(c, u) \in Nat
  BY <1>1, <1>2, HeldNatural
<1>5. Held(c, u) <= Held(Values, u)
  BY <1>1, <1>2, HeldOrder
<1>6. Held(Values, u) \in Int
  BY <1>1, <1>2, HeldType
<1>7. Held(c, u) \in 0..(UINT32 - 1)
  BY <1>4, <1>5, <1>6, AmountAssumption
<1>8. \A a \in 0..(UINT32 - 1) : a % UINT32 = a
  BY AmountAssumption
<1>9. BalanceIn(key, u) = Held(c, u)
  BY <1>3, <1>7, <1>8
<1> QED BY <1>4, <1>9 DEF c

(* A block can settle the pool. *)
LEMMA PoolSettleable ==
  ASSUME IInv, SessionInv, AccountsInv
  PROVE  /\ Settleable(pool, unspent)
         /\ IsSeq(unspent) /\ Genuine(Members(unspent)) /\ IsUnspentList(unspent)
         /\ Len(pool) \in Nat /\ IsSeq(pool)
  BY DEF IInv, TypeOK, SessionInv, AccountsInv, Settleable, IsUnspentList, IsTransactionList, IsSeq

(* Together with one transaction more that send accepts. *)
LEMMA SentSettleable ==
  ASSUME IInv, SessionInv, AccountsInv, NEW amount \in Amounts, NEW receiver,
         Send(amount, receiver)
  PROVE  Settleable(pool', unspent)
<1> DEFINE tx == TransactionCreate(wallet, receiver, amount % UINT32, unspent, pool)
<1>1. pool' = Append(pool, tx) /\ TransactionIsValid(tx, unspent)
  BY SentTransaction DEF SessionInv
<1> HIDE DEF tx
<1>2. IsTransactionList(pool')
  BY SendIInv DEF IInv, TypeOK
<1>3. Made(pool') /\ Backed(pool', unspent)
  BY SendMade, SendBacked DEF SessionInv
<1>4. /\ Len(pool') = Len(pool) + 1 /\ pool'[Len(pool) + 1] = tx /\ Len(pool) \in Nat
      /\ \A i \in 1..Len(pool) : pool'[i] = pool[i]
  BY <1>1, PoolSettleable, AppendMembers
<1>5. \A i \in 1..Len(pool') : TransactionIsValid(pool'[i], unspent)
  BY <1>1, <1>4 DEF AccountsInv
<1> QED BY <1>2, <1>3, <1>5 DEF Settleable

(* What all transactions spend is not negative when each spends something   *)
(* that is not.                                                             *)
LEMMA AllSpendsNatural ==
  ASSUME NEW txs, Len(txs) \in Nat, NEW c,
         \A i \in 1..Len(txs) : Spends(c, txs[i], Len(txs[i].inputs)) \in Nat
  PROVE  AllSpends(c, txs) \in Nat
<1> DEFINE N == Len(txs)
           f == [i \in 1..N |-> Spends(c, txs[i], Len(txs[i].inputs))]
<1>1. N \in Nat /\ \A i \in 1..N : f[i] \in Nat /\ f[i] \in Int
  OBVIOUS
<1>2. AllSpends(c, txs) = Total(f, N)
  BY DEF AllSpends
<1> HIDE DEF f, N
<1>3. Total(f, 0) = 0 /\ Total(f, N) \in Int
  <2>1. N \in 0..N /\ \A k \in 1..N : f[k] \in Int
    BY <1>1
  <2>2. Total(f, 0) = 0 /\ \A n \in 0..N : Total(f, n) \in Int
    BY <1>1, <2>1, TotalSteps
  <2> QED BY <2>1, <2>2
<1>4. Total(f, 0) <= Total(f, N)
  <2>1. 0 \in 0..N
    BY <1>1
  <2> QED BY <1>1, <2>1, TotalPrefix
<1> QED BY <1>2, <1>3, <1>4

(* What inputs spend is not negative. *)
LEMMA SpendsNatural ==
  ASSUME NEW tx, HashedInputs(tx, OutputHashes)
  PROVE  Spends(Values, tx, Len(tx.inputs)) \in Nat
<1> DEFINE N == Len(tx.inputs)
           f == [k \in 1..N |-> Values[tx.inputs[k].tx_out_hash]]
<1>1. N \in Nat /\ \A k \in 1..N : f[k] \in Nat /\ f[k] \in Int
  BY ValuesNatural DEF HashedInputs
<1>2. Spends(Values, tx, N) = Total(f, N)
  BY DEF Spends
<1> HIDE DEF f, N
<1>3. Total(f, 0) = 0 /\ Total(f, N) \in Int
  <2>1. N \in 0..N /\ \A k \in 1..N : f[k] \in Int
    BY <1>1
  <2>2. Total(f, 0) = 0 /\ \A n \in 0..N : Total(f, n) \in Int
    BY <1>1, <2>1, TotalSteps
  <2> QED BY <2>1, <2>2
<1>4. Total(f, 0) <= Total(f, N)
  <2>1. 0 \in 0..N
    BY <1>1
  <2> QED BY <1>1, <2>1, TotalPrefix
<1> QED BY <1>2, <1>3, <1>4 DEF N

(* All that the pool spends is in the list.                                 *)
LEMMA SpendsHeld ==
  ASSUME AmountsTold, IndexesTold, NEW u, IsSeq(u), Genuine(Members(u)),
         NEW txs, Settleable(txs, u), NEW key \in Keys,
         NEW c \in [OutputHashes -> Int], \A h \in OutputHashes : c[h] \in Nat
  PROVE  /\ \A i \in 1..Len(txs) : Spends(c, txs[i], Len(txs[i].inputs)) \in Int
         /\ AllSpends(c, txs) <= Held(c, u)
<1>1. 0 \in 0..(UINT32 - 1)
  BY AmountAssumption
<1> QED BY <1>1, BlockSettles

(* send adds a payment that the balance of the sender covers besides the    *)
(* payments that are pending.                                               *)
LEMMA SendCovered ==
  ASSUME AmountsTold, OwnersTold, IndexesTold, IInv, SessionInv, AccountsInv,
         NEW amount \in Amounts, NEW receiver, Send(amount, receiver)
  PROVE  LET tx == TransactionCreate(wallet, receiver, amount % UINT32, unspent, pool)
             sent == amount % UINT32
         IN  /\ pool' = Append(pool, tx)
             /\ ArePayments(pool')
             /\ \A i \in 1..Len(pool') : TransactionIsValid(pool'[i], unspent)
             /\ Payment(tx) = [from |-> wallet, to |-> receiver, amount |-> sent]
             /\ wallet \in Keys /\ receiver \in Keys
             /\ sent \in Int /\ sent >= 1
             /\ AllLeaves(wallet, pool) + sent <= Held(OwnedBy(wallet), unspent)
<1> DEFINE sent == amount % UINT32
           tx == TransactionCreate(wallet, receiver, sent, unspent, pool)
           N == Len(pool)
           c == OwnedBy(wallet)
<1>1. /\ pool' = Append(pool, tx)
      /\ TransactionIsValid(tx, unspent)
      /\ SentTo(tx, wallet, receiver, sent)
  BY SentTransaction DEF SessionInv
<1> HIDE DEF tx, sent
<1>2. wallet \in Keys /\ receiver \in Keys /\ sent \in Int /\ sent >= 1
  BY <1>1, AmountAssumption DEF SentTo
<1>3. Settleable(pool, unspent) /\ Settleable(pool', unspent)
  BY PoolSettleable, SentSettleable
<1>4. IsSeq(unspent) /\ Genuine(Members(unspent)) /\ N \in Nat /\ IsSeq(pool)
  BY PoolSettleable
<1>5. /\ Len(pool') = N + 1 /\ pool'[N + 1] = tx /\ N + 1 \in 1..Len(pool')
      /\ \A i \in 1..N : pool'[i] = pool[i]
      /\ \A i \in 1..Len(pool') : i \in 1..N \/ i = N + 1
  BY <1>1, <1>4, AppendMembers
<1>6. HashedInputs(tx, OutputHashes)
  <2>1. Even(tx)
    BY <1>1, <1>4, ValidIsEven DEF SentTo
  <2> QED BY <2>1 DEF Even
<1>7. ArePayments(pool)
  BY DEF AccountsInv
<1>8. Spends(Values, tx, Len(tx.inputs)) \in 0..(UINT32 - 1)
  <2>1. /\ \A i \in 1..Len(pool') : Spends(Values, pool'[i], Len(pool'[i].inputs)) \in Int
        /\ AllSpends(Values, pool') <= Held(Values, unspent)
    BY <1>2, <1>3, <1>4, ValuesNatural, SpendsHeld
  <2>2. AllSpends(Values, pool') = AllSpends(Values, pool) + Spends(Values, tx, Len(tx.inputs))
    BY <1>4, <1>5, <1>7, <2>1, PaymentAppended
  <2>3. AllSpends(Values, pool) \in Nat
    <3>1. \A i \in 1..N : Spends(Values, pool[i], Len(pool[i].inputs)) \in Nat
      BY <1>7, SpendsNatural DEF ArePayments, IsPayment
    <3> QED BY <1>4, <3>1, AllSpendsNatural
  <2>4. Spends(Values, tx, Len(tx.inputs)) \in Nat
    BY <1>6, SpendsNatural
  <2>5. Held(Values, unspent) \in Int
    BY <1>4, SeqOfMembers, GenuineHashed, ValuesType, HeldType
  <2>6. Held(Values, unspent) < UINT32
    BY DEF AccountsInv
  <2> QED BY <2>1, <2>2, <2>3, <2>4, <2>5, <2>6, AmountAssumption
<1>9. /\ IsPayment(tx, wallet)
      /\ Payment(tx) = [from |-> wallet, to |-> receiver, amount |-> sent]
  BY <1>1, <1>4, <1>8, SentIsPayment
<1>10. ArePayments(pool')
  BY <1>2, <1>5, <1>7, <1>9 DEF ArePayments
<1>11. \A i \in 1..Len(pool') : TransactionIsValid(pool'[i], unspent)
  BY <1>3 DEF Settleable
<1>12. AllLeaves(wallet, pool) + sent <= Held(c, unspent)
  <2>1. c \in [OutputHashes -> Int] /\ \A h \in OutputHashes : c[h] \in Nat
    BY OwnedType
  <2>2. /\ \A i \in 1..Len(pool') : Spends(c, pool'[i], Len(pool'[i].inputs)) \in Int
        /\ AllSpends(c, pool') <= Held(c, unspent)
    BY <1>2, <1>3, <1>4, <2>1, SpendsHeld
  <2>3. AllSpends(c, pool') = AllSpends(c, pool) + Spends(c, tx, Len(tx.inputs))
    BY <1>4, <1>5, <1>7, <2>2, PaymentAppended
  <2>4. /\ AllSpends(c, pool) \in Int /\ AllLeaves(wallet, pool) \in Int
        /\ AllLeaves(wallet, pool) <= AllSpends(c, pool)
    BY <1>4, <1>7, PaymentsMove
  <2>5. Leaves(wallet, tx) <= Spends(c, tx, Len(tx.inputs))
        /\ Spends(c, tx, Len(tx.inputs)) \in Nat
    BY <1>9, PaymentMoves
  <2>6. Leaves(wallet, tx) = sent
    BY <1>9 DEF Leaves
  <2>7. Held(c, unspent) \in Int
    BY <1>4, <2>1, SeqOfMembers, GenuineHashed, HeldType
  <2> HIDE DEF c
  <2> QED BY <1>2, <2>2, <2>3, <2>4, <2>5, <2>6, <2>7
<1> QED BY <1>1, <1>2, <1>9, <1>10, <1>11, <1>12 DEF tx, sent

(* A coinbase makes its amount for the miner and nothing for another key.   *)
LEMMA CoinbaseMakes ==
  ASSUME AmountsTold, OwnersTold, NEW miner \in Keys, NEW index, NEW key
  PROVE  LET tx == CoinbaseCreate(miner, index)
         IN  /\ Makes(Values, tx) = COINBASE_AMOUNT
             /\ Makes(OwnedBy(key), tx) = IF key = miner THEN COINBASE_AMOUNT ELSE 0
<1> DEFINE tx == CoinbaseCreate(miner, index)
           out == TxOutCreate(COINBASE_AMOUNT, miner)
           f(c) == [o \in 1..Len(tx.outputs) |-> c[tx.outputs[o].hash]]
<1>1. Len(tx.outputs) = 1 /\ tx.outputs[1] = out
  BY DEF CoinbaseCreate
<1>2. IsOutput(out) /\ out.amount = COINBASE_AMOUNT /\ out.pub = miner
  BY AmountAssumption DEF IsOutput, TxOutCreate, Amount
<1> HIDE DEF tx, out
<1>3. /\ out.hash \in OutputHashes /\ Values[out.hash] = COINBASE_AMOUNT
      /\ Owners[out.hash] = miner
  BY <1>2, ValueOfOutput, OwnerOfHash
<1>4. OwnedBy(key)[out.hash] = IF key = miner THEN COINBASE_AMOUNT ELSE 0
  BY <1>3, OwnedType
<1>5. COINBASE_AMOUNT \in Int /\ 0 \in Int
  BY AmountAssumption
<1>6. \A c : c[out.hash] \in Int => Makes(c, tx) = c[out.hash]
  <2> SUFFICES ASSUME NEW c, c[out.hash] \in Int PROVE Makes(c, tx) = c[out.hash]
    OBVIOUS
  <2>1. Makes(c, tx) = Total(f(c), 1)
    BY <1>1 DEF Makes
  <2>2. f(c)[1] = c[out.hash] /\ \A k \in 1..1 : f(c)[k] \in Int
    BY <1>1
  <2> DEFINE g == f(c)
  <2> HIDE DEF g
  <2>3. Total(g, 1) = g[1]
    BY <2>2, TotalOfFew DEF g
  <2> QED BY <2>1, <2>2, <2>3 DEF g
<1>7. Makes(Values, tx) = COINBASE_AMOUNT
  BY <1>3, <1>5, <1>6
<1>8. Makes(OwnedBy(key), tx) = IF key = miner THEN COINBASE_AMOUNT ELSE 0
  BY <1>4, <1>5, <1>6
<1> QED BY <1>7, <1>8 DEF tx

(* The next block takes from each key what leaves it, gives it what arrives *)
(* there, and gives the miner one coinbase.                                 *)
LEMMA MineSettles ==
  ASSUME AmountsTold, OwnersTold, IndexesTold, IInv, SessionInv, AccountsInv,
         NEW time, Mine(time)
  PROVE  /\ wallet \in Keys
         /\ Held(Values, unspent') = Held(Values, unspent) + COINBASE_AMOUNT
         /\ \A key \in Keys :
               Held(OwnedBy(key), unspent')
                 = Held(OwnedBy(key), unspent) - AllLeaves(key, pool) + AllArrives(key, pool)
                     + IF key = wallet THEN COINBASE_AMOUNT ELSE 0
<1> DEFINE block == BlockMine(DraftBlock(time))
           index == block.info.index
           hash == block.hash
           txs == <<CoinbaseCreate(wallet, index)>> \o pool
<1>1. /\ Settleable(pool, unspent)
      /\ IsSeq(unspent) /\ Genuine(Members(unspent))
      /\ Len(pool) \in Nat /\ IsSeq(pool)
  BY PoolSettleable
<1>2. ArePayments(pool) /\ \A i \in 1..Len(pool) : TransactionIsValid(pool[i], unspent)
  BY DEF AccountsInv
<1>3. wallet \in Keys
  BY DEF Mine, CanMine, IInv, TypeOK
<1>4. index \in 0..(UINT32 - 1)
  <2>1. index = (LastBlock.info.index + 1) % UINT32
    BY MinedFields
  <2>2. LastBlock.info.index \in Int
    <3>1. Len(chain) \in 1..Len(chain)
      BY DEF Mine, CanMine
    <3>2. LastBlock.info.index = (Len(chain) - 1) % UINT32
      BY <3>1 DEF SessionInv, Numbered, LastBlock
    <3> QED BY <3>1, <3>2, AmountAssumption
  <2> QED BY <2>1, <2>2, AmountAssumption
<1>5. unspent' = UpdateUnspent(txs, hash, unspent)
  <2>1. /\ unspent' = UpdateUnspent(block.transactions, block.hash, unspent)
        /\ block.transactions = <<CoinbaseCreate(wallet, block.info.index)>>
                                  \o Purge(pool, unspent)
    BY MinedBlock, MinedFields
  <2>2. Purge(pool, unspent) = pool
    BY <1>1, <1>2, PurgeOfValid
  <2> QED BY <2>1, <2>2
<1> DEFINE coinbase == CoinbaseCreate(wallet, index)
<1> HIDE DEF block, index, hash
<1>6. \A c \in [OutputHashes -> Int] :
         Held(c, unspent') = (Held(c, unspent) - AllSpends(c, pool))
                               + (Makes(c, coinbase) + AllMakes(c, pool))
  <2> SUFFICES ASSUME NEW c \in [OutputHashes -> Int]
               PROVE  Held(c, unspent') = (Held(c, unspent) - AllSpends(c, pool))
                               + (Makes(c, coinbase) + AllMakes(c, pool))
    OBVIOUS
  <2>1. Held(c, UpdateUnspent(<<coinbase>> \o pool, hash, unspent))
          = (Held(c, unspent) - AllSpends(c, pool)) + (Makes(c, coinbase) + AllMakes(c, pool))
    BY <1>1, <1>3, <1>4, BlockSettles
  <2> QED BY <1>5, <2>1
<1>7. \A c \in [OutputHashes -> Int] : Held(c, unspent) \in Int
  BY <1>1, SeqOfMembers, GenuineHashed, HeldType
<1> DEFINE worth == Held(Values, unspent)
<1>8. Held(Values, unspent') = worth + COINBASE_AMOUNT
  <2>1. Held(Values, unspent') = (worth - AllSpends(Values, pool))
                                   + (Makes(Values, coinbase) + AllMakes(Values, pool))
    BY <1>6, ValuesType
  <2>2. AllSpends(Values, pool) \in Int /\ AllMakes(Values, pool) = AllSpends(Values, pool)
    BY <1>1, <1>2, PaymentsEven
  <2>3. Makes(Values, coinbase) = COINBASE_AMOUNT
    BY <1>3, CoinbaseMakes
  <2>4. worth \in Int
    BY <1>7, ValuesType
  <2> HIDE DEF worth, coinbase
  <2> QED BY <2>1, <2>2, <2>3, <2>4, AmountAssumption
<1>9. ASSUME NEW key \in Keys
      PROVE  Held(OwnedBy(key), unspent')
                 = Held(OwnedBy(key), unspent) - AllLeaves(key, pool) + AllArrives(key, pool)
                     + IF key = wallet THEN COINBASE_AMOUNT ELSE 0
  <2> DEFINE c == OwnedBy(key)
             held == Held(c, unspent)
             bonus == IF key = wallet THEN COINBASE_AMOUNT ELSE 0
  <2>1. c \in [OutputHashes -> Int]
    BY OwnedType
  <2>2. Held(c, unspent') = (held - AllSpends(c, pool)) + (Makes(c, coinbase) + AllMakes(c, pool))
    BY <1>6, <2>1
  <2>3. /\ AllSpends(c, pool) \in Int /\ AllMakes(c, pool) \in Int
        /\ AllLeaves(key, pool) \in Int /\ AllArrives(key, pool) \in Int
        /\ AllMakes(c, pool) + AllLeaves(key, pool) = AllSpends(c, pool) + AllArrives(key, pool)
    BY <1>1, <1>2, PaymentsMove
  <2>4. Makes(c, coinbase) = bonus /\ bonus \in Int
    BY <1>3, CoinbaseMakes, AmountAssumption
  <2>5. held \in Int
    BY <1>7, <2>1
  <2> HIDE DEF c, held, bonus, coinbase
  <2>6. Held(c, unspent') = held - AllLeaves(key, pool) + AllArrives(key, pool) + bonus
    BY <2>2, <2>3, <2>4, <2>5
  <2> QED BY <2>6 DEF c, held, bonus
<1> QED BY <1>3, <1>8, <1>9 DEF worth

(* Sorting the list changes neither balances nor what is valid.             *)
LEMMA SortKeeps ==
  ASSUME NEW u, IsSeq(u), Hashed(Members(u), OutputHashes), NEW c \in [OutputHashes -> Int]
  PROVE  Held(c, SortByAmount(u)) = Held(c, u)
<1> DEFINE E == Members(u)
<1>1. u \in Seq(E) /\ Hashed(E, OutputHashes)
  BY SeqOfMembers
<1> HIDE DEF E
<1> QED BY <1>1, HeldSort

(* Without files to load, every step keeps the invariant.                   *)
LEMMA AccountsStep ==
  ASSUME Paths = {}, AmountsTold, OwnersTold, IndexesTold, CoinsFit,
         IInv, SessionInv, AccountsInv, [Next]_vars
  PROVE  AccountsInv'
<1>1. /\ IsSeq(unspent) /\ Genuine(Members(unspent)) /\ IsUnspentList(unspent)
      /\ Len(pool) \in Nat /\ IsSeq(pool)
  BY PoolSettleable
<1>2. CASE pool' = pool /\ SameLedger
  BY <1>2 DEF SameLedger, AccountsInv
<1>3. CASE \E time \in Times : Mine(time)
  <2>1. PICK time \in Times : Mine(time)
    BY <1>3
  <2>2. Held(Values, unspent') = Held(Values, unspent) + COINBASE_AMOUNT
    BY <2>1, MineSettles
  <2>3. pool' = <<>> /\ Len(chain) \in 1..(MaxBlocks - 1)
    BY <2>1 DEF Mine, CanMine
  <2>4. Len(chain') = Len(chain) + 1 /\ Len(chain) \in Nat
    BY <2>1, MinedBlock, AppendMembers DEF IInv, TypeOK, IsSeq
  <2>5. Held(Values, unspent') = COINBASE_AMOUNT * (Len(chain') - 1)
    <3>1. Held(Values, unspent) = COINBASE_AMOUNT * (Len(chain) - 1)
      BY DEF AccountsInv
    <3> DEFINE n == Len(chain)
    <3>2. COINBASE_AMOUNT * (n - 1) + COINBASE_AMOUNT = COINBASE_AMOUNT * n
      <4>1. n \in Int /\ COINBASE_AMOUNT \in Int
        BY <2>4, AmountAssumption
      <4> HIDE DEF n
      <4> QED BY <4>1, SMTT(30)
    <3>3. n = Len(chain') - 1
      BY <2>4
    <3> HIDE DEF n
    <3> QED BY <2>2, <3>1, <3>2, <3>3 DEF n
  <2>6. COINBASE_AMOUNT * (Len(chain') - 1) <= COINBASE_AMOUNT * (MaxBlocks - 1)
    <3>1. ASSUME NEW a \in Nat, NEW b \in Int, NEW d \in Int, b <= d PROVE a * b <= a * d
      BY <3>1, SMTT(30)
    <3>2. /\ COINBASE_AMOUNT \in Nat /\ Len(chain') - 1 \in Int /\ MaxBlocks - 1 \in Int
          /\ Len(chain') - 1 <= MaxBlocks - 1
      BY <2>3, <2>4, AmountAssumption, CliAssumption
    <3> QED BY <3>1, <3>2
  <2>7. Held(Values, unspent') < UINT32
    <3>1. /\ COINBASE_AMOUNT * (Len(chain') - 1) \in Int
          /\ COINBASE_AMOUNT * (MaxBlocks - 1) \in Int /\ UINT32 \in Int
      BY <2>4, AmountAssumption, CliAssumption
    <3> QED BY <2>5, <2>6, <3>1 DEF CoinsFit
  <2>8. Len(chain') >= 1 /\ ArePayments(pool')
        /\ \A i \in 1..Len(pool') : TransactionIsValid(pool'[i], unspent')
    BY <2>3, <2>4 DEF ArePayments
  <2> QED BY <2>5, <2>7, <2>8 DEF AccountsInv
<1>4. CASE \E time \in Times : MineRejected(time)
  <2>1. pool' = Purge(pool, unspent) /\ unspent' = unspent /\ chain' = chain
    BY <1>4 DEF MineRejected
  <2>2. pool' = pool
    BY <1>1, <2>1, PurgeOfValid DEF AccountsInv
  <2> QED BY <2>1, <2>2 DEF AccountsInv
<1>5. CASE \E amount \in Amounts : \E receiver : Send(amount, receiver)
  <2>1. PICK amount \in Amounts : \E receiver : Send(amount, receiver)
    BY <1>5
  <2>2. PICK receiver : Send(amount, receiver)
    BY <2>1
  <2>3. unspent' = unspent /\ chain' = chain
    BY <2>2 DEF Send
  <2>4. ArePayments(pool') /\ \A i \in 1..Len(pool') : TransactionIsValid(pool'[i], unspent)
    BY <2>2, SendCovered
  <2> QED BY <2>3, <2>4 DEF AccountsInv
<1>6. CASE pool' = pool /\ chain' = chain /\ unspent' = SortByAmount(unspent)
  <2>1. Held(Values, unspent') = Held(Values, unspent)
    BY <1>1, <1>6, GenuineHashed, ValuesType, SortKeeps
  <2>2. \A i \in 1..Len(pool) : TransactionIsValid(pool[i], SortByAmount(unspent))
    BY <1>1, ValidSorted DEF AccountsInv
  <2> QED BY <1>6, <2>1, <2>2 DEF AccountsInv
<1>7. CASE pool' = <<>> /\ chain' = <<GenesisBlock>> /\ unspent' = <<>> /\ wallet' = NoKey
  <2>1. Len(pool') = 0 /\ Len(chain') = 1 /\ Len(unspent') = 0
    BY <1>7
  <2>2. Held(Values, unspent') = 0
    <3> DEFINE f == [i \in 1..0 |-> Values[unspent'[i].out.hash]]
    <3>1. Held(Values, unspent') = Total(f, 0)
      BY <2>1 DEF Held
    <3>2. \A k \in 1..0 : f[k] = 0
      OBVIOUS
    <3> HIDE DEF f
    <3>3. Total(f, 0) = 0
      BY <3>2, TotalZero
    <3> QED BY <3>1, <3>3
  <2>3. COINBASE_AMOUNT * (1 - 1) = 0 /\ 0 < UINT32
    BY AmountAssumption
  <2>4. ArePayments(pool') /\ \A i \in 1..Len(pool') : TransactionIsValid(pool'[i], unspent')
    BY <2>1 DEF ArePayments
  <2> QED BY <2>1, <2>2, <2>3, <2>4 DEF AccountsInv
<1> QED BY <1>2, <1>3, <1>4, <1>5, <1>6, <1>7, MemoryStep

(* The invariant holds in every state of a session.                         *)
LEMMA AccountsInvariant ==
  ASSUME Paths = {}, AmountsTold, OwnersTold, IndexesTold, CoinsFit
  PROVE  Spec => [](IInv /\ SessionInv /\ AccountsInv)
<1>1. Init => AccountsInv
  <2> SUFFICES ASSUME Init PROVE AccountsInv
    OBVIOUS
  <2>1. Len(pool) = 0 /\ Len(chain) = 1 /\ Len(unspent) = 0
    BY DEF Init
  <2>2. Held(Values, unspent) = 0
    <3> DEFINE f == [i \in 1..0 |-> Values[unspent[i].out.hash]]
    <3>1. Held(Values, unspent) = Total(f, 0)
      BY <2>1 DEF Held
    <3>2. \A k \in 1..0 : f[k] = 0
      OBVIOUS
    <3> HIDE DEF f
    <3>3. Total(f, 0) = 0
      BY <3>2, TotalZero
    <3> QED BY <3>1, <3>3
  <2>3. COINBASE_AMOUNT * (1 - 1) = 0 /\ 0 < UINT32
    BY AmountAssumption
  <2> QED BY <2>1, <2>2, <2>3 DEF AccountsInv, ArePayments
<1>2. IInv /\ SessionInv /\ AccountsInv /\ [Next]_vars => AccountsInv'
  BY AccountsStep
<1> QED BY <1>1, <1>2, SessionInvariant, PTL DEF Spec

-----------------------------------------------------------------------------
(* Every step is one of Accounts.                                           *)

(* The payments of the pool, in order. *)
Pending == [i \in 1..Len(pool) |-> Payment(pool[i])]

(* The balances of all keys. *)
Balances == [key \in Keys |-> Balance(key)]

(* What leaves and reaches a key in Accounts is what the pool says. *)
LEMMA LeavingIs ==
  ASSUME Len(pool) \in Nat, NEW key
  PROVE  A!Leaving(key) = AllLeaves(key, pool) /\ A!Arriving(key) = AllArrives(key, pool)
<1>1. Len(Pending) = Len(pool)
  BY DEF Pending
<1>2. \A f : A!Total(f) = Total(f, Len(Pending))
  BY DEF A!Total, Total, Pending
<1>3. [p \in 1..Len(Pending) |-> IF Pending[p].from = key THEN Pending[p].amount ELSE 0]
        = [i \in 1..Len(pool) |-> Leaves(key, pool[i])]
  BY <1>1 DEF Pending, Leaves
<1>4. [p \in 1..Len(Pending) |-> IF Pending[p].to = key THEN Pending[p].amount ELSE 0]
        = [i \in 1..Len(pool) |-> Arrives(key, pool[i])]
  BY <1>1 DEF Pending, Arrives
<1>5. A!Leaving(key)
        = A!Total([p \in 1..Len(Pending) |->
                     IF Pending[p].from = key THEN Pending[p].amount ELSE 0])
  BY DEF A!Leaving, Pending
<1>6. A!Arriving(key)
        = A!Total([p \in 1..Len(Pending) |->
                     IF Pending[p].to = key THEN Pending[p].amount ELSE 0])
  BY DEF A!Arriving, Pending
<1>7. A!Leaving(key) = Total([i \in 1..Len(pool) |-> Leaves(key, pool[i])], Len(pool))
  BY <1>1, <1>2, <1>3, <1>5
<1>8. A!Arriving(key) = Total([i \in 1..Len(pool) |-> Arrives(key, pool[i])], Len(pool))
  BY <1>1, <1>2, <1>4, <1>6
<1> QED BY <1>7, <1>8 DEF AllLeaves, AllArrives

(* The balances now and after a step are what the keys have.                *)
LEMMA BalancesAre ==
  ASSUME AmountsTold, OwnersTold, IInv, SessionInv, AccountsInv, IInv', SessionInv', AccountsInv'
  PROVE  \A key \in Keys : /\ Balance(key) = Held(OwnedBy(key), unspent)
                           /\ Held(OwnedBy(key), unspent) \in Nat
                           /\ Balances[key] = Balance(key)
                           /\ Balances'[key] = Held(OwnedBy(key), unspent')
<1> SUFFICES ASSUME NEW key \in Keys
             PROVE  /\ Balance(key) = Held(OwnedBy(key), unspent)
                    /\ Held(OwnedBy(key), unspent) \in Nat
                    /\ Balances[key] = Balance(key)
                    /\ Balances'[key] = Held(OwnedBy(key), unspent')
  OBVIOUS
<1>1. IsUnspentList(unspent) /\ Genuine(Members(unspent)) /\ Held(Values, unspent) < UINT32
  BY DEF IInv, TypeOK, SessionInv, AccountsInv
<1>2. IsUnspentList(unspent') /\ Genuine(Members(unspent')) /\ Held(Values, unspent') < UINT32
  BY DEF IInv, TypeOK, SessionInv, AccountsInv
<1>3. BalanceIn(key, unspent) = Held(OwnedBy(key), unspent) /\ Held(OwnedBy(key), unspent) \in Nat
  BY <1>1, BalanceIs
<1>4. BalanceIn(key, unspent') = Held(OwnedBy(key), unspent')
  BY <1>2, BalanceIs
<1>5. Balance(key) = BalanceIn(key, unspent) /\ Balances[key] = Balance(key)
  BY DEF Balance, BalanceIn, Balances
<1>6. Balances'[key] = BalanceIn(key, unspent')
  BY DEF Balance, BalanceIn, Balances
<1> QED BY <1>3, <1>4, <1>5, <1>6

(* send is a payment.                                                       *)
LEMMA SendIsPay ==
  ASSUME AmountsTold, OwnersTold, IndexesTold, IInv, SessionInv, AccountsInv,
         IInv', SessionInv', AccountsInv',
         NEW amount \in Amounts, NEW receiver, Send(amount, receiver)
  PROVE  A!Pay
<1> DEFINE tx == TransactionCreate(wallet, receiver, amount % UINT32, unspent, pool)
           sent == amount % UINT32
<1>1. /\ pool' = Append(pool, tx)
      /\ Payment(tx) = [from |-> wallet, to |-> receiver, amount |-> sent]
      /\ wallet \in Keys /\ receiver \in Keys
      /\ sent \in Int /\ sent >= 1
      /\ AllLeaves(wallet, pool) + sent <= Held(OwnedBy(wallet), unspent)
  BY SendCovered
<1>2. wallet' = wallet /\ chain' = chain /\ unspent' = unspent
  BY DEF Send
<1> HIDE DEF tx, sent
<1>3. Len(pool) \in Nat /\ IsSeq(pool) /\ ArePayments(pool)
  BY PoolSettleable DEF AccountsInv
<1>4. AllLeaves(wallet, pool) \in Int
  BY <1>3, PaymentsMove
<1>5. Balance(wallet) = Held(OwnedBy(wallet), unspent) /\ Held(OwnedBy(wallet), unspent) \in Nat
  BY <1>1, BalancesAre
<1>6. A!Leaving(wallet) = AllLeaves(wallet, pool)
  BY <1>3, LeavingIs
<1>7. Balances[wallet] = Balance(wallet)
  BY <1>1 DEF Balances
<1>8. sent \in 1..(Balances[wallet] - A!Leaving(wallet))
  BY <1>1, <1>4, <1>5, <1>6, <1>7
<1>9. Pending' = Append(Pending, [from |-> wallet, to |-> receiver, amount |-> sent])
  <2>1. /\ Len(pool') = Len(pool) + 1 /\ pool'[Len(pool) + 1] = tx
        /\ \A i \in 1..Len(pool) : pool'[i] = pool[i]
    BY <1>1, <1>3, AppendMembers
  <2> DEFINE p == [from |-> wallet, to |-> receiver, amount |-> sent]
             N == Len(pool)
  <2>2. Pending' = [i \in 1..(N + 1) |-> Payment(pool'[i])]
    BY <2>1 DEF Pending, Payment
  <2>3. Pending = [i \in 1..N |-> Payment(pool[i])] /\ N \in Nat
    BY <1>3 DEF Pending
  <2>4. Payment(pool'[N + 1]) = p /\ \A i \in 1..N : Payment(pool'[i]) = Payment(pool[i])
    BY <1>1, <2>1
  <2> HIDE DEF p, N
  <2>5. Append(Pending, p) = [i \in 1..(N + 1) |-> IF i = N + 1 THEN p ELSE Pending[i]]
    BY <2>3
  <2>6. \A i \in 1..(N + 1) : Payment(pool'[i]) = IF i = N + 1 THEN p ELSE Pending[i]
    BY <2>3, <2>4
  <2>7. Pending' = Append(Pending, p)
    BY <2>2, <2>5, <2>6
  <2> QED BY <2>7 DEF p
<1>10. Balances' = Balances
  BY <1>2 DEF Balances, Balance
<1> QED BY <1>1, <1>2, <1>8, <1>9, <1>10 DEF A!Pay, Pending, Balances

(* mine settles what is pending.                                            *)
LEMMA MineIsSettle ==
  ASSUME AmountsTold, OwnersTold, IndexesTold, IInv, SessionInv, AccountsInv,
         IInv', SessionInv', AccountsInv', NEW time, Mine(time)
  PROVE  A!Settle
<1>1. /\ wallet \in Keys
      /\ \A key \in Keys :
            Held(OwnedBy(key), unspent')
              = Held(OwnedBy(key), unspent) - AllLeaves(key, pool) + AllArrives(key, pool)
                  + IF key = wallet THEN COINBASE_AMOUNT ELSE 0
  BY MineSettles
<1>2. wallet' = wallet /\ pool' = <<>>
  BY DEF Mine
<1>3. Len(chain') = Len(chain) + 1 /\ Len(chain) \in Nat
  <2> DEFINE block == BlockMine(DraftBlock(time))
  <2>1. chain' = Append(chain, block)
    BY MinedBlock
  <2> HIDE DEF block
  <2>2. IsSeq(chain)
    BY DEF IInv, TypeOK
  <2> QED BY <2>1, <2>2, AppendMembers DEF IsSeq
<1>4. Len(pool) \in Nat
  BY PoolSettleable
<1>5. \A key \in Keys :
         Balances'[key] = Balances[key] - A!Leaving(key) + A!Arriving(key)
                            + IF key = wallet THEN COINBASE_AMOUNT ELSE 0
  <2> SUFFICES ASSUME NEW key \in Keys
               PROVE  Balances'[key] = Balances[key] - A!Leaving(key) + A!Arriving(key)
                            + IF key = wallet THEN COINBASE_AMOUNT ELSE 0
    OBVIOUS
  <2>1. /\ Balances'[key] = Held(OwnedBy(key), unspent')
        /\ Balances[key] = Held(OwnedBy(key), unspent)
    BY BalancesAre
  <2>2. A!Leaving(key) = AllLeaves(key, pool) /\ A!Arriving(key) = AllArrives(key, pool)
    BY <1>4, LeavingIs
  <2> QED BY <1>1, <2>1, <2>2
<1>6. Balances' = [key \in Keys |->
                     Balances[key] - A!Leaving(key) + A!Arriving(key)
                       + IF key = wallet THEN COINBASE_AMOUNT ELSE 0]
  BY <1>5 DEF Balances
<1>7. Pending' = <<>>
  <2>1. Len(pool') = 0
    BY <1>2
  <2> QED BY <2>1 DEF Pending
<1>8. Len(chain') - 1 = (Len(chain) - 1) + 1
  BY <1>3
<1> QED BY <1>1, <1>2, <1>6, <1>7, <1>8 DEF A!Settle, Pending, Balances

(* A step of the client is a step of Accounts, or leaves its variables      *)
(* alone.                                                                   *)
LEMMA StepImplements ==
  ASSUME Paths = {}, AmountsTold, OwnersTold, IndexesTold, CoinsFit,
         IInv, SessionInv, AccountsInv, [Next]_vars
  PROVE  A!UseKey \/ A!Pay \/ A!Settle \/ A!Restart
<1>1. IInv' /\ SessionInv' /\ AccountsInv'
  BY NextIInv, SessionStep, AccountsStep
<1>2. wallet' \in Keys \cup {NoKey}
  BY <1>1 DEF IInv, TypeOK
<1>3. ASSUME pool' = pool, chain' = chain, Balances' = Balances PROVE A!UseKey
  <2>1. Pending' = Pending
    BY <1>3 DEF Pending
  <2> QED BY <1>2, <1>3, <2>1 DEF A!UseKey, Pending, Balances
<1>4. CASE pool' = pool /\ SameLedger
  <2>1. Balances' = Balances
    BY <1>4 DEF SameLedger, Balances, Balance
  <2> QED BY <1>3, <1>4, <2>1 DEF SameLedger
<1>5. CASE \E time \in Times : Mine(time)
  BY <1>1, <1>5, MineIsSettle
<1>6. CASE \E time \in Times : MineRejected(time)
  <2>1. pool' = Purge(pool, unspent) /\ unspent' = unspent /\ chain' = chain
    BY <1>6 DEF MineRejected
  <2>2. pool' = pool
    BY <2>1, PoolSettleable, PurgeOfValid DEF AccountsInv
  <2>3. Balances' = Balances
    BY <2>1 DEF Balances, Balance
  <2> QED BY <1>3, <2>1, <2>2, <2>3
<1>7. CASE \E amount \in Amounts : \E receiver : Send(amount, receiver)
  BY <1>1, <1>7, SendIsPay
<1>8. CASE pool' = pool /\ chain' = chain /\ unspent' = SortByAmount(unspent)
  <2>1. \A key \in Keys : Held(OwnedBy(key), unspent') = Held(OwnedBy(key), unspent)
    BY <1>8, PoolSettleable, GenuineHashed, OwnedType, SortKeeps
  <2>2. \A key \in Keys : Balances'[key] = Balances[key]
    BY <1>1, <2>1, BalancesAre
  <2>3. Balances' = Balances
    BY <2>2 DEF Balances
  <2> QED BY <1>3, <1>8, <2>3
<1>9. CASE pool' = <<>> /\ chain' = <<GenesisBlock>> /\ unspent' = <<>> /\ wallet' = NoKey
  <2>1. Len(pool') = 0 /\ Len(chain') - 1 = 0 /\ Len(unspent') = 0
    BY <1>9
  <2>2. Pending' = <<>>
    BY <2>1 DEF Pending
  <2>3. Balances' = [key \in Keys |-> 0]
    <3> SUFFICES ASSUME NEW key \in Keys PROVE Balances'[key] = 0
      BY DEF Balances
    <3> DEFINE f == [i \in 1..0 |-> OwnedBy(key)[unspent'[i].out.hash]]
    <3>1. Held(OwnedBy(key), unspent') = Total(f, 0)
      BY <2>1 DEF Held
    <3>2. \A k \in 1..0 : f[k] = 0
      OBVIOUS
    <3> HIDE DEF f
    <3>3. Total(f, 0) = 0
      BY <3>2, TotalZero
    <3> QED BY <1>1, <3>1, <3>3, BalancesAre
  <2> QED BY <1>9, <2>1, <2>2, <2>3 DEF A!Restart, A!Nothing, Pending, Balances
<1> QED BY <1>4, <1>5, <1>6, <1>7, <1>8, <1>9, MemoryStep

(* In every session without files the client implements Accounts, for any   *)
(* keys, amounts, clock and bounds: send accepts a payment only if the      *)
(* balance covers it besides all that are pending, and the next block takes *)
(* every payment from its sender once, gives it to its receiver and the     *)
(* change back, and gives the miner one coinbase (transaction_create,       *)
(* transaction_is_valid, mine, update_unspent).                             *)
THEOREM AccountsImplemented ==
  ASSUME Paths = {}, AmountsTold, OwnersTold, IndexesTold, CoinsFit
  PROVE  Spec => ImplementsAccounts
<1>1. Init => A!Init
  <2> SUFFICES ASSUME Init PROVE A!Init
    OBVIOUS
  <2>1. Len(pool) = 0 /\ Len(chain) - 1 = 0 /\ Len(unspent) = 0 /\ wallet = NoKey
    BY DEF Init
  <2>2. Pending = <<>>
    BY <2>1 DEF Pending
  <2>3. Balances = [key \in Keys |-> 0]
    <3> SUFFICES ASSUME NEW key \in Keys PROVE Balance(key) = 0
      BY DEF Balances
    <3> DEFINE f == [i \in 1..0 |-> IF unspent[i].out.pub = key THEN unspent[i].out.amount ELSE 0]
    <3>1. Balance(key) = Sum32(f, 0)
      BY <2>1 DEF Balance
    <3>2. \A k \in 1..0 : f[k] \in Int /\ f[k] = 0
      OBVIOUS
    <3> HIDE DEF f
    <3>3. Sum32(f, 0) = Total(f, 0) % UINT32 /\ Total(f, 0) = 0
      BY <3>2, Sum32IsTotal, TotalZero
    <3>4. 0 % UINT32 = 0
      BY AmountAssumption
    <3> QED BY <3>1, <3>3, <3>4
  <2> QED BY <2>1, <2>2, <2>3 DEF A!Init, A!Nothing, Pending, Balances
<1>2. IInv /\ SessionInv /\ AccountsInv /\ [Next]_vars
        => A!UseKey \/ A!Pay \/ A!Settle \/ A!Restart
  BY StepImplements
<1>3. IInv /\ SessionInv /\ AccountsInv /\ [Next]_vars => [A!Next]_(A!vars)
  BY <1>2 DEF A!Next
<1> QED BY <1>1, <1>3, AccountsInvariant, PTL DEF Spec, ImplementsAccounts, A!Spec, A!vars

-----------------------------------------------------------------------------
(* send accepts what is covered.                                            *)

(* As long as no sum wraps around, the total of what transaction_create     *)
(* selects is not more than the amounts of all it may select, and less only *)
(* when it covers the amount asked for.                                     *)
LEMMA SelectionCovers ==
  ASSUME NEW u, IsUnspentList(u), NEW sender, NEW amount \in Int, NEW txs,
         NEW f, \A k \in 1..Len(u) :
                   f[k] = IF Selectable(u[k], sender, txs) THEN u[k].out.amount ELSE 0,
         Total(f, Len(u)) < UINT32
  PROVE  LET total == Selection(sender, amount, u, txs).total
         IN  /\ total <= Total(f, Len(u))
             /\ total >= amount \/ total = Total(f, Len(u))
<1> DEFINE N == Len(u)
           able(k) == Selectable(u[k], sender, txs)
           paid(k) == u[k].out.amount
<1>1. N \in Nat /\ \A k \in 1..N : paid(k) \in Nat /\ paid(k) \in Int
  BY AmountAssumption DEF IsUnspentList, IsSeq, Amount
<1>2. PICK scan : IsScan(scan, sender, amount, u, txs)
  BY <1>1, SelectionTurns
<1>3. /\ \A n \in 0..N : scan[n].total \in 0..(UINT32 - 1)
      /\ scan[0].total = 0
      /\ \A n \in 1..N : scan[n] = SelectNext(scan[n - 1], u[n], sender, amount, txs)
      /\ Selection(sender, amount, u, txs) = scan[N]
  <2>1. /\ scan \in [0..N -> Selections(u, sender, txs)]
        /\ scan[0] = NothingSelected
        /\ \A n \in 1..N : scan[n] = SelectNext(scan[n - 1], u[n], sender, amount, txs)
        /\ Selection(sender, amount, u, txs) = scan[N]
    BY <1>2 DEF IsScan
  <2> HIDE DEF N
  <2>2. \A n \in 0..N : scan[n].total \in 0..(UINT32 - 1)
    BY <2>1 DEF Selections
  <2> QED BY <2>1, <2>2 DEF NothingSelected
<1>4. \A n \in 1..N :
         scan[n].total = IF scan[n - 1].total >= amount \/ ~able(n) THEN scan[n - 1].total
                         ELSE (scan[n - 1].total + paid(n)) % UINT32
  <2> TAKE n \in 1..N
  <2> DEFINE old == scan[n - 1]
  <2>1. scan[n] = SelectNext(old, u[n], sender, amount, txs)
    BY <1>3
  <2> HIDE DEF old
  <2>2. scan[n] = IF old.total >= amount \/ ~able(n) THEN old
                  ELSE [inputs |-> Append(old.inputs, TxInCreate(u[n])),
                        total |-> (old.total + paid(n)) % UINT32]
    BY <2>1 DEF SelectNext
  <2> HIDE DEF able, paid
  <2>3. CASE old.total >= amount \/ ~able(n)
    BY <2>2, <2>3 DEF old
  <2>4. CASE ~(old.total >= amount \/ ~able(n))
    BY <2>2, <2>4 DEF old
  <2> QED BY <2>3, <2>4
<1>5. \A k \in 1..N : f[k] = IF able(k) THEN paid(k) ELSE 0
  OBVIOUS
<1> HIDE DEF N, able, paid
<1>6. \A k \in 1..N : f[k] \in Nat /\ f[k] \in Int
  BY <1>1, <1>5
<1>7. /\ Total(f, 0) = 0
      /\ \A n \in 0..N : Total(f, n) \in Int
      /\ \A n \in 1..N : Total(f, n) = Total(f, n - 1) + f[n]
  BY <1>1, <1>6, TotalSteps
<1>8. \A n \in 0..N : Total(f, n) < UINT32
  <2> TAKE n \in 0..N
  <2>1. Total(f, n) <= Total(f, N)
    BY <1>1, <1>6, TotalPrefix
  <2>2. Total(f, n) \in Int /\ Total(f, N) \in Int /\ Total(f, N) < UINT32
    BY <1>1, <1>7 DEF N
  <2> QED BY <2>1, <2>2, AmountAssumption
<1> DEFINE T == {n \in 0..N : /\ scan[n].total <= Total(f, n)
                              /\ scan[n].total >= amount \/ scan[n].total = Total(f, n)}
<1>9. 0 \in T
  BY <1>1, <1>3, <1>7
<1>10. ASSUME NEW n \in 1..N, n - 1 \in T PROVE n \in T
  <2> DEFINE a == scan[n - 1].total
             b == Total(f, n - 1)
             new == scan[n].total
             sum == Total(f, n)
             x == f[n]
  <2>1. n \in 0..N /\ n - 1 \in 0..N
    BY <1>1
  <2>2. a <= b /\ (a >= amount \/ a = b)
    BY <1>10
  <2> HIDE DEF T
  <2>3. /\ a \in 0..(UINT32 - 1) /\ b \in Int /\ x \in Nat /\ sum = b + x /\ sum < UINT32
        /\ sum \in Int
    BY <1>3, <1>6, <1>7, <1>8, <2>1
  <2>4. new = IF a >= amount \/ ~able(n) THEN a ELSE (a + paid(n)) % UINT32
    BY <1>4
  <2>5. x = IF able(n) THEN paid(n) ELSE 0
    BY <1>5
  <2> HIDE DEF a, b, new, sum, x
  <2>6. new <= sum /\ (new >= amount \/ new = sum)
    <3>1. CASE a >= amount \/ ~able(n)
      <4>1. new = a
        BY <2>4, <3>1
      <4>2. a >= amount \/ x = 0
        BY <2>5, <3>1
      <4> QED BY <2>2, <2>3, <4>1, <4>2, AmountAssumption
    <3>2. CASE ~(a >= amount \/ ~able(n))
      <4>1. new = (a + x) % UINT32 /\ a = b
        BY <2>2, <2>4, <2>5, <3>2
      <4>2. a + x \in 0..(UINT32 - 1)
        BY <2>3, <4>1, AmountAssumption
      <4>3. \A y \in 0..(UINT32 - 1) : y % UINT32 = y
        BY AmountAssumption
      <4>4. new = sum
        BY <2>3, <4>1, <4>2, <4>3
      <4> QED BY <2>3, <4>4
    <3> QED BY <3>1, <3>2
  <2> QED BY <2>1, <2>6 DEF T, new, sum
<1>11. 0..N \subseteq T
  <2> HIDE DEF T
  <2> QED BY <1>1, <1>9, <1>10, IntervalInduction
<1>12. N \in T
  BY <1>1, <1>11
<1> QED BY <1>3, <1>12 DEF N

(* One more input is worth its hash more.                                   *)
LEMMA SpendsAppended ==
  ASSUME NEW I, NEW c, \A in \in I : c[in.tx_out_hash] \in Int,
         NEW tx, tx.inputs \in Seq(I), NEW last \in I,
         NEW more, more.inputs = Append(tx.inputs, last)
  PROVE  /\ Spends(c, tx, Len(tx.inputs)) \in Int
         /\ Spends(c, more, Len(more.inputs))
              = Spends(c, tx, Len(tx.inputs)) + c[last.tx_out_hash]
<1> DEFINE n == Len(tx.inputs)
           f == [k \in 1..n |-> c[tx.inputs[k].tx_out_hash]]
           h == [k \in 1..Len(more.inputs) |-> c[more.inputs[k].tx_out_hash]]
<1>1. /\ n \in Nat /\ Len(more.inputs) = n + 1
      /\ \A k \in 1..n : tx.inputs[k] \in I /\ more.inputs[k] = tx.inputs[k]
      /\ more.inputs[n + 1] = last
  OBVIOUS
<1>2. Spends(c, tx, n) = Total(f, n) /\ Spends(c, more, Len(more.inputs)) = Total(h, n + 1)
  BY <1>1 DEF Spends
<1>3. \A k \in 1..n : f[k] \in Int /\ h[k] = f[k]
  <2> TAKE k \in 1..n
  <2>1. tx.inputs[k] \in I /\ more.inputs[k] = tx.inputs[k] /\ k \in 1..Len(more.inputs)
    BY <1>1
  <2> QED BY <2>1
<1>4. h[n + 1] = c[last.tx_out_hash] /\ h[n + 1] \in Int
  BY <1>1
<1> HIDE DEF f, h, n
<1>5. Total(h, n + 1) = Total(f, n) + h[n + 1]
  BY <1>1, <1>3, <1>4, TotalAppend
<1>6. Total(f, n) \in Int
  <2>1. n \in 0..n /\ \A k \in 1..n : f[k] \in Int
    BY <1>1, <1>3
  <2> QED BY <1>1, <2>1, TotalSteps
<1> QED BY <1>2, <1>4, <1>5, <1>6 DEF n

(* The inputs that can be selected have the hashes of genuine outputs.      *)
LEMMA SelectableInput ==
  ASSUME AmountsTold, NEW u, Genuine(Members(u)), NEW sender, NEW txs,
         NEW in \in SelectableInputs(u, sender, txs)
  PROVE  \E k \in 1..Len(u) :
            /\ in = TxInCreate(u[k]) /\ Selectable(u[k], sender, txs)
            /\ IsOutput(u[k].out) /\ in.tx_out_hash = u[k].out.hash
            /\ in.tx_out_hash \in OutputHashes
            /\ Values[in.tx_out_hash] = u[k].out.amount /\ u[k].out.amount \in Int
<1>1. PICK k \in 1..Len(u) : in = TxInCreate(u[k]) /\ Selectable(u[k], sender, txs)
  BY DEF SelectableInputs
<1>2. IsOutput(u[k].out)
  BY DEF Genuine, Members
<1>3. in.tx_out_hash = u[k].out.hash
  BY <1>1 DEF TxInCreate
<1>4. /\ u[k].out.hash \in OutputHashes /\ Values[u[k].out.hash] = u[k].out.amount
      /\ u[k].out.amount \in Amount
  BY <1>2, ValueOfOutput
<1>5. u[k].out.amount \in Int
  BY <1>4, AmountAssumption DEF Amount
<1> QED BY <1>1, <1>2, <1>3, <1>4, <1>5

(* The total of the selection is what its inputs are worth, modulo 2^32.    *)
LEMMA SelectionWorth ==
  ASSUME AmountsTold, NEW u, IsUnspentList(u), Genuine(Members(u)),
         NEW sender, NEW amount, NEW txs
  PROVE  LET sel == Selection(sender, amount, u, txs)
         IN  /\ HashedInputs(sel, OutputHashes)
             /\ sel.total = Spends(Values, sel, Len(sel.inputs)) % UINT32
<1> DEFINE N == Len(u)
           I == SelectableInputs(u, sender, txs)
           worth(s) == Spends(Values, s, Len(s.inputs))
<1>1. N \in Nat /\ \A k \in 1..N : u[k].out.amount \in Int
  BY AmountAssumption DEF IsUnspentList, IsSeq, Amount
<1>2. PICK scan : IsScan(scan, sender, amount, u, txs)
  BY <1>1, SelectionTurns
<1>3. /\ \A n \in 0..N : scan[n].inputs \in Seq(I)
      /\ scan[0].inputs = <<>> /\ scan[0].total = 0
      /\ \A n \in 1..N : scan[n] = SelectNext(scan[n - 1], u[n], sender, amount, txs)
      /\ Selection(sender, amount, u, txs) = scan[N]
  <2>1. /\ scan \in [0..N -> Selections(u, sender, txs)]
        /\ scan[0] = NothingSelected
        /\ \A n \in 1..N : scan[n] = SelectNext(scan[n - 1], u[n], sender, amount, txs)
        /\ Selection(sender, amount, u, txs) = scan[N]
    BY <1>2 DEF IsScan
  <2> HIDE DEF N
  <2>2. \A n \in 0..N : scan[n].inputs \in Seq(I)
    BY <2>1 DEF Selections
  <2> QED BY <2>1, <2>2 DEF NothingSelected
<1>4. \A in \in I : in.tx_out_hash \in OutputHashes /\ Values[in.tx_out_hash] \in Int
  BY SelectableInput
<1> DEFINE T == {n \in 0..N : scan[n].total = worth(scan[n]) % UINT32}
<1>5. 0 \in T
  <2>1. Len(scan[0].inputs) = 0
    BY <1>3
  <2>2. HashedInputs(scan[0], OutputHashes)
    BY <2>1 DEF HashedInputs
  <2>3. Spends(Values, scan[0], 0) = 0
    BY <2>2, ValuesType, SpendsSteps
  <2>4. worth(scan[0]) = 0 /\ 0 % UINT32 = 0
    BY <2>1, <2>3, AmountAssumption
  <2> HIDE DEF worth
  <2> QED BY <1>1, <1>3, <2>4
<1>6. ASSUME NEW n \in 1..N, n - 1 \in T PROVE n \in T
  <2> DEFINE old == scan[n - 1]
             new == scan[n]
             in == TxInCreate(u[n])
             x == u[n].out.amount
  <2>1. n \in 0..N /\ n - 1 \in 0..N
    BY <1>1
  <2>2. new = SelectNext(old, u[n], sender, amount, txs) /\ old.inputs \in Seq(I)
    BY <1>3, <2>1
  <2>3. old.total = worth(old) % UINT32
    BY <1>6
  <2> HIDE DEF T, old, new, I
  <2>4. new.total = worth(new) % UINT32
    <3>1. CASE old.total >= amount \/ ~Selectable(u[n], sender, txs)
      <4>1. new = old
        BY <2>2, <3>1 DEF SelectNext
      <4> QED BY <2>3, <4>1
    <3>2. CASE ~(old.total >= amount \/ ~Selectable(u[n], sender, txs))
      <4>1. new = [inputs |-> Append(old.inputs, in), total |-> (old.total + x) % UINT32]
        BY <2>2, <3>2 DEF SelectNext
      <4>2. new.inputs = Append(old.inputs, in) /\ new.total = (old.total + x) % UINT32
        BY <4>1
      <4>3. in \in I
        BY <3>2 DEF I, SelectableInputs
      <4>4. Values[in.tx_out_hash] = x
        <5>1. IsOutput(u[n].out) /\ in.tx_out_hash = u[n].out.hash
          BY DEF Genuine, Members, TxInCreate
        <5> QED BY <5>1, ValueOfOutput
      <4>5. x \in Int
        BY <1>1
      <4> HIDE DEF in, x
      <4>6. worth(old) \in Int /\ worth(new) = worth(old) + x
        <5>1. /\ \A i \in I : Values[i.tx_out_hash] \in Int
              /\ old.inputs \in Seq(I) /\ in \in I
              /\ new.inputs = Append(old.inputs, in)
          BY <1>4, <2>2, <4>2, <4>3
        <5>2. /\ Spends(Values, old, Len(old.inputs)) \in Int
              /\ Spends(Values, new, Len(new.inputs))
                   = Spends(Values, old, Len(old.inputs)) + Values[in.tx_out_hash]
          BY <5>1, SpendsAppended
        <5> QED BY <4>4, <5>2
      <4> HIDE DEF worth
      <4>7. ((worth(old) % UINT32) + x) % UINT32 = (worth(old) + x) % UINT32
        BY <4>5, <4>6, AmountAssumption, RemainderOfSum
      <4> QED BY <2>3, <4>2, <4>6, <4>7
    <3> QED BY <3>1, <3>2
  <2> QED BY <2>1, <2>4 DEF T, new
<1>7. 0..N \subseteq T
  <2> HIDE DEF T
  <2> QED BY <1>1, <1>5, <1>6, IntervalInduction
<1>8. N \in T /\ N \in 0..N
  BY <1>1, <1>7
<1>9. HashedInputs(scan[N], OutputHashes)
  <2>1. scan[N].inputs \in Seq(I)
    BY <1>3, <1>8
  <2> HIDE DEF I, N
  <2> QED BY <1>4, <2>1 DEF HashedInputs
<1> QED BY <1>3, <1>8, <1>9

(* Entries with the same output hash have the same key.                     *)
LEMMA SameKey ==
  ASSUME OwnersTold, NEW u, Genuine(Members(u)), NEW j \in 1..Len(u), NEW k \in 1..Len(u),
         u[j].out.hash = u[k].out.hash
  PROVE  u[j].out.pub = u[k].out.pub
<1>1. IsOutput(u[j].out) /\ IsOutput(u[k].out)
  BY DEF Genuine, Members
<1>2. Owners[u[j].out.hash] = u[j].out.pub /\ Owners[u[k].out.hash] = u[k].out.pub
  BY <1>1, OwnerOfHash
<1> QED BY <1>2

(* Every input that is selected can be signed: the first entry with its     *)
(* output hash is the sender's, whichever entry was selected.               *)
LEMMA SelectedSignable ==
  ASSUME OwnersTold, NEW u, IsSeq(u), Genuine(Members(u)), NEW sender, NEW txs,
         NEW in \in SelectableInputs(u, sender, txs)
  PROVE  Signable(in, sender, u)
<1>1. PICK k \in 1..Len(u) : in = TxInCreate(u[k]) /\ Selectable(u[k], sender, txs)
  BY DEF SelectableInputs
<1>2. in.tx_out_hash = u[k].out.hash /\ u[k].out.pub = sender
  BY <1>1 DEF TxInCreate, Selectable
<1> DEFINE hits == {j \in 1..Len(u) : u[j].out.hash = in.tx_out_hash}
           i == First(hits)
<1>3. Len(u) \in Nat /\ hits \subseteq 1..Len(u) /\ k \in hits
  BY <1>2 DEF IsSeq
<1>4. i \in hits
  <2> HIDE DEF hits
  <2>1. hits # {}
    BY <1>3
  <2> QED BY <1>3, <2>1, FirstHit
<1>5. i \in 1..Len(u) /\ u[i].out.hash = u[k].out.hash
  BY <1>2, <1>4
<1>6. Signable(in, sender, u) <=> i # 0 /\ u[i].out.pub = sender
  BY DEF Signable
<1> HIDE DEF hits, i
<1>7. u[i].out.pub = sender
  BY <1>2, <1>5, SameKey
<1>8. i # 0
  BY <1>3, <1>5
<1> QED BY <1>6, <1>7, <1>8

(* So all of them are signed.                                               *)
LEMMA AllSigned ==
  ASSUME OwnersTold, NEW u, IsSeq(u), Genuine(Members(u)), NEW sender, NEW txs,
         NEW inputs \in Seq(SelectableInputs(u, sender, txs)), NEW id,
         NEW n \in 1..Len(inputs)
  PROVE  LET in == SignInputs(inputs, id, sender, u)[n]
         IN  in.sig = Signature(sender, id) /\ Reference(in) = Reference(inputs[n])
<1> DEFINE I == SelectableInputs(u, sender, txs)
           signed == SignInputs(inputs, id, sender, u)
           Signed(in) == [in EXCEPT !.sig = Signature(sender, id)]
<1>1. signed = [m \in 1..Len(inputs) |->
                  IF \A k \in 1..m : Signable(inputs[k], sender, u)
                  THEN Signed(inputs[m]) ELSE inputs[m]]
  BY DEF SignInputs
<1>2. \A k \in 1..n : Signable(inputs[k], sender, u)
  <2> TAKE k \in 1..n
  <2>1. inputs[k] \in I
    OBVIOUS
  <2> QED BY <2>1, SelectedSignable
<1>3. inputs[n] \in I
  OBVIOUS
<1>4. PICK k \in 1..Len(u) : inputs[n] = TxInCreate(u[k])
  BY <1>3 DEF SelectableInputs
<1>5. signed[n] = Signed(TxInCreate(u[k]))
  <2> HIDE DEF signed, Signed
  <2> QED BY <1>1, <1>2, <1>4
<1>6. Signed(TxInCreate(u[k])).sig = Signature(sender, id)
  BY DEF TxInCreate
<1>7. Reference(signed[n]) = Reference(inputs[n])
  BY SignedInputs
<1> HIDE DEF signed, Signed
<1> QED BY <1>5, <1>6, <1>7 DEF signed

(* What makes a transaction valid.                                          *)
LEMMA ValidWhen ==
  ASSUME AmountsTold, NEW u, Genuine(Members(u)),
         NEW tx, Len(tx.inputs) \in Nat, Len(tx.outputs) \in Nat,
         \A o \in 1..Len(tx.outputs) : tx.outputs[o].amount \in Int,
         tx.id = TransactionHash(tx.inputs, tx.outputs),
         \A n \in 1..Len(tx.inputs) :
            LET k == First(Matches(tx.inputs[n], u))
            IN  /\ k \in 1..Len(u) /\ k # 0
                /\ u[k].out.hash = tx.inputs[n].tx_out_hash
                /\ Verify(u[k].out.pub, tx.id, tx.inputs[n].sig),
         Spends(Values, tx, Len(tx.inputs)) % UINT32 = Paid(tx) % UINT32
  PROVE  TransactionIsValid(tx, u)
<1> DEFINE N == Len(tx.inputs)
           M == Len(tx.outputs)
           matched == [n \in 1..N |-> First(Matches(tx.inputs[n], u))]
           f == [n \in 1..N |-> u[matched[n]].out.amount]
           w == [n \in 1..N |-> Values[tx.inputs[n].tx_out_hash]]
           g == [o \in 1..M |-> tx.outputs[o].amount]
<1>1. TransactionIsValid(tx, u) <=>
        /\ tx.id = TransactionHash(tx.inputs, tx.outputs)
        /\ \A n \in 1..N : /\ matched[n] # 0
                           /\ Verify(u[matched[n]].out.pub, tx.id, tx.inputs[n].sig)
        /\ Sum32(f, N) = Sum32(g, M)
  BY DEF TransactionIsValid, Matches
<1>2. \A n \in 1..N : /\ matched[n] \in 1..Len(u) /\ matched[n] # 0
                      /\ u[matched[n]].out.hash = tx.inputs[n].tx_out_hash
                      /\ Verify(u[matched[n]].out.pub, tx.id, tx.inputs[n].sig)
  OBVIOUS
<1> HIDE DEF matched
<1>3. \A n \in 1..N : f[n] \in Int /\ w[n] = f[n]
  <2> TAKE n \in 1..N
  <2> DEFINE out == u[matched[n]].out
  <2>1. IsOutput(out)
    BY <1>2 DEF Genuine, Members
  <2>2. f[n] = out.amount /\ w[n] = Values[out.hash]
    BY <1>2
  <2> HIDE DEF out, f, w
  <2>3. Values[out.hash] = out.amount /\ out.amount \in Amount
    BY <2>1, ValueOfOutput
  <2>4. out.amount \in Int
    BY <2>3, AmountAssumption DEF Amount
  <2> QED BY <2>2, <2>3, <2>4
<1>4. Spends(Values, tx, N) = Total(w, N) /\ Paid(tx) = Total(g, M)
  BY DEF Spends, Paid
<1>5. \A o \in 1..M : g[o] \in Int
  OBVIOUS
<1>6. N \in Nat /\ M \in Nat
  OBVIOUS
<1>7. Spends(Values, tx, N) % UINT32 = Paid(tx) % UINT32
  OBVIOUS
<1>8. tx.id = TransactionHash(tx.inputs, tx.outputs)
  OBVIOUS
<1> HIDE DEF f, g, w, N, M
<1>9. Total(w, N) = Total(f, N)
  BY <1>3, <1>6, TotalSame
<1>10. Sum32(f, N) = Total(f, N) % UINT32 /\ Sum32(g, M) = Total(g, M) % UINT32
  BY <1>3, <1>5, <1>6, Sum32IsTotal
<1>11. Sum32(f, N) = Sum32(g, M)
  BY <1>4, <1>7, <1>9, <1>10
<1> QED BY <1>1, <1>2, <1>8, <1>11

(* The outputs of a send have amounts.                                      *)
LEMMA SentAmounts ==
  ASSUME NEW sender, NEW receiver, NEW amount \in Int, NEW total \in Int
  PROVE  LET outputs == SendAmount(sender, receiver, amount, total)
         IN  \A o \in 1..Len(outputs) : outputs[o].amount \in Int
<1> DEFINE first == TxOutCreate(amount, receiver)
           change == TxOutCreate(total - amount, sender)
           outputs == SendAmount(sender, receiver, amount, total)
<1>1. first.amount \in Int /\ change.amount \in Int
  BY DEF TxOutCreate
<1>2. outputs = <<first>> \o (IF total = amount THEN <<>> ELSE <<change>>)
  BY DEF SendAmount
<1> HIDE DEF first, change, outputs
<1>3. outputs = <<first>> \o <<>> \/ outputs = <<first>> \o <<change>>
  BY <1>2
<1>4. \A o \in 1..Len(outputs) : outputs[o] \in {first, change}
  BY <1>3
<1> QED BY <1>1, <1>4 DEF outputs

(* What transaction_create builds is valid.                                 *)
LEMMA CreatedValid ==
  ASSUME AmountsTold, OwnersTold, NEW u, IsUnspentList(u), Genuine(Members(u)),
         NEW sender, NEW receiver, NEW amount \in Amount, NEW txs,
         CanCreate(sender, receiver, amount, u, txs)
  PROVE  TransactionIsValid(TransactionCreate(sender, receiver, amount, u, txs), u)
<1> DEFINE sel == Selection(sender, amount, u, txs)
           tx == TransactionCreate(sender, receiver, amount, u, txs)
           total == sel.total
           inputs == sel.inputs
           outputs == SendAmount(sender, receiver, amount, total)
           id == TransactionHash(inputs, outputs)
           signed == SignInputs(inputs, id, sender, u)
           I == SelectableInputs(u, sender, txs)
<1>1. IsSeq(u) /\ Len(u) \in Nat /\ \A k \in 1..Len(u) : u[k].out.amount \in Int
  BY AmountAssumption DEF IsUnspentList, IsSeq, Amount
<1>2. inputs \in Seq(I) /\ total \in 0..(UINT32 - 1)
  BY <1>1, SelectionType
<1>3. total >= amount
  BY DEF CanCreate
<1>4. tx.id = id /\ tx.inputs = signed /\ tx.outputs = outputs
  BY DEF TransactionCreate
<1>5. HashedInputs(sel, OutputHashes) /\ total = Spends(Values, sel, Len(inputs)) % UINT32
  BY SelectionWorth
<1> HIDE DEF tx
<1>6. /\ Len(tx.outputs) \in 1..2 /\ Paid(tx) = total
      /\ \A o \in 1..Len(tx.outputs) : tx.outputs[o].amount \in Int
  <2>1. total \in Amount /\ total \in Int /\ amount \in Int
    BY <1>2, AmountAssumption DEF Amount
  <2>2. Len(tx.outputs) \in 1..2 /\ Paid(tx) = total
    <3> HIDE DEF total
    <3> QED BY <1>3, <1>4, <2>1, SentOutputs
  <2>3. \A o \in 1..Len(outputs) : outputs[o].amount \in Int
    <3> HIDE DEF total
    <3> QED BY <2>1, SentAmounts
  <2> HIDE DEF outputs
  <2> QED BY <1>4, <2>2, <2>3
<1> HIDE DEF total, outputs, id
<1>7. Len(signed) = Len(inputs) /\ Len(inputs) \in Nat
  <2>1. Len(signed) = Len(inputs)
    <3> HIDE DEF inputs
    <3> QED BY <1>2, SignedInputs
  <2>2. Len(inputs) \in Nat
    <3> HIDE DEF inputs, I
    <3> QED BY <1>2
  <2> QED BY <2>1, <2>2
<1>8. \A n \in 1..Len(inputs) : /\ signed[n].sig = Signature(sender, id)
                                /\ Reference(signed[n]) = Reference(inputs[n])
  <2> HIDE DEF inputs
  <2> QED BY <1>1, <1>2, AllSigned
<1> HIDE DEF signed, sel, inputs
<1>9. tx.id = TransactionHash(tx.inputs, tx.outputs)
  <2> DEFINE before == [n \in 1..Len(inputs) |-> Reference(inputs[n])]
             after == [n \in 1..Len(signed) |-> Reference(signed[n])]
             hashes == [n \in 1..Len(outputs) |-> outputs[n].hash]
  <2>1. after = before
    BY <1>7, <1>8
  <2>2. /\ TransactionHash(inputs, outputs) = SHA256(<<"tx", before, hashes>>)
        /\ TransactionHash(signed, outputs) = SHA256(<<"tx", after, hashes>>)
    BY DEF TransactionHash
  <2>3. tx.id = TransactionHash(inputs, outputs)
    BY <1>4 DEF id
  <2> HIDE DEF before, after, hashes
  <2> QED BY <1>4, <2>1, <2>2, <2>3
<1>10. \A n \in 1..Len(tx.inputs) :
          LET k == First(Matches(tx.inputs[n], u))
          IN  /\ k \in 1..Len(u) /\ k # 0
              /\ u[k].out.hash = tx.inputs[n].tx_out_hash
              /\ Verify(u[k].out.pub, tx.id, tx.inputs[n].sig)
  <2> SUFFICES ASSUME NEW n \in 1..Len(inputs)
               PROVE  LET k == First(Matches(signed[n], u))
                      IN  /\ k \in 1..Len(u) /\ k # 0
                          /\ u[k].out.hash = signed[n].tx_out_hash
                          /\ Verify(u[k].out.pub, id, signed[n].sig)
    BY <1>4, <1>7
  <2> DEFINE in == signed[n]
             hits == Matches(in, u)
             k == First(hits)
  <2>1. in.sig = Signature(sender, id) /\ Reference(in) = Reference(inputs[n])
    BY <1>8
  <2>2. inputs[n] \in I
    <3> HIDE DEF I
    <3> QED BY <1>2
  <2>3. PICK j \in 1..Len(u) : inputs[n] = TxInCreate(u[j]) /\ Selectable(u[j], sender, txs)
    BY <2>2 DEF SelectableInputs
  <2>4. u[j].out.pub = sender
    BY <2>3 DEF Selectable
  <2> HIDE DEF in
  <2>5. j \in hits /\ hits \subseteq 1..Len(u)
    BY <2>1, <2>3 DEF Matches, InOutMatch
  <2> HIDE DEF hits
  <2>6. k \in hits
    <3>1. hits # {}
      BY <2>5
    <3> QED BY <1>1, <2>5, <3>1, FirstHit
  <2>7. k \in 1..Len(u) /\ Reference(in) = Reference(TxInCreate(u[k]))
    BY <2>5, <2>6 DEF hits, Matches, InOutMatch
  <2> HIDE DEF k
  <2>8. in.tx_out_hash = u[k].out.hash /\ u[j].out.hash = u[k].out.hash
    BY <2>1, <2>3, <2>7 DEF Reference, TxInCreate
  <2>9. u[j].out.pub = u[k].out.pub
    BY <2>7, <2>8, SameKey
  <2>10. Verify(u[k].out.pub, id, in.sig)
    BY <2>1, <2>4, <2>9 DEF Verify
  <2>11. k # 0
    BY <1>1, <2>7
  <2> QED BY <2>7, <2>8, <2>10, <2>11 DEF k, hits, in
<1>11. Spends(Values, tx, Len(tx.inputs)) = Spends(Values, sel, Len(inputs))
  <2>1. \A n \in 1..Len(inputs) : signed[n].tx_out_hash = inputs[n].tx_out_hash
    BY <1>8 DEF Reference
  <2>2. [n \in 1..Len(tx.inputs) |-> Values[tx.inputs[n].tx_out_hash]]
          = [n \in 1..Len(inputs) |-> Values[inputs[n].tx_out_hash]]
    BY <1>4, <1>7, <2>1
  <2>3. Len(tx.inputs) = Len(inputs)
    BY <1>4, <1>7
  <2> QED BY <2>2, <2>3 DEF Spends, inputs
<1>12. Spends(Values, tx, Len(tx.inputs)) % UINT32 = Paid(tx) % UINT32
  <2>1. total % UINT32 = total
    BY <1>2, AmountAssumption
  <2> QED BY <1>5, <1>6, <1>11, <2>1
<1>13. Len(tx.inputs) \in Nat /\ Len(tx.outputs) \in Nat
  BY <1>4, <1>6, <1>7
<1>14. TransactionIsValid(tx, u)
  BY <1>6, <1>9, <1>10, <1>12, <1>13, ValidWhen
<1> QED BY <1>14 DEF tx

(* The first bytes of the digests, which check_unspent compares, tell the   *)
(* references of the pending transactions from those of the list.           *)
PrefixesTell ==
    \A i \in 1..Len(unspent), p \in 1..Len(pool) : \A n \in 1..Len(pool[p].inputs) :
        LET in   == pool[p].inputs[n]
            utxo == unspent[i]
        IN  (/\ Prefix(in.block_hash)  = Prefix(utxo.block_hash)
             /\ Prefix(in.tx_id)       = Prefix(utxo.tx_id)
             /\ Prefix(in.tx_out_hash) = Prefix(utxo.out.hash))
            => Reference(in) = Reference(TxInCreate(utxo))

(* Then the entries that can be selected are those that are free.           *)
LEMMA SelectableIsFree ==
  ASSUME PrefixesTell, NEW i \in 1..Len(unspent)
  PROVE  Selectable(unspent[i], wallet, pool) <=> i \in Free
<1> DEFINE utxo == unspent[i]
           alike(in) == /\ Prefix(in.block_hash)  = Prefix(utxo.block_hash)
                        /\ Prefix(in.tx_id)       = Prefix(utxo.tx_id)
                        /\ Prefix(in.tx_out_hash) = Prefix(utxo.out.hash)
           same(in) == Reference(in) = Reference(TxInCreate(utxo))
<1>1. \A p \in 1..Len(pool) : \A n \in 1..Len(pool[p].inputs) :
         alike(pool[p].inputs[n]) => same(pool[p].inputs[n])
  BY DEF PrefixesTell
<1>2. ASSUME NEW in, same(in) PROVE alike(in)
  BY <1>2 DEF Reference, TxInCreate
<1>3. Selectable(utxo, wallet, pool) <=>
        /\ utxo.out.pub = wallet
        /\ \A p \in 1..Len(pool) : \A n \in 1..Len(pool[p].inputs) : ~alike(pool[p].inputs[n])
  BY DEF Selectable, UsedInPool, SpentBy
<1>4. i \in Free <=>
        /\ utxo.out.pub = wallet
        /\ \A p \in 1..Len(pool) : \A n \in 1..Len(pool[p].inputs) : ~same(pool[p].inputs[n])
  BY DEF Free
<1> HIDE DEF alike, same
<1>5. \A p \in 1..Len(pool) : \A n \in 1..Len(pool[p].inputs) :
         alike(pool[p].inputs[n]) <=> same(pool[p].inputs[n])
  BY <1>1, <1>2
<1> HIDE DEF utxo
<1> QED BY <1>3, <1>4, <1>5 DEF utxo

(* What the amounts of a list add up to.                                    *)
Worth(u) == Total([i \in 1..Len(u) |-> u[i].out.amount], Len(u))

(* Some of the entries are not worth more than all of them.                 *)
LEMMA PartWorth ==
  ASSUME NEW u, IsUnspentList(u), NEW f, \A k \in 1..Len(u) : f[k] \in {u[k].out.amount, 0}
  PROVE  /\ \A k \in 1..Len(u) : f[k] \in Int
         /\ Worth(u) \in Int
         /\ Total(f, Len(u)) \in Nat
         /\ Total(f, Len(u)) <= Worth(u)
<1> DEFINE N == Len(u)
           g == [k \in 1..N |-> u[k].out.amount]
<1>1. N \in Nat /\ \A k \in 1..N : g[k] \in Nat
  BY AmountAssumption DEF IsUnspentList, IsSeq, Amount
<1>2. \A k \in 1..N : f[k] \in {g[k], 0}
  OBVIOUS
<1>3. Worth(u) = Total(g, N)
  BY DEF Worth
<1> HIDE DEF N, g
<1>4. \A k \in 1..N : f[k] \in Nat /\ f[k] \in Int /\ g[k] \in Int /\ f[k] <= g[k]
  BY <1>1, <1>2
<1>5. Total(f, N) <= Total(g, N)
  BY <1>1, <1>4, TotalMonotone
<1>6. 0 \in 0..N /\ N \in 0..N
  BY <1>1
<1>7. Total(f, 0) = 0 /\ Total(f, N) \in Int
  BY <1>1, <1>4, <1>6, TotalSteps
<1>8. Total(f, 0) <= Total(f, N)
  BY <1>1, <1>4, <1>6, TotalPrefix
<1>9. Total(g, N) \in Int
  BY <1>1, <1>4, <1>6, TotalSteps
<1> QED BY <1>3, <1>4, <1>5, <1>7, <1>8, <1>9 DEF N

(* What genuine entries are worth is what the list holds.                   *)
LEMMA WorthHeld ==
  ASSUME AmountsTold, NEW u, IsUnspentList(u), Genuine(Members(u))
  PROVE  Worth(u) = Held(Values, u)
<1> DEFINE N == Len(u)
           f == [k \in 1..N |-> u[k].out.amount]
           g == [k \in 1..N |-> Values[u[k].out.hash]]
<1>1. N \in Nat /\ \A k \in 1..N : f[k] \in Int
  BY AmountAssumption DEF IsUnspentList, IsSeq, Amount
<1>2. \A k \in 1..N : g[k] = f[k]
  <2> TAKE k \in 1..N
  <2>1. IsOutput(u[k].out)
    BY DEF Genuine, Members
  <2>2. g[k] = Values[u[k].out.hash] /\ f[k] = u[k].out.amount
    OBVIOUS
  <2> QED BY <2>1, <2>2, ValueOfOutput
<1>3. Worth(u) = Total(f, N) /\ Held(Values, u) = Total(g, N)
  BY DEF Worth, Held
<1> HIDE DEF N, f, g
<1> QED BY <1>1, <1>2, <1>3, TotalSame

(* A send is accepted exactly when the free outputs cover it.               *)
LEMMA SendIff ==
  ASSUME AmountsTold, OwnersTold, IsUnspentList(unspent), Genuine(Members(unspent)),
         Worth(unspent) < UINT32, PrefixesTell
  PROVE  SendIffCovered
<1> DEFINE N == Len(unspent)
           f == [i \in 1..N |-> IF i \in Free THEN unspent[i].out.amount ELSE 0]
           free == Total(f, N)
<1>1. IsUnspentList(unspent) /\ Genuine(Members(unspent)) /\ N \in Nat
  BY DEF IsUnspentList, IsSeq
<1>2. \A k \in 1..N : f[k] = IF Selectable(unspent[k], wallet, pool)
                             THEN unspent[k].out.amount ELSE 0
  <2> TAKE k \in 1..N
  <2>1. f[k] = IF k \in Free THEN unspent[k].out.amount ELSE 0
    OBVIOUS
  <2> HIDE DEF f
  <2> QED BY <2>1, SelectableIsFree
<1>3. \A k \in 1..N : f[k] \in {unspent[k].out.amount, 0}
  OBVIOUS
<1> DEFINE worth == Worth(unspent)
<1>4. worth < UINT32
  OBVIOUS
<1>5. (\A k \in 1..N : f[k] \in Int) /\ free \in Nat /\ free <= worth /\ worth \in Int
  <2> HIDE DEF f
  <2> QED BY <1>1, <1>3, PartWorth
<1>6. free < UINT32 /\ free \in 0..(UINT32 - 1)
  <2> HIDE DEF free, worth
  <2> QED BY <1>4, <1>5, AmountAssumption
<1>7. Sum32(f, N) = free
  <2> HIDE DEF f, N
  <2>1. Sum32(f, N) = Total(f, N) % UINT32
    BY <1>1, <1>5, Sum32IsTotal
  <2> HIDE DEF free
  <2>2. free % UINT32 = free
    BY <1>6, AmountAssumption
  <2> QED BY <2>1, <2>2 DEF free
<1> SUFFICES ASSUME NEW amount \in -1..(COINBASE_AMOUNT + 1),
                    NEW receiver \in Keys \cup {NoKey}
             PROVE  Sendable(amount, receiver) <=>
                      /\ wallet \in Keys
                      /\ receiver \in Keys
                      /\ amount % UINT32 \in 1..Sum32(f, N)
  BY DEF SendIffCovered
<1> DEFINE sent == amount % UINT32
           total == Selection(wallet, sent, unspent, pool).total
<1>8. sent \in Amount /\ sent \in Nat
  BY AmountAssumption, ModuloType DEF Amount
<1> HIDE DEF sent
<1>9. total <= free /\ (total >= sent \/ total = free)
  <2>1. sent \in Int
    BY <1>8
  <2>2. Total(f, N) < UINT32
    BY <1>6
  <2> HIDE DEF f
  <2> QED BY <1>1, <1>2, <2>1, <2>2, SelectionCovers
<1>10. total \in Int
  <2>1. \A k \in 1..N : unspent[k].out.amount \in Int
    BY <1>1, AmountAssumption DEF IsUnspentList, Amount
  <2>2. total \in 0..(UINT32 - 1)
    BY <1>1, <2>1, SelectionType
  <2> HIDE DEF total
  <2> QED BY <2>2
<1>11. CanCreate(wallet, receiver, sent, unspent, pool)
         <=> wallet \in Keys /\ receiver \in Keys /\ total >= sent /\ sent # 0
  BY DEF CanCreate
<1>12. CanCreate(wallet, receiver, sent, unspent, pool)
         => TransactionIsValid(TransactionCreate(wallet, receiver, sent, unspent, pool), unspent)
  BY <1>1, <1>8, CreatedValid
<1>13. Sendable(amount, receiver) <=> CanCreate(wallet, receiver, sent, unspent, pool)
  BY <1>12 DEF Sendable, sent
<1> HIDE DEF f, N, free, total
<1>14. (total >= sent /\ sent # 0) <=> sent \in 1..free
  BY <1>5, <1>8, <1>9, <1>10
<1> QED BY <1>7, <1>11, <1>13, <1>14 DEF sent

(* In the files with a blockchain, too, every entry is an output that the   *)
(* client made.                                                             *)
GenuineFiles(f) ==
    \A path \in Paths : f[path].kind = "chain" => Genuine(Members(f[path].unspent))

(* A block leaves only outputs that the client made.                        *)
LEMMA MineGenuine ==
  ASSUME IInv, Genuine(Members(unspent)), Made(pool), NEW time, Mine(time)
  PROVE  Genuine(Members(unspent'))
<1> DEFINE block == BlockMine(DraftBlock(time))
           txs == block.transactions
           hash == block.hash
           coinbase == CoinbaseCreate(wallet, block.info.index)
           kept == Purge(pool, unspent)
<1>1. unspent' = UpdateUnspent(txs, hash, unspent) /\ IsTransactionList(txs)
  BY MinedBlock
<1>2. txs = <<coinbase>> \o kept
  BY MinedFields
<1>3. wallet \in Keys
  BY DEF Mine, CanMine, IInv, TypeOK
<1>4. IsUnspentList(unspent) /\ IsSeq(unspent) /\ IsTransactionList(pool)
  BY DEF IInv, TypeOK, IsUnspentList
<1>5. MadeOutputs(coinbase)
  <2> DEFINE out == TxOutCreate(COINBASE_AMOUNT, wallet)
  <2>1. IsOutput(out)
    BY <1>3, AmountAssumption DEF IsOutput, Amount
  <2>2. Len(coinbase.outputs) = 1 /\ coinbase.outputs[1] = out
    BY DEF CoinbaseCreate
  <2> HIDE DEF out, coinbase
  <2>3. \A o \in 1..1 : o = 1
    OBVIOUS
  <2> QED BY <2>1, <2>2, <2>3 DEF MadeOutputs
<1> HIDE DEF block, txs, hash, coinbase
<1>6. Made(txs)
  <2>1. IsTransactionList(kept) /\ Made(kept)
    BY <1>4, PurgedTransactions
  <2> HIDE DEF kept
  <2>2. kept \in Seq(Members(kept))
    BY <2>1, SeqOfMembers DEF IsTransactionList
  <2>3. /\ txs[1] = coinbase
        /\ \A i \in 2..Len(txs) : i - 1 \in 1..Len(kept) /\ txs[i] = kept[i - 1]
        /\ \A i \in 1..Len(txs) : i = 1 \/ i \in 2..Len(txs)
    BY <1>2, <2>2, ConsParts
  <2> QED BY <1>5, <2>1, <2>3 DEF Made
<1>7. PICK E : EntriesIn(E, unspent, txs, hash)
  BY <1>1, <1>4, BlockEntries
<1>8. Genuine(E)
  BY <1>6, <1>7, GenuineEntries
<1>9. unspent' \in Seq(E)
  <2>1. /\ Len(txs) \in Nat /\ unspent \in Seq(E)
        /\ \A t \in 1..Len(txs) : /\ Len(txs[t].inputs) \in Nat
                                 /\ NewUnspent(txs[t], hash) \in Seq(E)
    BY <1>7, <1>1 DEF EntriesIn, IsTransactionList, IsSeq
  <2>2. UpdateUnspent(txs, hash, unspent) \in Seq(E)
    BY <2>1, UpdateUnspentType
  <2> QED BY <1>1, <2>2
<1> QED BY <1>8, <1>9, SeqIsSeq DEF Genuine, Members

(* Whatever is saved, loaded and mined, the entries in memory and in the    *)
(* files stay outputs that the client made.                                 *)
GenuineInv == Genuine(Members(unspent)) /\ Made(pool) /\ GenuineFiles(files)

LEMMA GenuineStep ==
  ASSUME IInv, GenuineInv, [Next]_vars
  PROVE  GenuineInv'
<1>1. Made(pool')
  <2>1. CASE pool' = pool
    BY <2>1 DEF GenuineInv
  <2>2. CASE pool' = <<>>
    BY <2>2 DEF Made
  <2>3. CASE \E time \in Times : Mine(time)
    BY <2>2, <2>3 DEF Mine
  <2>4. CASE \E time \in Times : MineRejected(time)
    BY <2>4, PurgedTransactions DEF MineRejected, IInv, TypeOK, GenuineInv
  <2>5. CASE \E amount \in Amounts : \E receiver : Send(amount, receiver)
    BY <2>5, SendMade DEF GenuineInv
  <2> QED BY <2>1, <2>2, <2>3, <2>4, <2>5, MemoryStep
<1>2. Genuine(Members(unspent')) /\ GenuineFiles(files')
  <2>1. CASE SameFiles /\ SameLedger
    BY <2>1 DEF SameFiles, SameLedger, GenuineInv
  <2>2. CASE SameFiles /\ \E time \in Times : Mine(time)
    BY <2>2, MineGenuine DEF SameFiles, GenuineInv
  <2>3. CASE SameFiles /\ chain' = chain /\ unspent' = SortByAmount(unspent)
    <3> DEFINE E == Members(unspent)
               v == SortByAmount(unspent)
    <3>1. unspent \in Seq(E) /\ Genuine(E)
      BY SeqOfMembers DEF IInv, TypeOK, IsUnspentList, GenuineInv
    <3> HIDE DEF E
    <3>2. v \in Seq(E)
      BY <3>1, SortType
    <3> HIDE DEF v
    <3>3. Genuine(Members(v))
      BY <3>1, <3>2, SeqIsSeq DEF Genuine, Members
    <3> QED BY <2>3, <3>3 DEF SameFiles, GenuineInv, v
  <2>4. CASE SameLedger /\ \E path \in Paths :
                 files' = [files EXCEPT ![path] = ChainFile(chain, unspent)]
    BY <2>4 DEF SameLedger, GenuineInv, GenuineFiles, ChainFile, IInv, TypeOK, AreFiles
  <2>5. CASE /\ SameFiles
             /\ \E path \in Paths : /\ files[path].kind = "chain"
                                    /\ chain' = files[path].chain
                                    /\ unspent' = files[path].unspent
    BY <2>5 DEF SameFiles, GenuineInv, GenuineFiles
  <2>6. CASE SameFiles /\ chain' = <<GenesisBlock>> /\ unspent' = <<>>
    BY <2>6 DEF SameFiles, GenuineInv, Genuine, Members
  <2> QED BY <2>1, <2>2, <2>3, <2>4, <2>5, <2>6, LedgerStep
<1> QED BY <1>1, <1>2 DEF GenuineInv

(* As long as the first bytes tell the references apart and the amounts of  *)
(* the list add up to less than 2^32, send accepts an amount exactly when   *)
(* the outputs of the wallet that no pending transaction refers to cover    *)
(* it, also after a load under pending transactions: the loop that selects  *)
(* stops early only with enough, what it selects can be signed, and what    *)
(* transaction_create builds of it passes transaction_is_valid. The entries *)
(* in the files of earlier sessions are outputs that the client made.       *)
THEOREM SendsExactlyCovered ==
  ASSUME AmountsTold, OwnersTold, \A f \in InitialFiles : GenuineFiles(f)
  PROVE  Spec => [](PrefixesTell /\ Worth(unspent) < UINT32 => SendIffCovered)
<1>1. Init => GenuineInv
  BY DEF Init, GenuineInv, Genuine, Members, Made
<1>2. IInv /\ GenuineInv /\ [Next]_vars => GenuineInv'
  BY GenuineStep
<1>3. IInv /\ GenuineInv => (PrefixesTell /\ Worth(unspent) < UINT32 => SendIffCovered)
  BY SendIff DEF IInv, TypeOK, GenuineInv
<1> QED BY <1>1, <1>2, <1>3, Invariant, PTL DEF Spec

(* In a session without files the coins that are mined bound what the list  *)
(* is worth.                                                                *)
COROLLARY SessionSendsCovered ==
  ASSUME Paths = {}, AmountsTold, OwnersTold, IndexesTold, CoinsFit
  PROVE  Spec => [](PrefixesTell => SendIffCovered)
<1>1. IInv /\ SessionInv /\ AccountsInv => (PrefixesTell => SendIffCovered)
  <2> SUFFICES ASSUME IInv, SessionInv, AccountsInv, PrefixesTell PROVE SendIffCovered
    OBVIOUS
  <2>1. IsUnspentList(unspent) /\ Genuine(Members(unspent))
    BY DEF IInv, TypeOK, SessionInv
  <2>2. Worth(unspent) < UINT32
    BY <2>1, WorthHeld DEF AccountsInv
  <2> QED BY <2>1, <2>2, SendIff
<1>2. Spec => [](IInv /\ SessionInv /\ AccountsInv)
  BY AccountsInvariant
<1> QED BY <1>1, <1>2, PTL

=============================================================================
