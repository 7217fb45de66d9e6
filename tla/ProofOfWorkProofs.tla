-------------------------- MODULE ProofOfWorkProofs --------------------------
(***************************************************************************)
(* Theorems about the loop of block_mine and hash_matches_difficulty, for  *)
(* digests of every length and every difficulty up to their bits.          *)
(***************************************************************************)
EXTENDS ProofOfWork, InductionLemmas

(* A difficulty is its full bytes and its remaining bits, and neither goes  *)
(* beyond the digest.                                                       *)
LEMMA DifficultySplit ==
  ASSUME TypeOK
  PROVE  /\ FullBytes \in Nat
         /\ RemainingBits \in 0..7
         /\ FullBytes <= DIGEST_LENGTH
         /\ RemainingBits # 0 => FullBytes < DIGEST_LENGTH
<1>1. difficulty \in Nat /\ difficulty <= 8 * DIGEST_LENGTH
  BY WorkAssumption DEF TypeOK
<1>2. difficulty = 8 * FullBytes + RemainingBits
  BY <1>1 DEF FullBytes, RemainingBits
<1>3. FullBytes \in Nat /\ RemainingBits \in 0..7
  BY <1>1 DEF FullBytes, RemainingBits
<1> QED BY <1>1, <1>2, <1>3, WorkAssumption

(* The type invariant: the byte loop stops at the last full byte, and the   *)
(* nonce wraps around.                                                      *)
THEOREM WorkTypeOK == Spec => []TypeOK
<1>1. Init => TypeOK
  <2> SUFFICES ASSUME Init PROVE TypeOK
    OBVIOUS
  <2>1. difficulty \in Nat
    BY WorkAssumption DEF Init
  <2>2. 0 \in 0..FullBytes
    BY <2>1 DEF FullBytes
  <2> QED BY <2>2, WorkAssumption DEF Init, TypeOK
<1>2. TypeOK /\ [Next]_vars => TypeOK'
  <2> SUFFICES ASSUME TypeOK, [Next]_vars PROVE TypeOK'
    OBVIOUS
  <2>1. FullBytes \in Nat
    BY DifficultySplit
  <2>2. CASE Hash
    <3>1. 0 \in 0..FullBytes
      BY <2>1
    <3> QED BY <2>2, <3>1 DEF TypeOK, Hash, FullBytes
  <2>3. CASE NextByte
    <3>1. i + 1 \in 0..FullBytes
      BY <2>1, <2>3 DEF TypeOK, NextByte
    <3> QED BY <2>3, <3>1 DEF TypeOK, NextByte, FullBytes
  <2>4. CASE Retry
    <3>1. (nonce + 1) % NONCES \in 0..(NONCES - 1)
      BY WorkAssumption DEF TypeOK
    <3> QED BY <2>4, <3>1 DEF TypeOK, Retry, FullBytes
  <2>5. CASE Found
    BY <2>5 DEF TypeOK, Found, FullBytes
  <2>6. CASE Return \/ UNCHANGED vars
    BY <2>6 DEF TypeOK, Return, vars, FullBytes
  <2> QED BY <2>2, <2>3, <2>4, <2>5, <2>6 DEF Next
<1> QED BY <1>1, <1>2, PTL DEF Spec

(* hash_matches_difficulty never reads past the digest, whatever the length *)
(* of the digest and for every difficulty up to its number of bits.         *)
THEOREM NoReadPastDigest == Spec => []ReadsInDigest
<1>1. TypeOK => ReadsInDigest
  <2> SUFFICES ASSUME TypeOK, ReadsByte PROVE i < DIGEST_LENGTH
    BY DEF ReadsInDigest
  <2>1. /\ FullBytes \in Nat /\ FullBytes <= DIGEST_LENGTH
        /\ RemainingBits # 0 => FullBytes < DIGEST_LENGTH
    BY DifficultySplit
  <2>2. i \in 0..FullBytes
    BY DEF TypeOK
  <2> QED BY <2>1, <2>2, WorkAssumption DEF ReadsByte
<1> QED BY <1>1, WorkTypeOK, PTL

-----------------------------------------------------------------------------
(* Bytes and bits.                                                          *)

LEMMA Powers ==
  /\ 2^0 = 1 /\ 2^1 = 2 /\ 2^2 = 4 /\ 2^3 = 8 /\ 2^4 = 16
  /\ 2^5 = 32 /\ 2^6 = 64 /\ 2^7 = 128 /\ 2^8 = 256
  OBVIOUS

(* A byte below 2k is below k when the bit of k is zero. *)
LEMMA BitOfByte ==
  ASSUME NEW x \in 0..255, NEW m \in 0..7
  PROVE  x < 2^(7 - m) <=> x < 2^(8 - m) /\ (x \div 2^(7 - m)) % 2 = 0
<1>1. CASE m = 0
  BY <1>1, Powers
<1>2. CASE m = 1
  BY <1>2, Powers
<1>3. CASE m = 2
  BY <1>3, Powers
<1>4. CASE m = 3
  BY <1>4, Powers
<1>5. CASE m = 4
  BY <1>5, Powers
<1>6. CASE m = 5
  BY <1>6, Powers
<1>7. CASE m = 6
  BY <1>7, Powers
<1>8. CASE m = 7
  BY <1>8, Powers
<1> QED BY <1>1, <1>2, <1>3, <1>4, <1>5, <1>6, <1>7, <1>8

(* A number divided by one above it is 0. *)
LEMMA QuotientZero ==
  ASSUME NEW x \in 0..255, NEW r \in 0..8
  PROVE  x \div 2^(8 - r) = 0 <=> x < 2^(8 - r)
<1> DEFINE p == 2^(8 - r)
<1>1. p \in Nat \ {0}
  <2>1. CASE r = 0
    BY <2>1, Powers
  <2>2. CASE r = 1
    BY <2>2, Powers
  <2>3. CASE r = 2
    BY <2>3, Powers
  <2>4. CASE r = 3
    BY <2>4, Powers
  <2>5. CASE r = 4
    BY <2>5, Powers
  <2>6. CASE r = 5
    BY <2>6, Powers
  <2>7. CASE r = 6
    BY <2>7, Powers
  <2>8. CASE r = 7
    BY <2>8, Powers
  <2>9. CASE r = 8
    BY <2>9, Powers
  <2> QED BY <2>1, <2>2, <2>3, <2>4, <2>5, <2>6, <2>7, <2>8, <2>9
<1> HIDE DEF p
<1>2. x \div p = 0 <=> x < p
  BY <1>1
<1> QED BY <1>2 DEF p

(* The shift tests the leading bits of a byte. *)
LEMMA LeadingBits ==
  ASSUME NEW x \in 0..255, NEW r \in 0..8
  PROVE  x \div 2^(8 - r) = 0 <=> \A m \in 0..(r - 1) : (x \div 2^(7 - m)) % 2 = 0
<1> DEFINE B(m) == (x \div 2^(7 - m)) % 2 = 0
           T == {s \in 0..8 : x < 2^(8 - s) <=> \A m \in 0..(s - 1) : B(m)}
<1>1. 0 \in T
  <2>1. x < 2^(8 - 0)
    BY Powers
  <2> QED BY <2>1
<1>2. ASSUME NEW s \in 1..8, s - 1 \in T PROVE s \in T
  <2> DEFINE t == s - 1
  <2>1. t \in 0..7 /\ s = t + 1 /\ 8 - s = 7 - t /\ s - 1 = t
    OBVIOUS
  <2>2. x < 2^(7 - t) <=> x < 2^(8 - t) /\ B(t)
    BY <2>1, BitOfByte
  <2>3. x < 2^(8 - t) <=> \A m \in 0..(t - 1) : B(m)
    BY <1>2
  <2>4. (\A m \in 0..t : B(m)) <=> (\A m \in 0..(t - 1) : B(m)) /\ B(t)
    <3> HIDE DEF B, t
    <3>1. \A m \in 0..t : m = t \/ m \in 0..(t - 1)
      BY <2>1
    <3>2. t \in 0..t /\ \A m \in 0..(t - 1) : m \in 0..t
      BY <2>1
    <3> QED BY <3>1, <3>2
  <2>5. x < 2^(8 - s) <=> \A m \in 0..(s - 1) : B(m)
    <3> HIDE DEF B, t
    <3> QED BY <2>1, <2>2, <2>3, <2>4
  <2> HIDE DEF B, t
  <2> QED BY <2>5
<1>3. r \in T
  <2> HIDE DEF T
  <2>1. 0..8 \subseteq T
    BY <1>1, <1>2, IntervalInduction
  <2> QED BY <2>1
<1>4. x < 2^(8 - r) <=> \A m \in 0..(r - 1) : B(m)
  <2> HIDE DEF B
  <2> QED BY <1>3
<1> HIDE DEF B
<1>5. x \div 2^(8 - r) = 0 <=> \A m \in 0..(r - 1) : B(m)
  BY <1>4, QuotientZero
<1> QED BY <1>5 DEF B

(* A byte is 0 exactly when its leading bits are. *)
LEMMA ByteZero ==
  ASSUME NEW x \in 0..255
  PROVE  x = 0 <=> \A m \in 0..7 : (x \div 2^(7 - m)) % 2 = 0
<1>1. x \div 2^(8 - 8) = x
  <2>1. 2^(8 - 8) = 1 /\ x \div 1 = x
    BY Powers
  <2> QED BY <2>1
<1>2. x \div 2^(8 - 8) = 0 <=> \A m \in 0..(8 - 1) : (x \div 2^(7 - m)) % 2 = 0
  BY LeadingBits
<1> QED BY <1>1, <1>2

(* The loop over the full bytes and the test of the last one accept what    *)
(* difficulty means.                                                        *)
LEMMA MatchesBytes ==
  ASSUME TypeOK, NEW d \in [0..(DIGEST_LENGTH - 1) -> 0..255]
  PROVE  Matches(d) <=>
           /\ \A k \in 0..(FullBytes - 1) : d[k] = 0
           /\ RemainingBits # 0 => d[FullBytes] \div 2^(8 - RemainingBits) = 0
<1> DEFINE F == FullBytes
           R == RemainingBits
           B(k, m) == (d[k] \div 2^(7 - m)) % 2 = 0
<1>1. /\ F \in Nat /\ R \in 0..7 /\ F <= DIGEST_LENGTH
      /\ R # 0 => F < DIGEST_LENGTH
      /\ difficulty = 8 * F + R
  <2>1. difficulty \in Int
    BY WorkAssumption DEF TypeOK
  <2>2. difficulty = 8 * F + R
    BY <2>1 DEF FullBytes, RemainingBits
  <2> QED BY <2>2, DifficultySplit
<1>2. \A b \in 0..(difficulty - 1) : Bit(d, b) = 0 <=> B(b \div 8, b % 8)
  BY DEF Bit
<1>3. \A k \in Nat, m \in 0..7 :
         /\ 8 * k + m \in Nat
         /\ (8 * k + m) \div 8 = k
         /\ (8 * k + m) % 8 = m
  OBVIOUS
<1>4. \A b \in Nat : /\ b \div 8 \in Nat /\ b % 8 \in 0..7
                    /\ b = 8 * (b \div 8) + (b % 8)
  OBVIOUS
<1>5. Matches(d) <=> \A k \in 0..F : \A m \in 0..7 :
                        8 * k + m < difficulty => B(k, m)
  <2> HIDE DEF B, F, R
  <2>1. ASSUME Matches(d), NEW k \in 0..F, NEW m \in 0..7, 8 * k + m < difficulty
        PROVE  B(k, m)
    <3> DEFINE b == 8 * k + m
    <3>1. k \in Nat
      BY <1>1
    <3>2. b \in 0..(difficulty - 1) /\ b \div 8 = k /\ b % 8 = m
      BY <1>1, <1>3, <2>1, <3>1
    <3> HIDE DEF b
    <3> QED BY <1>2, <2>1, <3>2 DEF Matches
  <2>2. ASSUME \A k \in 0..F : \A m \in 0..7 : 8 * k + m < difficulty => B(k, m),
               NEW b \in 0..(difficulty - 1)
        PROVE  Bit(d, b) = 0
    <3> DEFINE k == b \div 8
               m == b % 8
    <3>1. b \in Nat /\ b < difficulty
      BY <1>1
    <3>2. k \in Nat /\ m \in 0..7 /\ b = 8 * k + m
      BY <1>4, <3>1
    <3>3. Bit(d, b) = 0 <=> B(k, m)
      BY <1>2
    <3> HIDE DEF k, m
    <3>4. k \in 0..F
      BY <1>1, <3>1, <3>2
    <3> QED BY <2>2, <3>1, <3>2, <3>3, <3>4
  <2> QED BY <2>1, <2>2 DEF Matches
<1>6. ASSUME NEW k \in 0..(F - 1)
      PROVE  (\A m \in 0..7 : 8 * k + m < difficulty => B(k, m)) <=> d[k] = 0
  <2>1. \A m \in 0..7 : 8 * k + m < difficulty
    BY <1>1
  <2>2. d[k] \in 0..255
    BY <1>1, WorkAssumption
  <2> DEFINE x == d[k]
  <2>3. x \in 0..255
    BY <2>2
  <2> HIDE DEF x
  <2>4. x = 0 <=> \A m \in 0..7 : (x \div 2^(7 - m)) % 2 = 0
    BY <2>3, ByteZero
  <2> QED BY <2>1, <2>4 DEF x
<1>7. ASSUME R # 0
      PROVE  (\A m \in 0..7 : 8 * F + m < difficulty => B(F, m))
               <=> d[F] \div 2^(8 - R) = 0
  <2>1. \A m \in 0..7 : 8 * F + m < difficulty <=> m \in 0..(R - 1)
    BY <1>1
  <2>2. d[F] \in 0..255
    BY <1>1, <1>7, WorkAssumption
  <2> DEFINE x == d[F]
  <2>3. x \in 0..255 /\ R \in 0..8
    BY <1>1, <2>2
  <2> HIDE DEF x, R, F
  <2>5. x \div 2^(8 - R) = 0 <=> \A m \in 0..(R - 1) : (x \div 2^(7 - m)) % 2 = 0
    BY <2>3, LeadingBits
  <2>4. \A m \in 0..(R - 1) : m \in 0..7
    BY <1>1
  <2> QED BY <2>1, <2>4, <2>5 DEF x
<1>8. R = 0 => \A m \in 0..7 : ~(8 * F + m < difficulty)
  BY <1>1
<1> HIDE DEF B, F, R
<1>9. F \in 0..F /\ \A k \in 0..F : k = F \/ k \in 0..(F - 1)
  BY <1>1
<1>10. \A k \in 0..(F - 1) : k \in 0..F
  BY <1>1
<1> DEFINE Zero(k) == \A m \in 0..7 : 8 * k + m < difficulty => B(k, m)
           Last == R # 0 => d[F] \div 2^(8 - R) = 0
<1>11. Zero(F) <=> Last
  BY <1>7, <1>8
<1>12. Matches(d) <=> (\A k \in 0..(F - 1) : d[k] = 0) /\ Last
  <2>1. Matches(d) <=> \A k \in 0..F : Zero(k)
    BY <1>5
  <2>2. \A k \in 0..(F - 1) : Zero(k) <=> d[k] = 0
    BY <1>6
  <2> HIDE DEF Zero, Last, F
  <2> QED BY <1>9, <1>10, <1>11, <2>1, <2>2
<1> QED BY <1>12 DEF F, R

(* Before the loop is done no nonce it left behind matches, and the bytes   *)
(* it has compared are zero.                                                *)
WInv ==
    /\ TypeOK
    /\ \A n \in 0..(nonce - 1) : ~Matches(digest[n])
    /\ pc \in {"compare", "done"} => \A k \in 0..(i - 1) : digest[nonce][k] = 0
    /\ pc = "done" => Matches(digest[nonce])

(* block_mine returns with the least nonce whose digest has as many leading *)
(* zero bits as the difficulty, for every length of the digest and every    *)
(* difficulty, in whole bytes or not (block_mine, hash_matches_difficulty).  *)
THEOREM MinesLeastNonce == Spec => []FoundIsLeast
<1>1. Init => (TypeOK => WInv)
  BY DEF Init, WInv
<1>2. TypeOK' /\ WInv /\ [Next]_vars => WInv'
  <2> SUFFICES ASSUME TypeOK', WInv, [Next]_vars PROVE WInv'
    OBVIOUS
  <2> DEFINE d == digest[nonce]
  <2>1. /\ digest \in [0..(NONCES - 1) -> [0..(DIGEST_LENGTH - 1) -> 0..255]]
        /\ nonce \in 0..(NONCES - 1) /\ NONCES \in Nat
        /\ i \in 0..FullBytes
    BY WorkAssumption DEF WInv, TypeOK
  <2>2. d \in [0..(DIGEST_LENGTH - 1) -> 0..255]
    BY <2>1
  <2> HIDE DEF d
  <2>3. Matches(d) <=>
           /\ \A k \in 0..(FullBytes - 1) : d[k] = 0
           /\ RemainingBits # 0 => d[FullBytes] \div 2^(8 - RemainingBits) = 0
    BY <2>2, MatchesBytes DEF WInv
  <2>4. FullBytes \in Nat
    BY DifficultySplit DEF WInv
  <2>5. CASE Hash
    <3>1. \A n : Matches(digest[n])' <=> Matches(digest[n])
      BY <2>5 DEF Hash, Matches
    <3> QED BY <2>5, <3>1 DEF Hash, WInv
  <2>6. CASE NextByte
    <3>1. \A n : Matches(digest[n])' <=> Matches(digest[n])
      BY <2>6 DEF NextByte, Matches
    <3>2. d[i] = 0 /\ \A k \in 0..(i - 1) : d[k] = 0
      BY <2>6 DEF NextByte, Mismatch, WInv, d
    <3>3. \A k \in 0..(i' - 1) : k = i \/ k \in 0..(i - 1)
      BY <2>1, <2>6 DEF NextByte
    <3>4. \A k \in 0..(i' - 1) : d[k] = 0
      BY <3>2, <3>3
    <3> QED BY <2>6, <3>1, <3>4 DEF NextByte, WInv, d
  <2>7. CASE Retry
    <3>1. \A n : Matches(digest[n])' <=> Matches(digest[n])
      BY <2>7 DEF Retry, Matches
    <3>2. ~Matches(d)
      <4>1. CASE i < FullBytes
        <5>1. d[i] # 0 /\ i \in 0..(FullBytes - 1)
          BY <2>1, <2>4, <2>7, <4>1 DEF Retry, Mismatch, d
        <5> QED BY <2>3, <5>1
      <4>2. CASE ~(i < FullBytes)
        <5>1. i = FullBytes
          BY <2>1, <2>4, <4>2
        <5>2. RemainingBits # 0 /\ d[FullBytes] \div 2^(8 - RemainingBits) # 0
          BY <2>7, <4>2, <5>1 DEF Retry, ReadsByte, Mismatch, d
        <5> QED BY <2>3, <5>2
      <4> QED BY <4>1, <4>2
    <3>3. \A n \in 0..(nonce' - 1) : n = nonce \/ n \in 0..(nonce - 1)
      <4> DEFINE next == nonce'
      <4>1. next = (nonce + 1) % NONCES
        BY <2>7 DEF Retry
      <4> HIDE DEF next
      <4>2. nonce \in Int /\ next <= nonce + 1 /\ next \in Int
        <5>1. nonce + 1 \in Nat
          BY <2>1
        <5> DEFINE a == nonce + 1
        <5> HIDE DEF a
        <5>2. a \in Nat /\ NONCES \in Nat \ {0}
          BY <5>1, WorkAssumption DEF a
        <5>3. a % NONCES <= a
          BY <5>2, RemainderBounds
        <5>4. a % NONCES \in Int
          BY <5>2
        <5> QED BY <2>1, <4>1, <5>3, <5>4 DEF a
      <4>3. \A n \in 0..(next - 1) : n = nonce \/ n \in 0..(nonce - 1)
        BY <4>2
      <4> QED BY <4>3 DEF next
    <3>4. \A n \in 0..(nonce' - 1) : ~Matches(digest[n])
      BY <3>2, <3>3 DEF WInv, d
    <3> QED BY <2>7, <3>1, <3>4 DEF Retry, WInv
  <2>8. CASE Found
    <3>1. \A n : Matches(digest[n])' <=> Matches(digest[n])
      BY <2>8 DEF Found, Matches
    <3>2. i = FullBytes /\ \A k \in 0..(i - 1) : d[k] = 0
      BY <2>8 DEF Found, WInv, d
    <3>3. RemainingBits # 0 => d[FullBytes] \div 2^(8 - RemainingBits) = 0
      BY <2>1, <2>4, <2>8, <3>2 DEF Found, ReadsByte, Mismatch, d
    <3>4. Matches(d)
      BY <2>3, <3>2, <3>3
    <3> QED BY <2>8, <3>1, <3>2, <3>4 DEF Found, WInv, d
  <2>9. CASE Return \/ UNCHANGED vars
    <3>1. UNCHANGED vars
      BY <2>9 DEF Return
    <3>2. \A n : Matches(digest[n])' <=> Matches(digest[n])
      BY <3>1 DEF vars, Matches
    <3> QED BY <3>1, <3>2 DEF vars, WInv
  <2> QED BY <2>5, <2>6, <2>7, <2>8, <2>9 DEF Next
<1>3. WInv => FoundIsLeast
  BY DEF WInv, FoundIsLeast
<1> QED BY <1>1, <1>2, <1>3, WorkTypeOK, PTL DEF Spec

=============================================================================
