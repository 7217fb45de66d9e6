----------------------------- MODULE ProofOfWork -----------------------------
(***************************************************************************)
(* The proof of work one comparison at a time (blockchain/v0.3, block_mine *)
(* and hash_matches_difficulty): what module Block does in one step, the   *)
(* choice of the least nonce whose digest has enough leading zero bits, is *)
(* here the loop over the nonces and the bytes of each digest.             *)
(***************************************************************************)
EXTENDS Integers

CONSTANTS
    DIGEST_LENGTH,  \* bytes of a digest
    NONCES,         \* the modulus of the nonce, which is a uint64_t
    Digests,        \* what block_hash may return: the bytes for each nonce
    Difficulties    \* the difficulties of the block

ASSUME WorkAssumption ==
    /\ DIGEST_LENGTH \in Nat
    /\ NONCES \in Nat \ {0}
    /\ Digests \subseteq [0..(NONCES - 1) -> [0..(DIGEST_LENGTH - 1) -> 0..255]]
    /\ Difficulties \subseteq 0..(8 * DIGEST_LENGTH)

VARIABLES
    pc,          \* "hash", "compare" or "done"
    digest,      \* the digest of the block with each nonce
    difficulty,
    nonce,
    i            \* the byte of the digest that is compared next

vars == <<pc, digest, difficulty, nonce, i>>

FullBytes == difficulty \div 8
RemainingBits == difficulty % 8

Init ==
    /\ pc = "hash"
    /\ digest \in Digests
    /\ difficulty \in Difficulties
    /\ nonce = 0
    /\ i = 0

(* block_hash, for the block with the nonce. *)
Hash ==
    /\ pc = "hash" /\ pc' = "compare"
    /\ i' = 0
    /\ UNCHANGED <<digest, difficulty, nonce>>

(* Variant: the byte after the full bytes is always tested. *)
ReadsByte_Always == TRUE

(* Whether the next comparison reads byte i: the loop over the full bytes,  *)
(* and after it the test of the remaining bits.                             *)
ReadsByte == i < FullBytes \/ RemainingBits # 0

(* Variant: the shift is one too large. *)
Mismatch_OneBitLess ==
    LET byte == digest[nonce][i]
    IN  IF i < FullBytes THEN byte # 0
        ELSE byte \div 2^(9 - RemainingBits) # 0

Mismatch ==
    LET byte == digest[nonce][i]
    IN  IF i < FullBytes THEN byte # 0
        ELSE byte \div 2^(8 - RemainingBits) # 0

NextByte ==
    /\ pc = "compare"
    /\ i < FullBytes
    /\ ~Mismatch
    /\ i' = i + 1
    /\ UNCHANGED <<pc, digest, difficulty, nonce>>

(* Variant: the nonce is not incremented. *)
Retry_SameNonce ==
    /\ pc = "compare"
    /\ ReadsByte
    /\ Mismatch
    /\ pc' = "hash"
    /\ UNCHANGED <<digest, difficulty, nonce, i>>

Retry ==
    /\ pc = "compare"
    /\ ReadsByte
    /\ Mismatch
    /\ pc' = "hash"
    /\ nonce' = (nonce + 1) % NONCES
    /\ UNCHANGED <<digest, difficulty, i>>

Found ==
    /\ pc = "compare"
    /\ i = FullBytes
    /\ ReadsByte => ~Mismatch
    /\ pc' = "done"
    /\ UNCHANGED <<digest, difficulty, nonce, i>>

Return == pc = "done" /\ UNCHANGED vars

Next == Hash \/ NextByte \/ Retry \/ Found \/ Return

(* The loop is the only thing its thread runs. *)
Spec == Init /\ [][Next]_vars /\ WF_vars(Next)

-----------------------------------------------------------------------------
(* Bit b of a digest, the most significant bit of its first byte being 0. *)
Bit(d, b) == (d[b \div 8] \div 2^(7 - (b % 8))) % 2

(* What difficulty means: that many leading bits are 0. *)
Matches(d) == \A b \in 0..(difficulty - 1) : Bit(d, b) = 0

TypeOK ==
    /\ pc \in {"hash", "compare", "done"}
    /\ digest \in Digests
    /\ difficulty \in Difficulties
    /\ nonce \in 0..(NONCES - 1)
    /\ i \in 0..FullBytes

(* block_mine stops at the least nonce whose digest has the leading zero    *)
(* bits the difficulty asks for: neither the byte loop nor the shift of the *)
(* last byte accepts too much or misses a nonce, whatever the difficulty    *)
(* modulo 8.                                                                *)
FoundIsLeast ==
    pc = "done" =>
        /\ Matches(digest[nonce])
        /\ \A n \in 0..(nonce - 1) : ~Matches(digest[n])

(* hash_matches_difficulty reads no byte after the digest, also when the    *)
(* difficulty is the length of the digest in bits.                          *)
ReadsInDigest == pc = "compare" /\ ReadsByte => i < DIGEST_LENGTH

(* If some nonce matches, block_mine finds it: no comparison repeats for    *)
(* ever, and no nonce is tried for ever.                                    *)
Finds ==
    (\E n \in 0..(NONCES - 1) : Matches(digest[n])) ~> (pc = "done")

=============================================================================
