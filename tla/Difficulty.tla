----------------------------- MODULE Difficulty -----------------------------
(***************************************************************************)
(* The difficulty of blocks: what a digest must meet, and the adjustment   *)
(* by the time that blocks took. Versions 0.2 and 0.3 have the same text.  *)
(***************************************************************************)
EXTENDS Integers, Sequences

CONSTANTS
    LeadingZeros(_),                 \* leading zero bits of a digest
    UINT64,                          \* the modulus of uint64_t arithmetic
    DIFFICULTY_ADJUSTMENT_INTERVAL,  \* blocks between two adjustments
    BLOCK_GENERATION_INTERVAL        \* seconds a block should take

ASSUME DifficultyAssumption ==
    /\ UINT64 \in Nat \ {0}
    /\ DIFFICULTY_ADJUSTMENT_INTERVAL \in Nat \ {0}
    /\ BLOCK_GENERATION_INTERVAL \in Nat

-----------------------------------------------------------------------------
HashMatchesDifficulty(hash, difficulty) == LeadingZeros(hash) >= difficulty

-----------------------------------------------------------------------------
(* Retargeting, on the timestamps of the last block and of the block one    *)
(* interval back; their difference is unsigned.                             *)

ExpectedTime == DIFFICULTY_ADJUSTMENT_INTERVAL * BLOCK_GENERATION_INTERVAL

(* Variant: half the expected time counts as too fast. *)
AdjustedDifficulty_HalfIncluded(difficulty, actual_time) ==
    IF actual_time <= ExpectedTime \div 2 THEN difficulty + 1
    ELSE IF actual_time > ExpectedTime * 2 /\ difficulty > 0 THEN difficulty - 1
    ELSE difficulty

AdjustedDifficulty(difficulty, actual_time) ==
    IF actual_time < ExpectedTime \div 2 THEN difficulty + 1
    ELSE IF actual_time > ExpectedTime * 2 /\ difficulty > 0 THEN difficulty - 1
    ELSE difficulty

(* Variant: the difficulty is adjusted after every block. *)
BlockchainDifficulty_EveryBlock(chain) ==
    LET last == chain[Len(chain)].info
        back == Len(chain) - DIFFICULTY_ADJUSTMENT_INTERVAL + 1
    IN  IF last.index = 0 THEN last.difficulty
        ELSE IF back < 1 THEN 0
        ELSE AdjustedDifficulty(last.difficulty,
                 (last.timestamp - chain[back].info.timestamp) % UINT64)

BlockchainDifficulty(chain) ==
    LET last == chain[Len(chain)].info
        back == Len(chain) - DIFFICULTY_ADJUSTMENT_INTERVAL + 1
    IN  IF \/ last.index = 0
           \/ last.index % DIFFICULTY_ADJUSTMENT_INTERVAL # 0
        THEN last.difficulty
        ELSE IF back < 1 THEN 0
        ELSE AdjustedDifficulty(last.difficulty,
                 (last.timestamp - chain[back].info.timestamp) % UINT64)

=============================================================================
