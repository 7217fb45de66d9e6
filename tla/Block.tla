------------------------------- MODULE Block -------------------------------
(***************************************************************************)
(* Blocks and the blockchain (blockchain/v0.3): creation, hash, proof of   *)
(* work and validity.                                                      *)
(***************************************************************************)
EXTENDS Transaction, Difficulty

CONSTANTS
    MaxNonce,           \* bound: nonces the proof of work tries
    GENESIS_TIMESTAMP

ASSUME BlockAssumption ==
    /\ MaxNonce \in Nat
    /\ GENESIS_TIMESTAMP \in 0..(UINT64 - 1)

-----------------------------------------------------------------------------
(* The digest of a block covers its info and the ids of its transactions;   *)
(* its data is a constant, so it is left out.                               *)
BlockHash(block) ==
    SHA256(<<"block", block.info,
             [n \in 1..Len(block.transactions) |-> block.transactions[n].id]>>)

GenesisBlock ==
    LET info == [index |-> 0, difficulty |-> 0, timestamp |-> GENESIS_TIMESTAMP,
                 nonce |-> 0, prev_hash |-> ZeroHash]
    IN  [info |-> info, transactions |-> <<>>,
         hash |-> SHA256(<<"block", info, <<>>>>)]

BlockCreate(prev, time) ==
    [info |-> [index |-> (prev.info.index + 1) % UINT32, difficulty |-> 0,
               timestamp |-> time, nonce |-> 0, prev_hash |-> prev.hash],
     transactions |-> <<>>,
     hash |-> ZeroHash]

-----------------------------------------------------------------------------
(* Proof of work: block_mine tries the nonces from 0 and keeps the first    *)
(* one whose block hash matches.                                            *)

WithNonce(block, nonce) == [block EXCEPT !.info.nonce = nonce]

MatchingNonces(block) ==
    {nonce \in 0..MaxNonce :
        HashMatchesDifficulty(BlockHash(WithNonce(block, nonce)),
                              block.info.difficulty)}

(* Variant: the first nonce is taken untested. *)
BlockMine_NonceKept(block) == [block EXCEPT !.hash = BlockHash(block)]

BlockMine(block) ==
    LET nonce == CHOOSE n \in MatchingNonces(block) :
                    \A m \in MatchingNonces(block) : n <= m
        found == WithNonce(block, nonce)
    IN  [found EXCEPT !.hash = BlockHash(found)]

-----------------------------------------------------------------------------
(* Validity of a block against its predecessor and the unspent outputs.     *)

ValidateTransactions(block, unspent) ==
    LET txs == block.transactions
    IN  /\ Len(txs) > 0
        /\ CoinbaseIsValid(txs[1], block.info.index)
        /\ \A n \in 2..Len(txs) : TransactionIsValid(txs[n], unspent)

(* Variant: the hash of the previous block is not computed again. *)
BlockIsValid_PrevUnchecked(block, prev, unspent) ==
    /\ block.info.index = (prev.info.index + 1) % UINT32
    /\ prev.hash = block.info.prev_hash
    /\ BlockHash(block) = block.hash
    /\ HashMatchesDifficulty(block.hash, block.info.difficulty)
    /\ ValidateTransactions(block, unspent)

BlockIsValid(block, prev, unspent) ==
    IF block.info.index = 0
    THEN block = GenesisBlock
    ELSE /\ block.info.index = (prev.info.index + 1) % UINT32
         /\ BlockHash(prev) = prev.hash
         /\ prev.hash = block.info.prev_hash
         /\ BlockHash(block) = block.hash
         /\ HashMatchesDifficulty(block.hash, block.info.difficulty)
         /\ ValidateTransactions(block, unspent)

=============================================================================
