------------------------------- MODULE MCCli -------------------------------
(***************************************************************************)
(* Small instances of module Cli for TLC.                                  *)
(***************************************************************************)
EXTENDS CliProperties, TLC

(* A digest is named by what it is the digest of: no two buffers collide,   *)
(* and neither do the first bytes of two digests.                           *)
MCSHA256(buffer) == buffer
MCPrefix(digest) == digest

MCLeadingZeros(digest) == 0

MCAmounts == {-1, 1}

(* Addresses of keys, one that is too short, and one that is too long. *)
Typed(length, hex, key) == [length |-> length, hex |-> hex, pub |-> key]
MCExactAddresses == {Typed("exact", TRUE, key) : key \in Keys}
MCAddresses == MCExactAddresses \cup {Typed("short", TRUE, NoKey)}
MCLongAddresses ==
    MCAddresses \cup {Typed("long", TRUE, key) : key \in Keys}
                \cup {Typed("exact", FALSE, NoKey)}

MCSymmetry == Permutations(Keys)

(* Nonces 0, 1 and 2 of a block give it 0 to 2 leading zero bits. *)
MCWork(digest) ==
    IF digest[1] = "block" THEN (digest[2].nonce + digest[2].index) % 3 ELSE 0

MCNoPaths == {[p \in {} |-> NoFile]}

(* The file with one more block, mined by key, with the given transactions. *)
Extended(saved, key, txs) ==
    LET prev  == saved.chain[Len(saved.chain)]
        draft == BlockCreate(prev, GENESIS_TIMESTAMP)
        full  == [draft EXCEPT !.transactions =
                    <<CoinbaseCreate(key, draft.info.index)>> \o txs]
        block == [full EXCEPT !.hash = BlockHash(full)]
    IN  ChainFile(Append(saved.chain, block),
                  UpdateUnspent(block.transactions, block.hash, saved.unspent))

(* A chain of two blocks that the owner of a key mined and saved elsewhere. *)
Foreign(key) == Extended(ChainFile(<<GenesisBlock>>, <<>>), key, <<>>)

(* Its owner then sends 1 of these 2 coins to the same key, which gives two *)
(* equal outputs, and saves; and later sends 2 and 1 to another key, which  *)
(* leaves one of the two, and saves the longer chain to another file.       *)
Split(key) ==
    LET first == Foreign(key)
    IN  Extended(first, key, <<TransactionCreate(key, key, 1, first.unspent, <<>>)>>)

OneLeft(key, other) ==
    LET split == Split(key)
        two   == TransactionCreate(key, other, 2, split.unspent, <<>>)
        one   == TransactionCreate(key, other, 1, split.unspent, <<two>>)
    IN  Extended(split, key, <<two, one>>)

MCTwoBackups ==
    UNION {[Paths -> {Split(key), OneLeft(key, other)}]
             : <<key, other>> \in {pair \in Keys \X Keys : pair[1] # pair[2]}}

(* A file whose last block has not the hash it should have, and one without *)
(* a block.                                                                 *)
Damaged ==
    ChainFile(<<GenesisBlock, [BlockCreate(GenesisBlock, GENESIS_TIMESTAMP)
                                 EXCEPT !.hash = ZeroHash]>>, <<>>)
Empty == ChainFile(<<>>, <<>>)

MCSoundFiles ==
    {[p \in Paths |-> f] : f \in {NoFile, BadFile} \cup {Foreign(key) : key \in Keys}}
MCBrokenFiles ==
    {[p \in Paths |-> f] : f \in {NoFile, BadFile, Empty, Damaged}}
=============================================================================
