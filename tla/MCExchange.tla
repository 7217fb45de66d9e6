----------------------------- MODULE MCExchange -----------------------------
(***************************************************************************)
(* A machine of each byte order, and one of each version. Bytes have three *)
(* values, so that four of them hold 0 to 80.                              *)
(***************************************************************************)
EXTENDS Exchange

MCSHA256(buffer) == buffer

(* The digest of a block with nonce n has so many leading zeros. *)
MCLeadingZeros(digest) == (digest[2].nonce + digest[2].index) % 3

MCMachines == {"pc", "mainframe", "miner"}
MCOrder == [m \in MCMachines |-> IF m = "mainframe" THEN "big" ELSE "little"]
MCVersion == [m \in MCMachines |-> IF m = "miner" THEN "0.2" ELSE "0.1"]

(* Chains of two more blocks that other programs wrote: with short data,    *)
(* and with a difficulty that was given and not computed.                   *)
Extended(blocks, length, time, difficulty) ==
    LET draft == [BlockCreate(blocks[Len(blocks)], length, time)
                    EXCEPT !.info.difficulty = difficulty]
    IN  Append(blocks, BlockMine("little", draft))

ChainOf(length, difficulty) ==
    Extended(Extended(<<GenesisBlock>>, length, 500, difficulty), length, 505, difficulty)

(* No file, one of another version of the format, and such chains. *)
MCFirstFiles ==
    {[order |-> "little", items |-> items]
        : items \in {<<>>, <<"HBLK", "0.3", "little", 1, 0>>,
                     WholeItems("pc", List(ChainOf(1, 0))),
                     WholeItems("miner", List(ChainOf(1, 2)))}}
=============================================================================
