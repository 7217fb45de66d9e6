--------------------------- MODULE MCPersistence ---------------------------
(***************************************************************************)
(* Four ledgers: that of a new process, two of two blocks, and one of      *)
(* three with a transaction of two inputs and one output.                 *)
(***************************************************************************)
EXTENDS Persistence

Tx(id, inputs, outputs) == [id |-> id, inputs |-> inputs, outputs |-> outputs]
Blk(index, txs) ==
    [info |-> [index |-> index], data_len |-> 1, data |-> "data",
     hash |-> index, listed |-> index # 0, transactions |-> txs]

MCGenesisBlock == Blk(0, <<>>)
Coinbase(id) == Tx(id, <<"zero">>, <<id>>)
Payment == Tx("payment", <<"a", "b">>, <<"sent">>)

MCGenesis == [chain |-> <<MCGenesisBlock>>, unspent |-> <<>>]
MCShort(id) ==
    [chain |-> <<MCGenesisBlock, Blk(1, <<Coinbase(id)>>)>>, unspent |-> <<id>>]
MCLong ==
    [chain |-> <<MCGenesisBlock, Blk(1, <<Coinbase("a")>>),
                 Blk(2, <<Coinbase("c"), Payment>>)>>,
     unspent |-> <<"c", "sent">>]

MCLedgers == {MCGenesis, MCShort("a"), MCShort("b"), MCLong}

(* A file of another version, and a file of this one. *)
OtherVersion == <<<<"header", [valid |-> FALSE, blocks |-> 1, unspent |-> 0]>>>>
MCFirstFiles == {OtherVersion, WholeFile(MCShort("a"))}

MCCounts == {-1, 0, 1}
=============================================================================
