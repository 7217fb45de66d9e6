----------------------------- MODULE FileFormat -----------------------------
(***************************************************************************)
(* The file of a saved blockchain (blockchain/v0.3), as the sequence of    *)
(* what blockchain_serialize hands to write(): a header with two counts,   *)
(* the blocks with their transactions, and the unspent outputs.  An item   *)
(* is a kind and a value; what info, hash, id, input... hold is opaque.    *)
(***************************************************************************)
EXTENDS Integers, Sequences, SequencesExt

CONSTANT Ledgers   \* what the client may hold: a chain and its unspent outputs

-----------------------------------------------------------------------------
(* A block has transactions |-> <<>> and listed |-> FALSE when its list of  *)
(* transactions is NULL.                                                    *)

HeaderItem(ledger) ==
    <<"header", [valid |-> TRUE, blocks |-> Len(ledger.chain),
                 unspent |-> Len(ledger.unspent)]>>

(* nb_transactions: -1 for the genesis block, and for a list that is NULL.  *)
TxSize(block) ==
    IF block.info.index = 0 \/ ~block.listed THEN -1 ELSE Len(block.transactions)

BlockItems(block) ==
    << <<"info", block.info>>, <<"data_len", block.data_len>>,
       <<"data", block.data>>, <<"hash", block.hash>>, <<"tx_size", TxSize(block)>> >>

TransactionItems(tx) ==
    << <<"id", tx.id>>, <<"tx_in", Len(tx.inputs)>>, <<"tx_out", Len(tx.outputs)>> >>

InputItem(input) == <<"input", input>>
OutputItem(output) == <<"output", output>>
UnspentItem(entry) == <<"unspent", entry>>

-----------------------------------------------------------------------------
(* The whole file of a ledger: the tables of blockchain/v0.3/README.md.     *)

EachItem(Item(_), list) == [n \in 1..Len(list) |-> Item(list[n])]
Concat(Items(_), list) == FlattenSeq(EachItem(Items, list))

WholeTransaction(tx) ==
    TransactionItems(tx) \o EachItem(InputItem, tx.inputs)
                         \o EachItem(OutputItem, tx.outputs)

WholeBlock(block) ==
    BlockItems(block) \o Concat(WholeTransaction, block.transactions)

WholeFile(ledger) ==
    <<HeaderItem(ledger)>> \o Concat(WholeBlock, ledger.chain)
                           \o EachItem(UnspentItem, ledger.unspent)

(* What an interrupted save can leave of a file: its first items, the last  *)
(* of them perhaps in part.                                                 *)
Torn == <<"torn", 0>>
Beginnings(whole) ==
    LET first(n) == SubSeq(whole, 1, n)
    IN  {first(n) : n \in 0..Len(whole)}
          \cup {Append(first(n), Torn) : n \in 0..(Len(whole) - 1)}

=============================================================================
