---------------------------- MODULE Transaction ----------------------------
(***************************************************************************)
(* The transaction layer (blockchain/v0.3/transaction): how a transaction  *)
(* is built from the list of unspent outputs, how it is checked, and how a *)
(* block of transactions updates that list.                                *)
(*                                                                         *)
(* A digest is SHA256 of the tagged tuple of what the code hashes; a       *)
(* signature is the tuple of the key and of the digest it signs.           *)
(***************************************************************************)
EXTENDS Integers, Llist

CONSTANTS
    Keys,             \* EC keys; a key also stands for its public half
    SHA256(_),        \* the digest of a buffer
    Prefix(_),        \* the first bytes of a digest, those check_unspent compares
    UINT32,           \* the modulus of uint32_t arithmetic
    COINBASE_AMOUNT   \* coins a block's first transaction creates

ASSUME AmountAssumption ==
    /\ UINT32 \in Nat \ {0}
    /\ COINBASE_AMOUNT \in 1..(UINT32 - 1)

ZeroHash == <<"zero">>              \* 32 zero bytes
IndexBytes(index) == <<"index", index>>  \* a block index, then 28 zero bytes
NoSignature == <<"nosig">>
Signature(key, digest) == <<"sig", key, digest>>
Verify(key, digest, sig) == sig = Signature(key, digest)

-----------------------------------------------------------------------------
(* Inputs, outputs and unspent outputs.                                    *)

TxOutCreate(amount, pub) ==
    [amount |-> amount, pub |-> pub, hash |-> SHA256(<<"out", amount, pub>>)]

UnspentTxOutCreate(block_hash, tx_id, out) ==
    [block_hash |-> block_hash, tx_id |-> tx_id, out |-> out]

TxInCreate(utxo) ==
    [block_hash |-> utxo.block_hash, tx_id |-> utxo.tx_id,
     tx_out_hash |-> utxo.out.hash, sig |-> NoSignature]

(* The three digests of an input; the signature is not hashed. *)
Reference(in) == <<in.block_hash, in.tx_id, in.tx_out_hash>>

TransactionHash(inputs, outputs) ==
    SHA256(<<"tx", [n \in 1..Len(inputs) |-> Reference(inputs[n])],
                   [n \in 1..Len(outputs) |-> outputs[n].hash]>>)

-----------------------------------------------------------------------------
(* Building a transaction.                                                 *)

(* Variant: only the output hash is compared. *)
SpentBy_OutputHashOnly(tx, utxo) ==
    \E n \in 1..Len(tx.inputs) : tx.inputs[n].tx_out_hash = utxo.out.hash

(* check_unspent compares the first bytes of each digest, not all of them. *)
SpentBy(tx, utxo) ==
    \E n \in 1..Len(tx.inputs) :
        /\ Prefix(tx.inputs[n].block_hash)  = Prefix(utxo.block_hash)
        /\ Prefix(tx.inputs[n].tx_id)       = Prefix(utxo.tx_id)
        /\ Prefix(tx.inputs[n].tx_out_hash) = Prefix(utxo.out.hash)

(* Variant: the pool is not looked at. *)
UsedInPool_Ignored(pool, utxo) == FALSE

UsedInPool(pool, utxo) == \E n \in 1..Len(pool) : SpentBy(pool[n], utxo)

Selectable(utxo, sender, pool) ==
    utxo.out.pub = sender /\ ~UsedInPool(pool, utxo)

NothingSelected == [inputs |-> <<>>, total |-> 0]

(* The loop body of transaction_create over all_unspent: once the total     *)
(* covers the amount, the loop stops.                                       *)
SelectNext(sel, utxo, sender, amount, pool) ==
    IF sel.total >= amount \/ ~Selectable(utxo, sender, pool)
    THEN sel
    ELSE [inputs |-> Append(sel.inputs, TxInCreate(utxo)),
          total |-> (sel.total + utxo.out.amount) % UINT32]

(* The inputs selected from the unspent outputs, and their total. *)
Selection(sender, amount, unspent, pool) ==
    LET scan[n \in 0..Len(unspent)] ==
          IF n = 0 THEN NothingSelected
          ELSE SelectNext(scan[n - 1], unspent[n], sender, amount, pool)
    IN  scan[Len(unspent)]

(* Variant: the rest goes to the receiver as well. *)
SendAmount_RestToReceiver(sender, receiver, amount, total) ==
    <<TxOutCreate(amount, receiver)>> \o
    (IF total = amount THEN <<>> ELSE <<TxOutCreate(total - amount, receiver)>>)

(* The outputs: the amount for the receiver, the rest back to the sender. *)
SendAmount(sender, receiver, amount, total) ==
    <<TxOutCreate(amount, receiver)>> \o
    (IF total = amount THEN <<>> ELSE <<TxOutCreate(total - amount, sender)>>)

(* tx_in_sign signs an input when the first unspent output with its output *)
(* hash belongs to the sender.                                             *)
Signable(in, sender, unspent) ==
    LET i == First({k \in 1..Len(unspent) : unspent[k].out.hash = in.tx_out_hash})
    IN  i # 0 /\ unspent[i].out.pub = sender

(* Signing goes through the inputs in order and stops at the first failure. *)
SignInputs(inputs, id, sender, unspent) ==
    [n \in 1..Len(inputs) |->
        IF \A m \in 1..n : Signable(inputs[m], sender, unspent)
        THEN [inputs[n] EXCEPT !.sig = Signature(sender, id)]
        ELSE inputs[n]]

(* Variant: an amount that is covered exactly is refused. *)
CanCreate_Strict(sender, receiver, amount, unspent, pool) ==
    /\ sender \in Keys
    /\ receiver \in Keys
    /\ Selection(sender, amount, unspent, pool).total > amount
    /\ amount # 0

(* transaction_create returns NULL unless the sender and the receiver are  *)
(* keys, the amount is not 0 and the selected outputs cover it.            *)
CanCreate(sender, receiver, amount, unspent, pool) ==
    /\ sender \in Keys
    /\ receiver \in Keys
    /\ Selection(sender, amount, unspent, pool).total >= amount
    /\ amount # 0

TransactionCreate(sender, receiver, amount, unspent, pool) ==
    LET sel     == Selection(sender, amount, unspent, pool)
        outputs == SendAmount(sender, receiver, amount, sel.total)
        id      == TransactionHash(sel.inputs, outputs)
    IN  [id |-> id,
         inputs |-> SignInputs(sel.inputs, id, sender, unspent),
         outputs |-> outputs]

-----------------------------------------------------------------------------
(* Checking a transaction.                                                 *)

InOutMatch(in, utxo) == Reference(in) = Reference(TxInCreate(utxo))

(* The sum of amount[1..n] in uint32_t arithmetic. *)
Sum32(amount, n) ==
    LET sum[k \in 0..n] == IF k = 0 THEN 0 ELSE (sum[k - 1] + amount[k]) % UINT32
    IN  sum[n]

(* Inputs are looked up one by one: nothing asks them to be distinct. *)
TransactionIsValid(tx, unspent) ==
    LET matched == [n \in 1..Len(tx.inputs) |->
                      First({k \in 1..Len(unspent) : InOutMatch(tx.inputs[n], unspent[k])})]
    IN  /\ tx.id = TransactionHash(tx.inputs, tx.outputs)
        /\ \A n \in 1..Len(tx.inputs) :
              /\ matched[n] # 0
              /\ Verify(unspent[matched[n]].out.pub, tx.id, tx.inputs[n].sig)
        /\ Sum32([n \in 1..Len(tx.inputs) |-> unspent[matched[n]].out.amount],
                 Len(tx.inputs))
             = Sum32([n \in 1..Len(tx.outputs) |-> tx.outputs[n].amount],
                     Len(tx.outputs))

-----------------------------------------------------------------------------
(* Coinbase transactions.                                                  *)

CoinbaseCreate(receiver, block_index) ==
    LET inputs  == <<[block_hash |-> ZeroHash, tx_id |-> ZeroHash,
                      tx_out_hash |-> IndexBytes(block_index),
                      sig |-> NoSignature]>>
        outputs == <<TxOutCreate(COINBASE_AMOUNT, receiver)>>
    IN  [id |-> TransactionHash(inputs, outputs),
         inputs |-> inputs, outputs |-> outputs]

CoinbaseIsValid(tx, block_index) ==
    /\ tx.id = TransactionHash(tx.inputs, tx.outputs)
    /\ Len(tx.inputs) = 1
    /\ Len(tx.outputs) = 1
    /\ Prefix(tx.inputs[1].tx_out_hash) = Prefix(IndexBytes(block_index))
    /\ tx.inputs[1].block_hash = ZeroHash
    /\ tx.inputs[1].tx_id = ZeroHash
    /\ tx.inputs[1].sig = NoSignature
    /\ tx.outputs[1].amount = COINBASE_AMOUNT

-----------------------------------------------------------------------------
(* Updating the list of unspent outputs.                                   *)

(* Variant: the last entry is removed instead of the one found. *)
SpendInput_LastNode(unspent, in) ==
    IF \E i \in 1..Len(unspent) : unspent[i].out.hash = in.tx_out_hash
    THEN WithoutNode(unspent, Len(unspent)) ELSE unspent

(* An input removes the first entry with its output hash: neither its block *)
(* hash nor its transaction id is compared.                                 *)
SpendInput(unspent, in) ==
    RemoveNode(unspent, {i \in 1..Len(unspent) : unspent[i].out.hash = in.tx_out_hash})

(* The list after each of the transaction's inputs. *)
Spending(unspent, tx) ==
    LET run[n \in 0..Len(tx.inputs)] ==
          IF n = 0 THEN unspent ELSE SpendInput(run[n - 1], tx.inputs[n])
    IN  run

SpendInputs(unspent, tx) == Spending(unspent, tx)[Len(tx.inputs)]

(* Variant: the change of a transaction is forgotten. *)
NewUnspent_FirstOutput(tx, block_hash) ==
    <<UnspentTxOutCreate(block_hash, tx.id, tx.outputs[1])>>

(* Variant: the block hash and the transaction id change places. *)
NewUnspent_Swapped(tx, block_hash) ==
    [n \in 1..Len(tx.outputs) |->
        UnspentTxOutCreate(tx.id, block_hash, tx.outputs[n])]

NewUnspent(tx, block_hash) ==
    [n \in 1..Len(tx.outputs) |->
        UnspentTxOutCreate(block_hash, tx.id, tx.outputs[n])]

(* Variant: new nodes are added at the front of the list. *)
ProcessTransaction_Front(unspent, tx, block_hash) ==
    NewUnspent(tx, block_hash) \o SpendInputs(unspent, tx)

ProcessTransaction(unspent, tx, block_hash) ==
    SpendInputs(unspent, tx) \o NewUnspent(tx, block_hash)

(* The list after each transaction of a block. *)
Updating(unspent, txs, block_hash) ==
    LET run[n \in 0..Len(txs)] ==
          IF n = 0 THEN unspent
          ELSE ProcessTransaction(run[n - 1], txs[n], block_hash)
    IN  run

UpdateUnspent(txs, block_hash, unspent) ==
    Updating(unspent, txs, block_hash)[Len(txs)]

(* llist_remove_node leaves the tail pointer of the list on a freed cell    *)
(* when it unlinks the last of several nodes; the next node is added there. *)
TailFreed(txs, block_hash, unspent) ==
    \E t \in 1..Len(txs) :
        LET run == Spending(Updating(unspent, txs, block_hash)[t - 1], txs[t])
        IN  \E n \in 1..Len(txs[t].inputs) :
               LET list == run[n - 1]
               IN  /\ Len(list) > 1
                   /\ Len(list) = First({i \in 1..Len(list) :
                          list[i].out.hash = txs[t].inputs[n].tx_out_hash})

=============================================================================
