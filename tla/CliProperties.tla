--------------------------- MODULE CliProperties ---------------------------
(***************************************************************************)
(* What the client must guarantee, stated over the state of module Cli.    *)
(***************************************************************************)
EXTENDS Cli

IsSeq(s) == Len(s) \in Nat /\ s = [i \in 1..Len(s) |-> s[i]]

Amount == 0..(UINT32 - 1)

IsUnspentList(u) ==
    IsSeq(u) /\ \A i \in 1..Len(u) : u[i].out.amount \in Amount

IsTransaction(tx) ==
    /\ IsSeq(tx.inputs)
    /\ IsSeq(tx.outputs)
    /\ \A n \in 1..Len(tx.outputs) : tx.outputs[n].amount \in Amount

IsTransactionList(txs) ==
    IsSeq(txs) /\ \A i \in 1..Len(txs) : IsTransaction(txs[i])

AreFiles(f) ==
    /\ DOMAIN f = Paths
    /\ \A path \in Paths : IsSeq(f[path].chain) /\ IsUnspentList(f[path].unspent)

ASSUME FilesAssumption == \A f \in InitialFiles : AreFiles(f)

(* The variables have their types: every amount is a uint32_t, and the      *)
(* wallet and the saved wallets are keys the client has created or found    *)
(* in a file (handle_wallet_create, handle_wallet_load).                    *)
TypeOK ==
    /\ status \in {"running", "exited", "launch", "list", "mine", "blank", "wallet_save"}
    /\ ret \in {-1, 0, 1, SIGSEGV}
    /\ issued \subseteq Keys
    /\ wallet \in issued \cup {NoKey}
    /\ folders \in [Folders -> issued \cup {NoKey}]
    /\ IsSeq(chain)
    /\ IsUnspentList(unspent)
    /\ IsTransactionList(pool)
    /\ AreFiles(files)

-----------------------------------------------------------------------------
(* The pool.                                                                *)

(* No two transactions of a list refer to the same output. *)
Disjoint(txs) ==
    \A i, j \in 1..Len(txs) : i # j =>
        \A n \in 1..Len(txs[i].inputs), m \in 1..Len(txs[j].inputs) :
            Reference(txs[i].inputs[n]) # Reference(txs[j].inputs[m])

(* Two pending transactions never refer to the same unspent output.  mine   *)
(* checks every pending transaction against the same list, the one before   *)
(* the block, and puts them all in the block: only this keeps an output     *)
(* from being spent twice in one block.                                     *)
PoolDisjoint == Disjoint(pool)

(* A send is accepted exactly when the outputs of the wallet that no        *)
(* pending transaction refers to cover the amount: the selection loop, the  *)
(* comparison of digests, the signatures and transaction_is_valid agree.    *)
(* The amounts asked for are below, at and above a coinbase, and negative.  *)
Free == {i \in 1..Len(unspent) :
           /\ unspent[i].out.pub = wallet
           /\ \A p \in 1..Len(pool) : \A n \in 1..Len(pool[p].inputs) :
                Reference(pool[p].inputs[n]) # Reference(TxInCreate(unspent[i]))}

SendIffCovered ==
    \A amount \in -1..(COINBASE_AMOUNT + 1), receiver \in Keys \cup {NoKey} :
        Sendable(amount, receiver) <=>
            /\ wallet \in Keys
            /\ receiver \in Keys
            /\ amount % UINT32 \in
                 1..Sum32([i \in 1..Len(unspent) |->
                             IF i \in Free THEN unspent[i].out.amount ELSE 0],
                          Len(unspent))

(* On a sound tail, the block mine builds passes its own validation: the    *)
(* coinbase, the transactions the purge left, the hash and the difficulty.  *)
MinedBlockValid ==
    \A time \in Times :
        (CanMine(time) /\ BlockHash(LastBlock) = LastBlock.hash) =>
            BlockIsValid(BlockMine(DraftBlock(time)), LastBlock, unspent)

(* The procedure of cli/README.md for mine: take the pending transactions   *)
(* one by one, keep those that are valid, and after each of them remove     *)
(* what its inputs refer to from the list of unspent outputs.  (Outputs of  *)
(* the block under construction cannot be referred to yet: they have no     *)
(* block hash.)                                                             *)
RemoveReferenced(u, tx) ==
    LET run[n \in 0..Len(tx.inputs)] ==
          IF n = 0 THEN u
          ELSE RemoveNode(run[n - 1], {i \in 1..Len(run[n - 1]) :
                                        InOutMatch(tx.inputs[n], run[n - 1][i])})
    IN  run[Len(tx.inputs)]

OneByOne(txs, u) ==
    LET run[n \in 0..Len(txs)] ==
          IF n = 0 THEN [kept |-> <<>>, unspent |-> u]
          ELSE IF TransactionIsValid(txs[n], run[n - 1].unspent)
          THEN [kept |-> Append(run[n - 1].kept, txs[n]),
                unspent |-> RemoveReferenced(run[n - 1].unspent, txs[n])]
          ELSE run[n - 1]
    IN  run[Len(txs)].kept

(* The transactions the purge leaves are those the documented procedure     *)
(* keeps, although the code checks them all against one list.               *)
PurgeIsOneByOne == Purge(pool, unspent) = OneByOne(pool, unspent)

-----------------------------------------------------------------------------
(* The chain and the list of unspent outputs.                               *)

(* Positions of the outputs and of the inputs on a chain; a coinbase input  *)
(* refers to nothing.                                                       *)
Outputs(c) ==
    UNION {UNION {{<<b, t, o>> : o \in 1..Len(c[b].transactions[t].outputs)}
                    : t \in 1..Len(c[b].transactions)} : b \in 1..Len(c)}
Inputs(c) ==
    UNION {UNION {{<<b, t, n>> : n \in 1..Len(c[b].transactions[t].inputs)}
                    : t \in 2..Len(c[b].transactions)} : b \in 1..Len(c)}

OutputAt(c, p) == c[p[1]].transactions[p[2]].outputs[p[3]]
InputAt(c, p)  == c[p[1]].transactions[p[2]].inputs[p[3]]
TransactionAt(c, p) == c[p[1]].transactions[p[2]]
ReferenceAt(c, p) == <<c[p[1]].hash, TransactionAt(c, p).id, OutputAt(c, p).hash>>

(* The list holds the outputs of the chain that no input of the chain has   *)
(* taken: for each amount and key, which is what an output hash stands for, *)
(* as many as the chain made and has not spent.  update_unspent finds the   *)
(* entry to remove by that hash alone; which of several equal entries stays *)
(* is another matter (InputsLeaveUnspent).                                  *)
UtxoExact ==
    \A hash \in {OutputAt(chain, p).hash : p \in Outputs(chain)}
                  \cup {unspent[i].out.hash : i \in 1..Len(unspent)} :
        Cardinality({i \in 1..Len(unspent) : unspent[i].out.hash = hash})
          + Cardinality({p \in Inputs(chain) : InputAt(chain, p).tx_out_hash = hash})
          = Cardinality({p \in Outputs(chain) : OutputAt(chain, p).hash = hash})

(* Coins are created by coinbases only: what info counts is worth           *)
(* COINBASE_AMOUNT for each block after the genesis block.                  *)
SupplyConserved ==
    Coins = (COINBASE_AMOUNT * (Len(chain) - 1)) % UINT32

(* list fails on an empty list of unspent outputs only (llist_sort): that   *)
(* is the state before the first block, and no sequence of sends, mines and *)
(* loads leads back to it, since each block brings an output of its own.    *)
ListNeedsBlock == unspent = <<>> => Len(chain) <= 1

(* No input of the next block finds its entry at the tail of the list,      *)
(* where llist_remove_node would leave a pointer to the freed cell: what    *)
(* the transactions before it added, coinbase first, is always behind it.   *)
TailKept ==
    \A time \in Times : CanMine(time) =>
        LET block == BlockMine(DraftBlock(time))
        IN  ~TailFreed(block.transactions, block.hash, unspent)

(* Every input on the chain refers to an output of an earlier block and     *)
(* carries a signature of that output's owner.                              *)
Authorised(c) ==
    \A p \in Inputs(c) :
        \E q \in Outputs(c) :
            /\ q[1] < p[1]
            /\ ReferenceAt(c, q) = Reference(InputAt(c, p))
            /\ InputAt(c, p).sig
                 = Signature(OutputAt(c, q).pub, TransactionAt(c, p).id)
SpendsAuthorised == Authorised(chain)

(* The blocks form one chain from the genesis block: indices count up, each *)
(* block holds the hash of its predecessor, its own hash is right and meets *)
(* its difficulty, and its first transaction is its coinbase.               *)
Linked(c) ==
    /\ Len(c) > 0
    /\ c[1] = GenesisBlock
    /\ \A b \in 2..Len(c) :
          /\ c[b].info.index = (c[b - 1].info.index + 1) % UINT32
          /\ c[b].info.prev_hash = c[b - 1].hash
          /\ c[b].hash = BlockHash(c[b])
          /\ HashMatchesDifficulty(c[b].hash, c[b].info.difficulty)
          /\ Len(c[b].transactions) > 0
          /\ CoinbaseIsValid(c[b].transactions[1], c[b].info.index)
ChainLinked == Linked(chain)

-----------------------------------------------------------------------------
(* Steps.                                                                   *)

(* A pending transaction leaves the pool of a running client only into the  *)
(* new block, or because its inputs or amounts do not fit the list of       *)
(* unspent outputs at that moment.                                          *)
PendingKeptOrMined ==
    [][status' = "running" =>
         \A i \in 1..Len(pool) :
            \/ pool[i] \in {pool'[j] : j \in 1..Len(pool')}
            \/ ~TransactionIsValid(pool[i], unspent)
            \/ /\ Len(chain') = Len(chain) + 1
               /\ pool[i] \in {LastBlock'.transactions[t] :
                                 t \in 2..Len(LastBlock'.transactions)}]_vars

(* A command that reports an error leaves the blockchain and its files as   *)
(* they were: mine updates nothing before the block is found valid.         *)
FailureKeepsBlockchain ==
    [][status' = "running" /\ ret' = -1 => UNCHANGED <<chain, unspent, files>>]_vars

(* A block is only added after a block whose hash is right, at the next     *)
(* index and with that hash: also when the chain came from a file, which    *)
(* blockchain_deserialize does not check.                                   *)
OnlySoundTailExtended ==
    [][(\E time \in Times : Mine(time)) =>
         /\ BlockHash(LastBlock) = LastBlock.hash
         /\ LastBlock'.info.prev_hash = LastBlock.hash
         /\ LastBlock'.info.index = (LastBlock.info.index + 1) % UINT32]_vars

(* README.md of v0.3, update_unspent: what the inputs of the new block      *)
(* refer to is no longer in the list (an entry for each input leaves it).   *)
Entries(u, ref) == Cardinality({i \in 1..Len(u) : Reference(TxInCreate(u[i])) = ref})

InputsLeaveUnspent ==
    [][(\E time \in Times : Mine(time)) =>
         \A t \in 2..Len(LastBlock'.transactions) :
            \A n \in 1..Len(LastBlock'.transactions[t].inputs) :
               LET ref == Reference(LastBlock'.transactions[t].inputs[n])
               IN  Entries(unspent', ref) < Entries(unspent, ref)]_vars

-----------------------------------------------------------------------------
(* What all of this is for.                                                 *)

(* The coins of a key, and what a pending transaction pays. *)
Balance(key) ==
    Sum32([i \in 1..Len(unspent) |->
             IF unspent[i].out.pub = key THEN unspent[i].out.amount ELSE 0],
          Len(unspent))

Payment(tx) ==
    [from |-> tx.inputs[1].sig[2], to |-> tx.outputs[1].pub,
     amount |-> tx.outputs[1].amount]

(* Without files the client implements Accounts: the selection of outputs,  *)
(* the change, the purge, the update of the list by output hash and the     *)
(* sort behind the back of pending transactions amount to balances from     *)
(* which every accepted payment is taken once, by the next block.           *)
A == INSTANCE Accounts WITH
       user    <- wallet,
       blocks  <- Len(chain) - 1,
       balance <- [key \in Keys |-> Balance(key)],
       pending <- [i \in 1..Len(pool) |-> Payment(pool[i])]
ImplementsAccounts == A!Spec

-----------------------------------------------------------------------------
(* Retargeting (README.md of v0.2, blockchain_difficulty).                  *)

(* The difficulty of the block after the first n blocks of c, with the      *)
(* elapsed time as a number of seconds, which a clock set back makes        *)
(* negative.                                                                *)
DocumentedDifficulty(c, n) ==
    LET last    == c[n].info
        elapsed == last.timestamp
                     - c[n - DIFFICULTY_ADJUSTMENT_INTERVAL + 1].info.timestamp
    IN  IF n = 1 \/ (n - 1) % DIFFICULTY_ADJUSTMENT_INTERVAL # 0
        THEN last.difficulty
        ELSE IF 2 * elapsed < ExpectedTime THEN last.difficulty + 1
        ELSE IF elapsed > 2 * ExpectedTime /\ last.difficulty > 0
        THEN last.difficulty - 1
        ELSE last.difficulty

ClockForward(c) ==
    \A b \in 2..Len(c) : c[b - 1].info.timestamp <= c[b].info.timestamp

(* The one elapsed time at which the code and the documentation differ:     *)
(* half of an odd expected time is rounded down, and a time just below the  *)
(* half is not below that. The constants of blockchain.h expect 5 seconds,  *)
(* and 2 seconds are that time.                                             *)
JustBelowHalf(c, n) ==
    /\ n # 1 /\ (n - 1) % DIFFICULTY_ADJUSTMENT_INTERVAL = 0
    /\ 2 * (c[n].info.timestamp
              - c[n - DIFFICULTY_ADJUSTMENT_INTERVAL + 1].info.timestamp) + 1
         = ExpectedTime

(* While the clock goes forward every block has the documented difficulty,  *)
(* but just below the half, where the difficulty stays.                     *)
Documented(c) ==
    ClockForward(c) =>
        \A b \in 2..Len(c) :
            c[b].info.difficulty =
                IF JustBelowHalf(c, b - 1) THEN c[b - 1].info.difficulty
                ELSE DocumentedDifficulty(c, b - 1)
DifficultyDocumented == Documented(chain)

(* Whatever the clock does, the difficulty moves by at most one, and only   *)
(* after a block whose index is a multiple of the interval.                 *)
MovesByOne(c) ==
    \A b \in 2..Len(c) :
        LET new == c[b].info.difficulty
            old == c[b - 1].info.difficulty
        IN  /\ new \in {old - 1, old, old + 1}
            /\ new >= 0
            /\ new # old =>
                 /\ c[b - 1].info.index # 0
                 /\ c[b - 1].info.index % DIFFICULTY_ADJUSTMENT_INTERVAL = 0
DifficultyMovesByOne == MovesByOne(chain)

-----------------------------------------------------------------------------
(* What the documentation says and the code does not do.                    *)

(* README.md of v0.3, transaction_is_valid: the inputs of a transaction are *)
(* unspent outputs, and worth as much as its outputs. So a block adds its   *)
(* coinbase to the coins there are, and nothing else.                       *)
MineAddsCoinbase ==
    [][(\E time \in Times : Mine(time)) =>
         Coins' = (Coins + COINBASE_AMOUNT) % UINT32]_vars

(* cli/README.md, mine: a transaction that is not valid is deleted.  *)
MineSurvives == status # "mine"

=============================================================================
