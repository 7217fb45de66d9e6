-------------------------------- MODULE Cli --------------------------------
(***************************************************************************)
(* The client (cli/): one process that reads commands and keeps a wallet,  *)
(* a blockchain with its unspent outputs, and a pool of pending            *)
(* transactions in memory; wallets and blockchains are saved to files.     *)
(* Each command is one action; the process may also end and be started     *)
(* again, when only the files are left.                                    *)
(***************************************************************************)
EXTENDS Block

CONSTANTS
    NoKey,         \* no wallet, or an address that is not a key
    Paths,         \* files a blockchain may be saved to
    Folders,       \* folders a wallet may be saved to
    Amounts,       \* bound: the integers typed after "send"
    Addresses,     \* bound: the addresses typed after them
    Times,         \* bound: the values of time(NULL)
    InitialFiles,  \* what the files may hold before the first command
    MaxBlocks,     \* bound: the length of the chain
    MaxPool        \* bound: the length of the pool

ASSUME CliAssumption ==
    /\ NoKey \notin Keys
    /\ Amounts \subseteq Int
    /\ Addresses \subseteq [length : {"short", "exact", "long"}, hex : BOOLEAN,
                            pub : Keys \cup {NoKey}]
    /\ Times \subseteq 0..(UINT64 - 1)
    /\ MaxBlocks \in Nat
    /\ MaxPool \in Nat

VARIABLES
    status,   \* "running", "exited", or the command that crashed
    ret,      \* what the last command returned, or the process when it ended
    wallet,   \* the key in use, or NoKey
    chain,    \* the blocks
    unspent,  \* the unspent outputs, in list order
    pool,     \* the pending transactions
    files,    \* contents of each path
    folders,  \* the key saved in each folder, or NoKey
    issued    \* the keys that exist, here or in a file: a new key is none of them

memory == <<wallet, chain, unspent, pool>>
disk == <<files, folders>>
vars == <<status, ret, memory, disk, issued>>

(* A file does not exist, has a header that is refused, or holds a chain.   *)
NoFile == [kind |-> "none", chain |-> <<>>, unspent |-> <<>>]
BadFile == [kind |-> "bad", chain |-> <<>>, unspent |-> <<>>]
ChainFile(c, u) == [kind |-> "chain", chain |-> c, unspent |-> u]

(* The files of earlier sessions, and in the folders the wallets that these *)
(* sessions saved.                                                          *)
Init ==
    /\ status = "running"
    /\ ret = 0
    /\ wallet = NoKey
    /\ chain = <<GenesisBlock>>
    /\ unspent = <<>>
    /\ pool = <<>>
    /\ files \in InitialFiles
    /\ issued = {key \in Keys : \E path \in Paths :
                    \E i \in 1..Len(files[path].unspent) :
                       files[path].unspent[i].out.pub = key}
    /\ folders \in [Folders -> issued \cup {NoKey}]

-----------------------------------------------------------------------------
Running == status = "running" /\ status' = "running"

(* A command that reports an error and leaves everything as it was. *)
Fails == ret' = -1 /\ UNCHANGED <<memory, disk, issued>>

(* The process ends with an exit code: its memory is gone, and the next     *)
(* process starts with an empty pool and a chain of one block.              *)
Forgets(how, code) ==
    /\ status = "running" /\ status' = how
    /\ ret' = code
    /\ wallet' = NoKey
    /\ chain' = <<GenesisBlock>>
    /\ unspent' = <<>>
    /\ pool' = <<>>
    /\ UNCHANGED <<files, issued>>

Ends(how, code) == Forgets(how, code) /\ UNCHANGED folders

SIGSEGV == 139    \* the code of a process that a segmentation fault ended

(* A command uses memory that is not its own: the process is not followed   *)
(* any further.                                                             *)
Crashes(command) == Ends(command, SIGSEGV)

-----------------------------------------------------------------------------
(* wallet_create, wallet_load and wallet_save.                              *)

(* Variant: the new key may be any key, and is not recorded. *)
WalletCreate_NotFresh ==
    /\ Running
    /\ wallet' \in Keys
    /\ ret' = 0
    /\ UNCHANGED <<chain, unspent, pool, disk, issued>>

WalletCreate ==
    /\ Running
    /\ \E key \in Keys \ issued :
          wallet' = key /\ issued' = issued \cup {key}
    /\ ret' = 0
    /\ UNCHANGED <<chain, unspent, pool, disk>>

(* The wallet in use is released before the folder is read. *)
WalletLoad(folder) ==
    /\ Running
    /\ folders[folder] # NoKey
    /\ wallet' = folders[folder]
    /\ ret' = 0
    /\ UNCHANGED <<chain, unspent, pool, disk, issued>>

(* So it is gone when there is no wallet in the folder, or when a file of   *)
(* the folder does not open.                                                *)
WalletLoadFails ==
    /\ Running
    /\ wallet' = NoKey
    /\ ret' = -1
    /\ UNCHANGED <<chain, unspent, pool, disk, issued>>

WalletSave(folder) ==
    /\ Running
    /\ wallet # NoKey
    /\ folders' = [folders EXCEPT ![folder] = wallet]
    /\ ret' = 0
    /\ UNCHANGED <<memory, files, issued>>

WalletSaveFails ==
    /\ Running
    /\ wallet = NoKey
    /\ Fails

(* The files of the folder are truncated and not written again: ec_save     *)
(* fails, or does not notice (module Wallet has its steps).                 *)
WalletSaveLost(folder) ==
    /\ Running
    /\ wallet # NoKey
    /\ folders' = [folders EXCEPT ![folder] = NoKey]
    /\ ret' \in {-1, 0}
    /\ UNCHANGED <<memory, files, issued>>

(* A file does not open, and the NULL of fopen is closed: after none of the *)
(* writes, or after the one of the private key.                             *)
WalletSaveCrashes(folder) ==
    /\ wallet # NoKey
    /\ Forgets("wallet_save", SIGSEGV)
    /\ \/ UNCHANGED folders
       \/ \E kept \in {wallet, NoKey} : folders' = [folders EXCEPT ![folder] = kept]

-----------------------------------------------------------------------------
(* send: the amount is read as an int and passed on as a uint32_t.          *)

(* An address has the length of a key in hexadecimal digits, or another;    *)
(* pub is the key that so many of its first digits denote, or NoKey when    *)
(* they are not a point of the curve (ec_from_pub).  The copy of a longer   *)
(* one has no end: what lies behind the buffer is checked with it, until a  *)
(* byte happens to be zero.                                                 *)
CheckString(address) ==
    IF ~address.hex THEN {FALSE}
    ELSE IF address.length = "long" THEN BOOLEAN ELSE {TRUE}

Receivers(address) ==
    IF address.length = "short" THEN {NoKey}
    ELSE {IF valid THEN address.pub ELSE NoKey : valid \in CheckString(address)}

Sendable(amount, receiver) ==
    /\ CanCreate(wallet, receiver, amount % UINT32, unspent, pool)
    /\ TransactionIsValid(
         TransactionCreate(wallet, receiver, amount % UINT32, unspent, pool),
         unspent)

Send(amount, receiver) ==
    /\ Running
    /\ Len(pool) < MaxPool
    /\ Sendable(amount, receiver)
    /\ pool' = Append(pool,
         TransactionCreate(wallet, receiver, amount % UINT32, unspent, pool))
    /\ ret' = 0
    /\ UNCHANGED <<wallet, chain, unspent, disk, issued>>

SendFails(amount, receiver) ==
    /\ Running
    /\ ~Sendable(amount, receiver)
    /\ Fails

-----------------------------------------------------------------------------
(* mine.                                                                    *)

RemoveInvalid(txs, u) ==
    RemoveNode(txs, {i \in 1..Len(txs) : ~TransactionIsValid(txs[i], u)})

(* Once per pending transaction, the first invalid one is removed. *)
Purge(txs, u) ==
    LET run[n \in 0..Len(txs)] ==
          IF n = 0 THEN txs ELSE RemoveInvalid(run[n - 1], u)
    IN  run[Len(txs)]

(* llist_remove_node calls the destructor on its own cell, not on the       *)
(* transaction, when the node it removes is not the head of the list.       *)
PurgeFreesCell(txs, u) ==
    \E i, j \in 1..Len(txs) :
        i < j /\ TransactionIsValid(txs[i], u) /\ ~TransactionIsValid(txs[j], u)

LastBlock == chain[Len(chain)]

(* Variant: the last pending transaction is left out of the block. *)
DraftBlock_WithoutLast(time) ==
    LET block == BlockCreate(LastBlock, time)
        valid == Purge(pool, unspent)
    IN  [block EXCEPT
           !.info.difficulty = BlockchainDifficulty(chain),
           !.transactions = <<CoinbaseCreate(wallet, block.info.index)>>
                              \o SubSeq(valid, 1, Len(valid) - 1)]

(* Variant: the coinbase has the index of the last block. *)
DraftBlock_CoinbaseOfLast(time) ==
    LET block == BlockCreate(LastBlock, time)
    IN  [block EXCEPT
           !.info.difficulty = BlockchainDifficulty(chain),
           !.transactions = <<CoinbaseCreate(wallet, LastBlock.info.index)>>
                              \o Purge(pool, unspent)]

DraftBlock(time) ==
    LET block == BlockCreate(LastBlock, time)
    IN  [block EXCEPT
           !.info.difficulty = BlockchainDifficulty(chain),
           !.transactions = <<CoinbaseCreate(wallet, block.info.index)>>
                              \o Purge(pool, unspent)]

CanMine(time) ==
    /\ status = "running"
    /\ wallet # NoKey
    /\ Len(chain) \in 1..(MaxBlocks - 1)
    /\ MatchingNonces(DraftBlock(time)) # {}

(* Variant: the block is added as it was before the proof of work. *)
Mine_DraftAdded(time) ==
    /\ Running
    /\ CanMine(time)
    /\ LET block == BlockMine(DraftBlock(time))
       IN  /\ BlockIsValid(block, LastBlock, unspent)
           /\ unspent' = UpdateUnspent(block.transactions, block.hash, unspent)
           /\ chain' = Append(chain, DraftBlock(time))
    /\ pool' = <<>>
    /\ ret' = 0
    /\ UNCHANGED <<wallet, disk, issued>>

Mine(time) ==
    /\ Running
    /\ CanMine(time)
    /\ LET block == BlockMine(DraftBlock(time))
       IN  /\ BlockIsValid(block, LastBlock, unspent)
           /\ ~TailFreed(block.transactions, block.hash, unspent)
           /\ unspent' = UpdateUnspent(block.transactions, block.hash, unspent)
           /\ chain' = Append(chain, block)
    /\ pool' = <<>>
    /\ ret' = 0
    /\ UNCHANGED <<wallet, disk, issued>>

(* Variant: the outputs are updated before the block is checked. *)
MineRejected_UnspentUpdated(time) ==
    /\ Running
    /\ CanMine(time)
    /\ LET block == BlockMine(DraftBlock(time))
       IN  /\ ~BlockIsValid(block, LastBlock, unspent)
           /\ unspent' = UpdateUnspent(block.transactions, block.hash, unspent)
    /\ pool' = Purge(pool, unspent)
    /\ ret' = -1
    /\ UNCHANGED <<wallet, chain, disk, issued>>

(* The block is refused: the pool keeps what the purge left in it. *)
MineRejected(time) ==
    /\ Running
    /\ CanMine(time)
    /\ ~BlockIsValid(BlockMine(DraftBlock(time)), LastBlock, unspent)
    /\ pool' = Purge(pool, unspent)
    /\ ret' = -1
    /\ UNCHANGED <<wallet, chain, unspent, disk, issued>>

(* Freed memory is used: in the purge, or in the update of the list. *)
MineCrashes(time) ==
    /\ wallet # NoKey
    /\ Len(chain) \in 1..(MaxBlocks - 1)
    /\ \/ PurgeFreesCell(pool, unspent)
       \/ /\ CanMine(time)
          /\ LET block == BlockMine(DraftBlock(time))
             IN  /\ BlockIsValid(block, LastBlock, unspent)
                 /\ TailFreed(block.transactions, block.hash, unspent)
    /\ Crashes("mine")

MineFails ==
    /\ Running
    /\ wallet = NoKey \/ chain = <<>>
    /\ Fails

-----------------------------------------------------------------------------
(* list: sorts the list of unspent outputs itself, then prints it.  Sorting *)
(* an empty list dereferences NULL.                                         *)

(* The node goes after all those whose amount is at least its own. *)
InsertByAmount(list, node) ==
    LET p == Cardinality({i \in 1..Len(list) : list[i].out.amount >= node.out.amount})
    IN  [j \in 1..(Len(list) + 1) |-> IF j <= p THEN list[j]
                                     ELSE IF j = p + 1 THEN node
                                     ELSE list[j - 1]]

(* llist_sort with flags 0: a merge sort that puts the largest amount first *)
(* and keeps entries of equal amounts in their order.                       *)
SortByAmount(list) ==
    LET run[n \in 0..Len(list)] ==
          IF n = 0 THEN <<>> ELSE InsertByAmount(run[n - 1], list[n])
    IN  run[Len(list)]

List ==
    /\ Running
    /\ unspent # <<>>
    /\ unspent' = SortByAmount(unspent)
    /\ ret' = 0
    /\ UNCHANGED <<wallet, chain, pool, disk, issued>>

ListCrashes ==
    /\ unspent = <<>>
    /\ Crashes("list")

-----------------------------------------------------------------------------
(* save and load.  A load replaces the blockchain and keeps the pool.       *)

Save(path) ==
    /\ Running
    /\ files' = [files EXCEPT ![path] = ChainFile(chain, unspent)]
    /\ ret' = 0
    /\ UNCHANGED <<memory, folders, issued>>

(* Variant: the pool is emptied. *)
Load_PoolCleared(path) ==
    /\ Running
    /\ files[path].kind = "chain"
    /\ chain' = files[path].chain
    /\ unspent' = files[path].unspent
    /\ pool' = <<>>
    /\ ret' = 0
    /\ UNCHANGED <<wallet, disk, issued>>

(* Variant: the list of unspent outputs is not replaced. *)
Load_UnspentKept(path) ==
    /\ Running
    /\ files[path].kind = "chain"
    /\ chain' = files[path].chain
    /\ ret' = 0
    /\ UNCHANGED <<wallet, unspent, pool, disk, issued>>

Load(path) ==
    /\ Running
    /\ files[path].kind = "chain"
    /\ chain' = files[path].chain
    /\ unspent' = files[path].unspent
    /\ ret' = 0
    /\ UNCHANGED <<wallet, pool, disk, issued>>

LoadFails(path) ==
    /\ Running
    /\ files[path].kind # "chain"
    /\ Fails

-----------------------------------------------------------------------------
(* The rest of the command line.                                            *)

(* The coins that info counts. *)
Coins == Sum32([i \in 1..Len(unspent) |-> unspent[i].out.amount], Len(unspent))

(* help, ls, clear, info and info_block only print. *)
Show ==
    /\ Running
    /\ ret' = 0
    /\ UNCHANGED <<memory, disk, issued>>

(* An unknown command, a wrong number of arguments, a path that cannot be   *)
(* opened, or a folder that cannot be made.                                 *)
Misused ==
    /\ Running
    /\ Fails

(* strtok returns NULL for a line of spaces, and strcmp reads it. *)
BlankCrashes == Crashes("blank")

-----------------------------------------------------------------------------
(* exit, end of input, and the start of another process.                    *)

Exit ==
    \/ Ends("exited", 1)                          \* the exit command
    \/ Ends("exited", IF ret = 0 THEN 0 ELSE 1)   \* the end of the input

Launch ==
    /\ status # "running" /\ status' = "running"
    /\ ret' = 0
    /\ UNCHANGED <<memory, disk, issued>>

(* print_logo reads the file that it could not open: the process is started *)
(* where there is no logo.txt.                                              *)
LaunchCrashes ==
    /\ status # "running" /\ status' = "launch"
    /\ ret' = SIGSEGV
    /\ UNCHANGED <<memory, disk, issued>>

Next ==
    \/ WalletCreate
    \/ \E folder \in Folders : WalletLoad(folder) \/ WalletSave(folder)
    \/ \E folder \in Folders : WalletSaveLost(folder) \/ WalletSaveCrashes(folder)
    \/ WalletLoadFails
    \/ WalletSaveFails
    \/ \E amount \in Amounts, address \in Addresses :
          \E receiver \in Receivers(address) :
             Send(amount, receiver) \/ SendFails(amount, receiver)
    \/ \E time \in Times : Mine(time) \/ MineRejected(time) \/ MineCrashes(time)
    \/ MineFails
    \/ List
    \/ ListCrashes
    \/ \E path \in Paths : Save(path) \/ Load(path) \/ LoadFails(path)
    \/ Show
    \/ Misused
    \/ BlankCrashes
    \/ Exit
    \/ Launch
    \/ LaunchCrashes

Spec == Init /\ [][Next]_vars

=============================================================================
