# A verification project for the Holberton blockchain

TLA+ modules, TLC configurations and TLAPS proofs for the C program in this
repository: a blockchain library (`blockchain/v0.1`, `v0.2`, `v0.3`), a crypto
library (`crypto/`) and a command line client (`cli/`) that keeps a wallet, a
chain and a pool of pending transactions. The project models version 0.3 and
the client, which is what is built into the program; versions 0.1 and 0.2, which
exchange files among themselves, are modelled together on their own.

## 1. Inventory

| part | state | operations | modelled in |
|---|---|---|---|
| client (`cli/`) | `state_t`: wallet, blockchain, transaction pool; `ret` of `main` | `wallet_create/load/save`, `send`, `mine`, `list`, `info`, `info_block`, `save`, `load`, `help`, `ls`, `clear`, `exit`, end of input | `Cli` |
| blocks (`blockchain/v0.3`) | `block_t`: info, data, transactions, hash | create, hash, mine, validate | `Block` |
| blockchain | `blockchain_t`: chain, list of unspent outputs | create, difficulty | `Block`, `Cli` |
| serialization | the file of a saved blockchain | serialize, deserialize | `Persistence`; one step each in `Cli` |
| transactions (`v0.3/transaction`) | `transaction_t`, `tx_in_t`, `tx_out_t`, `unspent_tx_out_t` | create, hash, sign, validate, coinbase, update of the unspent list | `Transaction` |
| proof of work | nonce, byte index | `block_mine`, `hash_matches_difficulty` | `ProofOfWork` |
| crypto | EC keys, two PEM files per wallet | create, load, save, sign, verify, SHA-256 | `Wallet` (the files); constants of `Transaction` |
| llist | a doubly linked list in a binary library | add, pop, remove, sort, find, for-each | `Llist` (external) |
| v0.1, v0.2 | a chain of blocks without transactions, a file | create, hash, validate, serialize, deserialize with an endianness swap; v0.2 adds proof of work and retargeting | `Exchange`; `ProofOfWork` and `Difficulty` for what v0.2 adds |

How they interact: the client is one process with one thread that reads a line,
runs one command to its end and reads the next. A command calls the library
directly. `send` builds a transaction from the list of unspent outputs, leaving
out what the pool already uses, and appends it to the pool. `mine` removes
invalid transactions from the pool, puts the rest behind a coinbase in a new
block, sets the difficulty, runs the proof of work, validates the block and only
then replaces the list of unspent outputs, empties the pool and appends the
block. `list` sorts the list of unspent outputs *in place*. `load` replaces chain
and list but keeps the pool. The only shared state is in files: chains and
wallets written by one process are read by a later one, or by someone else's.

What is hard here is not concurrency but long histories: the pool outlives the
chain it was built for, entries of the unspent list are looked up in four
different ways (owner and digest prefixes, output hash, all three digests,
output hash again), the order of that list depends on earlier commands, a
refused block leaves some things changed, a loaded file is not checked, and a
library function behaves differently on the first node and on the others.
`PROJECT.json` lists each hazard at its line with the properties that cover it.

What makes each part correct:

* pool: no two pending transactions use one output; a pending transaction is
  mined or found invalid, never lost; a covered `send` is accepted and nothing
  else is;
* chain: blocks are linked, hashed and hard enough; nothing is built on a
  damaged block; a failed command changes nothing;
* unspent outputs: exactly the outputs of the chain that are not spent, worth
  one coinbase per block; inputs are signed by the owner of what they spend;
* difficulty: the documented adjustment, one step at a time;
* proof of work: the least nonce that matches, for any difficulty, and it ends;
* saved chains: a whole file gives back the ledger it was saved from, and a save
  that fails leaves a beginning of the file, never a mixture;
* chains of v0.1 and v0.2: a load gives the whole chain that was saved, on a machine
  of the same byte order and version, or none; and v0.2 goes on from it with valid
  blocks;
* the client as a whole: balances from which every accepted payment is taken once;
* saved wallets: a folder gives back one whole wallet or none.

## 2. Modules

| module | extends | models |
|---|---|---|
| `Llist` | | `llist_remove_node` and the search it makes (binary library, from its header, man pages and use) |
| `Transaction` | `Llist` | `blockchain/v0.3/transaction/*.c` as operators |
| `Difficulty` | | what a digest must meet, and the retargeting: the same text in v0.2 and v0.3 |
| `Block` | `Transaction`, `Difficulty` | `blockchain/v0.3/*.c` as operators |
| `Cli` | `Block` | the client as a state machine, one action per command and outcome |
| `Accounts` | | abstract: keys with balances, and payments that the next block settles |
| `CliProperties` | `Cli`; instantiates `Accounts` | types, invariants, action properties, and the refinement |
| `MCCli` | `CliProperties` | small instances for TLC |
| `ProofOfWork`, `MCProofOfWork` | | the loops of `block_mine` and `hash_matches_difficulty` |
| `InductionLemmas` | | induction over an interval and over recursive functions, arithmetic modulo a number, sums |
| `FileFormat` | | what `blockchain_serialize` writes, item by item, and the whole file of a ledger |
| `Store` | `FileFormat` | abstract: what a save and a load promise |
| `Persistence`, `MCPersistence` | `FileFormat`; instantiates `Store` | the writes of `blockchain_serialize` and the reads of `blockchain_deserialize` |
| `Exchange`, `MCExchange` | `Difficulty` | versions 0.1 and 0.2: blocks, and files between machines of both byte orders and versions |
| `Keyring` | | abstract: folders that keep whole wallets |
| `Wallet` | instantiates `Keyring` | the file operations of `ec_save` and `ec_load` |
| `CliProofs` | `CliProperties` | lemmas about `Llist`, `Transaction` and `Cli`; theorems about the pool, single steps, the chain, the purge and the difficulty |
| `SessionProofs` | `CliProofs` | theorems about sessions without files: sums, exactness of the list |
| `AccountsProofs` | `SessionProofs` | theorems: such sessions implement `Accounts`; what `send` accepts, with files and without |
| `ProofOfWorkProofs`, `WalletProofs`, `ExchangeProofs`, `PersistenceProofs` | the module they are about | theorems |

### State of `Cli`

| variable | code |
|---|---|
| `wallet` | `state->wallet`; `NoKey` for NULL |
| `chain`, `unspent` | `state->blockchain->chain`, `->unspent`, head first |
| `pool` | `state->tx_pool` |
| `ret` | `ret` in `main`: -1, 0, 1, or the exit code of the process |
| `status` | whether the process runs, has exited, or crashed, and in which command |
| `files`, `folders` | the files chains and wallets are saved to |
| `issued` | the keys that exist; `ec_create` generates one that does not |

### Actions of `Cli`

| action | code |
|---|---|
| `WalletCreate`, `WalletLoad`, `WalletLoadFails` | `handle_wallet_*.c`; the wallet in use is freed before the load, and gone if the load fails |
| `WalletSave`, `WalletSaveFails`, `WalletSaveLost`, `WalletSaveCrashes` | `handle_wallet_save` and the outcomes of `ec_save` (module `Wallet` has its steps): saved; no wallet; the folder truncated; the NULL of `fopen` closed |
| `Send`, `SendFails` | `handle_send` with `string_to_pub` (`Receivers`), `transaction_create` and `transaction_is_valid` |
| `Mine`, `MineRejected`, `MineFails` | `handle_mine`, `mine`: block added; block refused (the purged pool stays); no wallet or no block to build on |
| `MineCrashes` | `mine`: the destructor is run on a list cell (`PurgeFreesCell`), or the freed tail of the list is used (`TailFreed`) |
| `List`, `ListCrashes` | `generate_sorted_unspent_list`; the empty list |
| `Save`, `Load`, `LoadFails` | `handle_save`, `handle_load` with (de)serialization as one step |
| `Show`, `Misused`, `BlankCrashes` | the rest of `find_command`; a line of spaces |
| `Exit`, `Launch`, `LaunchCrashes` | the end of `main`, and a new process, which crashes in `print_logo` if there is no `logo.txt` |

The whole handler is one action because the process has one thread and no
handler waits for input. Where freed memory is used the model lets the process
end there; since a build may also survive it, `Mine` stays possible when the
purge hits a cell, and only the tail defect, after which the list's contents are
not defined, always ends the process.

### Abstractions

* A digest is `SHA256` of the tuple of what the code hashes, in the code's order;
  TLC instantiates it with the identity, so that no two buffers collide. The
  theorems hold for every operator `SHA256`, collisions included.
* `Prefix` is the first four bytes of a digest (`sizeof(SHA256_DIGEST_LENGTH)` in
  `check_unspent`). TLC takes it to be injective; the theorems do not.
* A signature is the pair of key and digest: it verifies for that pair only.
* The data of a block is the same for every block the client mines and is left
  out.
* An address has a length, digits or something else, and the key its first digits
  denote; one that gives no key (`string_to_pub`, `ec_from_pub`) is `NoKey`. `main`
  copies a longer address without its end, so that the bytes behind the buffer are
  checked with it: `Receivers` has both outcomes.
* Amounts are `uint32_t` (`% UINT32`), timestamps subtract modulo `UINT64`.
* Failed allocations are left out, and so is the text that commands print.

### Module `Accounts`

`Accounts` knows nothing of outputs, digests or signatures. A payment is accepted
only if the balance of its sender covers it besides all payments that are pending;
a block settles all of them at once and gives its miner the coinbase. The
refinement in `CliProperties` maps a balance to the entries of a key in the list of
unspent outputs and a pending transaction to its first input's signer and its first
output. Selection, change, purge, removal by output hash and `list`'s sort must
amount to that: an entry that is spent twice or not at all, or change that goes to
the wrong key, breaks a `Settle`. It holds without files; a `load` may set the
balances to anything the file says.

### Module `ProofOfWork`

`block_mine` and `hash_matches_difficulty` are loops; `Block` takes them as one
step that chooses the least nonce whose digest has enough leading zeros.
`ProofOfWork` has a step for each hash, each byte compared and the bits of the
last byte, and checks that choice. The digest of the block with each nonce is
arbitrary (variable `digest`, fixed in a behaviour).

### Module `Persistence`

| variable | code |
|---|---|
| `pc` | the loop `blockchain_serialize` or `blockchain_deserialize` is in; "idle" between commands, "stopped" when the process has ended |
| `memory`, `exists`, `file` | `state->blockchain`; whether the file exists; its items |
| `out`, `i`, `t`, `j` | save: the `write` calls the current turn of a loop has left, and the indices of the three nested loops |
| `lost` | whether a `write` of this save failed (the code does not know) |
| `pos`, `head`, `part`, `block`, `tx` | load: the position in the file, the header, and the structures under construction |
| `ret` | what the last save or load returned |

`SaveOpens` to `SaveReturns` and `LoadOpens` to `LoadReturns` are the turns of the
loops; `Write` is one `write`. `SaveFails`, `LoadFails` and `HeaderRefused` are
the failures the code handles, `LoadExhausts` is the one it does not: a count
that was not in the file makes the loop allocate until the memory is gone.
`Stop` ends the process between any two of these steps. `Work` is every other
command: it may leave any ledger of `Ledgers` in memory.

A file is a sequence of items, each of them what one `write` is given; an item
that the disk had room for only in part is `Torn`. A disk that was full stays full
until the save ends. What `fread` leaves when an item is missing is
indeterminate: `Garbage`, or for a count any value of `Counts`, which bounds it.
A blockchain with such values is not saved or loaded over in the model. The
length of the file is not in the model beyond the number of items, and neither
are bytes that were changed by someone else.

`Store` is the promise: a save replaces the file at once by the whole ledger, or
fails and leaves a beginning of it; a load of a whole file gives the ledger that
was saved. In the refinement the abstract file is the finished one from the
moment the save opens it, so every step that loses something must be an abstract
failure, and the last step of a save that lost nothing must find every item in
its place.

### Module `Wallet`

`priv` and `pub` are the two files of each folder: the key they hold, "none" for
a file that does not exist, "broken" for one without a readable key. `ec_save`
opens and closes each in turn; the PEM text is buffered, so that it reaches the
file in `fclose`, or does not when the disk is full. `ec_load` reads the public
key, then the private one; a private key file holds both halves of the pair.
`MkdirFails`, `WritePrivFails`, `WritePubFails`, `LoadPubFails` and `LoadPrivFails`
are the failures the code handles: the last two happen when a file holds no key, and
also when `fopen` fails on one that does (permissions, no free descriptor).
`OpenCrashes` is the NULL of a failed `fopen` that is passed to `fclose`.
`Keyring` is the promise: `kept[f]` is one whole wallet that was saved to the
folder, or none. A load that is not interrupted gives that; it gives none only if
the folder keeps none or cannot be read, which loses nothing of what it keeps. The
wallet in use is gone from the moment the load begins (`Ask`). While a folder is
loaded (`asked`) nothing else happens to the wallet, so a wrong wallet cannot pass
for a new one. `MayBeUnreadable` is `OpenFails`: on a machine where files always open,
the theorem says that a load gives exactly what the folder keeps.

### Module `Exchange`

`chain` is the blockchain each machine holds, with the status "null",
"no_list" (a `blockchain_t` whose `chain` is NULL) or "list"; `file` is what the
shared file holds, with the byte order of the machine that wrote it. Each machine
has a version: `blockchain_create`, `block_create`, `block_hash`,
`blockchain_serialize` and `blockchain_deserialize` have the same text in both but
for `HBLK_VERSION`, and 0.2 adds the proof of work, the retargeting and a check of
the work in `block_is_valid`. The actions are the library's functions, called in
any order as the programs under `v0.1/test` and `v0.2/test` call them: with 0.1 a
block is created, hashed and added, with 0.2 it gets the difficulty of the chain,
is mined, and is added if it is valid. A number read on a machine of the other order has its bytes
reversed, and is then swapped as the code swaps it. A full disk cuts the file after
any item; since every `read` is compared with the size it should have, a part of
an item is as good as none. The text of a block's data is left out, its length is
not.

## 3. Runs

| run | question | bounds |
|---|---|---|
| `session` | does a session without files keep pool, chain and unspent list right, which sends are accepted, and does it implement `Accounts`? | 2 keys, amounts 1 and 2 of a coinbase of 2, 4 blocks, pool of 2 |
| `files` | two owners exchanging a chain by file, loads with transactions pending | 1 path, first holding nothing, a wrong header, or another owner's chain; 4 blocks, pool of 1; addresses that are exact, too short, too long, or not digits |
| `fork` | going back to a chain saved earlier, or to a damaged or empty one, with two transactions pending | 1 key, 5 blocks, pool of 2, amounts -1 and 1; 1 path, first holding nothing, a wrong header, no block, or a damaged last block |
| `clock` | retargeting and proof of work under any clock | interval of 3 blocks of 1 second, times 0, 1 and 7, nonces 0 to 2, 8 blocks; 1 folder |
| `proof_of_work` | the loops of the proof of work | 2 bytes, 2 nonces, byte values 0, 1, 6, 40 and 128, every difficulty from 0 to 16 |
| `save_load` | do save and load, loop by loop, do what `Store` says on a disk that fills up and in a process that stops? | 4 ledgers of 1, 2, 2 and 3 blocks, up to 2 inputs and 2 unspent outputs; no file, one of another version, or a whole one at first |
| `wallet` | the two files of a wallet, when files do not open, writes fail or are lost, and the process stops anywhere | 2 keys, 2 folders |
| `exchange` | chains of v0.1 and v0.2 between machines through a file | two machines of 0.1, one of each byte order, and one of 0.2; bytes of 3 values (so that 32 bits hold 81), times that need more than 32 bits, data below and above the maximum, 4 blocks, interval of 2; first no file, one of version 0.3, or a chain of three blocks from another program, with short data or a given difficulty |
| `mine_crash`, `unspent_kept`, `counted_twice`, `load_broken` | the four disagreements below, each with the property it violates | `mine_crash`: as `files`, with a pool of 2; `unspent_kept`: one key, no file, 6 blocks, pool of 2; `counted_twice`: two saved chains of one owner, 5 blocks, pool of 2; `load_broken`: as `save_load`, without a full disk |

The bounds are the least at which the cases meet. Two pending transactions are
needed for a conflict, and two outputs of one owner for a selection; with a
coinbase of 2 an amount of 1 leaves change, 2 does not, and 1 twice makes two
outputs with the same hash. Four blocks let coins be mined, split, combined and
spent again; `fork` needs five to save, mine, send twice, go back and mine again.
In `clock` an interval of three gives two adjustments in eight blocks; the elapsed times
are below, just below and above half of an expected time that is odd, and above its
double. `proof_of_work` has
difficulties with and without remaining bits in both bytes, and bytes with 8, 7,
5, 2 and 0 leading zeros. The ledgers of `save_load` have an empty list for every
loop, turns of every loop and, with two inputs and one output, loops that end at
different counts; a genesis block has no list of transactions. Two keys and two
folders are enough for a folder to hold halves of two wallets and for a load to
choose between folders.

Bounds in the guards: `Amounts`, `Times`, `MaxBlocks` (in `CanMine`, and the
other mining actions), `MaxPool` (in `Send`) and `MaxNonce` (in
`MatchingNonces`); in `Persistence`, `Counts`. No run switches deadlock checking off: a process that ended
can be launched again.

What the properties say:

* `PoolDisjoint`: no two pending transactions refer to one output. `mine`
  validates all of them against one list, so nothing else prevents a double
  spend inside a block.
* `PurgeIsOneByOne`: what the purge keeps is what the procedure of
  `cli/README.md` keeps, which updates the list after each transaction.
* `SendIffCovered`: `send` succeeds exactly when the outputs of the wallet that no
  pending transaction uses cover the amount, for the amounts from -1 to one
  more than a coinbase, which need not be among those the run sends.
* `MinedBlockValid`: on a sound last block, the block `mine` builds is valid.
* `ImplementsAccounts`: `Cli` without files implements `Accounts`; no other property
  says that the right key pays, once, and gets its change.
* `TailKept`: no input of the next block finds its entry at the tail of the list,
  where the library would leave a pointer to a freed cell.
* `ListNeedsBlock`: the list is only empty, and `list` only crashes, before the
  first block is mined, also after loads.
* `UtxoExact`, `SupplyConserved`, `SpendsAuthorised`, `ChainLinked`: the list and
  the chain agree, coins come from coinbases only, spends are signed by the
  owner of an earlier output, and blocks form a chain. `UtxoExact` counts
  entries by output hash, which stands for an amount and a key: for each hash the
  list has as many entries as the chain has outputs and no inputs. Counted by all three
  digests this is false from the fifth mined block on (`unspent_kept`, without files):
  the removal by output hash alone can leave the entry that was spent and take an
  equal one, and the output of the entry that stayed can be spent on the chain a
  second time.
* `PendingKeptOrMined`: a pending transaction leaves the pool into a block, or
  because it is invalid at that moment.
* `FailureKeepsBlockchain`, `OnlySoundTailExtended`: a command that fails leaves
  chain, list and the files of chains alone (a `wallet_save` that fails may have
  truncated its folder); no block is mined on a damaged one.
* `DifficultyDocumented`, `DifficultyMovesByOne`: the documented adjustment while
  the clock goes forward, but for the rounding below, and at most one step whatever the clock does.
* `FoundIsLeast`, `ReadsInDigest`, `Finds`: the proof of work finds the least
  matching nonce, reads inside the digest, and ends if a nonce matches.
* `ImplementsStore`: `Persistence` implements `Store`; `FileIsBeginning`: at every
  moment the file is the beginning of one ledger's file; `CommandsEnd`: a save
  ends, and so does the load of a whole file, although its loops run on counts
  that were read and of which one is -1.
* `RoundTrip`, `LoadedIsWhole`, `ChainsValid`: versions 0.1 and 0.2 load exactly the
  chains they saved whole, also through several machines, never part of one and
  never one of the other version; and what they save keeps blocks valid. `LoadedIsWhole` holds for files of the other byte
  order because the number of blocks, read without a swap, is larger than what
  the file holds (for fewer than 2^16 blocks): such a file is never loaded. The bound is exact, see
  below.
* `MinedIsValid`: version 0.2 mines valid blocks, whatever program wrote the chain
  it goes on from.
* `HalvesMatch`, `ImplementsKeyring`: the client never has a wallet that combines
  two keys, also when a folder does; `Wallet` implements `Keyring`, with files that do
  not open for writing or reading, writes that fail or are lost, and interruptions.

Fairness: `Cli` has none, since nothing makes a user type a command. `ProofOfWork`
has `WF_vars(Next)`: the loop is the only thing its thread does, and every step
of it is enabled until it returns. `Persistence` has weak fairness of `Saves` and
of `Loads` for the same reason: a command that was begun goes on until it ends,
and only commands themselves are typed by a user. `Wallet` has none.

Where a run has folders (`clock`), they may hold at first a wallet that an earlier
process saved.

### Disagreements found

* `mine_crash`: `mine` deletes an invalid transaction that is not the first of
  the pool by handing the list's own cell to `transaction_destroy`, and crashes
  (`cli/mine.c:50`; `cli/README.md:113`).
* `unspent_kept`: `update_unspent` removes by output hash alone and can leave the
  entry that was spent in the list, and remove an equal one
  (`update_unspent.c:15`; `blockchain/v0.3/README.md:1345`).
* `counted_twice`: `transaction_is_valid` looks up each input on its own, and two
  inputs that refer to one entry count it twice. An owner splits a coinbase into two
  equal outputs, saves, spends one of them and saves to a second file; a process that
  loads the first file, sends both and loads the second mines a block that adds
  more than its coinbase (`transaction_is_valid.c:53`;
  `blockchain/v0.3/README.md:774` and `776`). With the program and one wallet, 150
  coins become 225 by one block of 50. Neither `PoolDisjoint` nor the purge can
  prevent it: the two inputs are in one transaction, and were two entries when it
  was made.
* `load_broken`: no result of `fread` is looked at; a file that ends early is
  loaded, with indeterminate values for what is missing
  (`blockchain_deserialize.c:96`; `cli/README.md:195`).

Others are in the models as the code has them, without a run of their own:

* `list` on the empty list of a new process dereferences NULL in `llist_sort`
  (`cli/unspent_list.c:21`; action `ListCrashes`).
* No result of `write` is looked at: on a full disk `save` leaves half a file and
  reports success (`blockchain_serialize.c:108`; `blockchain/v0.3/README.md:1562`;
  `Write` and `SaveReturns` in `Persistence`).
* `print_logo` prints an error if there is no `logo.txt`, and then reads the NULL of
  `fopen`: the client crashes when it is started from another directory
  (`cli/cli.c:147`; `LaunchCrashes`).
* `strncpy` copies one byte more than the buffer of the address holds, and no end of
  a longer address (`cli/cli.c:70`; `CheckString`).
* In v0.1 and v0.2 a load that succeeds does not close its file
  (`blockchain_deserialize.c:75`); the number of open files is not modelled.
* A clock that was set back makes the elapsed time wrap around, and the
  difficulty goes down where `blockchain/v0.2/README.md:412` says up
  (`blockchain_difficulty.c:36`; hence `ClockForward` in `DifficultyDocumented`).
* `ec_save` returns 1 when the keys did not fit on the disk, since it does not
  look at what `fclose` returns (`crypto/ec_save.c:41`; the second disjuncts of
  `ClosePriv` and `ClosePub`).
* `ec_save` passes the NULL of a failed `fopen` to `fclose`
  (`crypto/ec_save.c:38`; action `OpenCrashes`).
* In v0.1 and v0.2 a file of a machine of the other byte order cannot be loaded,
  although `blockchain/v0.1/README.md` calls its numbers "endianness dependent": the
  number of blocks is not swapped, and timestamp and nonce are swapped as 32-bit
  numbers (`blockchain_deserialize.c:72` and `109`; `Deserialize`, `Swapped`).
* There, a file that ends early gives a blockchain without a list of blocks where
  the README says `NULL` (`blockchain_deserialize.c:72`; `NoList`).
* There, a chain of 65536 blocks from a machine of the other order is read as one
  of 256, with numbers whose 64 bits are in the wrong order: 65536 reversed is 256
  (`blockchain_deserialize.c:72`; the model with bytes of 2 values shows it with 4
  blocks, which is `BYTE * BYTE` there).
* Half of an odd expected time is rounded down (`expected_time / 2`,
  `blockchain_difficulty.c:41`). The constants of the program expect 5 seconds
  (`blockchain.h:161`): after 2 seconds, less than half of them, the difficulty stays
  where `blockchain/v0.2/README.md:412` says it goes up. `DifficultyDocumented` states
  exactly this exception (`JustBelowHalf`), and `clock` meets it with an
  expected time of 3.
* On a big-endian machine no block after the genesis block is valid in v0.1 and v0.2, since
  the structure is hashed as it is in memory and `GENESIS_HASH` is a constant
  (`block_is_valid.c`; hence "little" in `ChainsValid`).

The defects of the client and of v0.3, all but the clock, the address and the logo, were also reproduced with the program
itself, built from this source.

## 4. Proofs

| theorem | module | what it establishes | about the files of earlier sessions |
|---|---|---|---|
| `TypeCorrect` | `CliProofs` | `Spec => []TypeOK` | nothing |
| `PoolAlwaysDisjoint` | `CliProofs` | `Spec => []PoolDisjoint` | nothing |
| `OnlySoundTail` | `CliProofs` | `Spec => OnlySoundTailExtended` | nothing |
| `PendingNeverLost` | `CliProofs` | `Spec => PendingKeptOrMined` | nothing |
| `FailureChangesNothing` | `CliProofs` | `Spec => FailureKeepsBlockchain` | nothing |
| `PurgeAlwaysOneByOne` | `CliProofs` | `Spec => []PurgeIsOneByOne` | nothing |
| `ChainStaysLinked` | `CliProofs` | `Spec => []ChainLinked` | their chains are linked (`LinkedFiles`) |
| `SpendsAlwaysAuthorised` | `CliProofs` | `Spec => []SpendsAuthorised` | their chains are authorised, and their entries on the chain (`SoundFiles`) |
| `MinedAlwaysValid` | `CliProofs` | `Spec => []MinedBlockValid` | their blocks are numbered (`NumberedFiles`) |
| `DifficultyAlwaysMovesByOne` | `CliProofs` | `Spec => []DifficultyMovesByOne` | numbered, and one step at a time (`MovingFiles`) |
| `DifficultyAlwaysDocumented` | `CliProofs` | `Spec => []DifficultyDocumented` | numbered, and as documented (`DocumentedFiles`) |
| `ListAlwaysNeedsBlock` | `CliProofs` | `Spec => []ListNeedsBlock` | only a genesis block leaves nothing to list (`ListableFiles`) |
| `SupplyAlwaysConserved` | `SessionProofs` | `Spec => []SupplyConserved` | there are none |
| `TailAlwaysKept` | `SessionProofs` | `Spec => []TailKept` | there are none |
| `UtxoAlwaysExact` | `SessionProofs` | `Spec => []UtxoExact` | there are none |
| `MineAlwaysAddsCoinbase` | `SessionProofs` | `Spec => MineAddsCoinbase` | there are none |
| `AccountsImplemented` | `AccountsProofs` | `Spec => ImplementsAccounts` | there are none |
| `SendsExactlyCovered` | `AccountsProofs` | `Spec => [](PrefixesTell /\ Worth(unspent) < UINT32 => SendIffCovered)` | their entries are outputs that the client made (`GenuineFiles`) |
| `SessionSendsCovered` | `AccountsProofs` | `Spec => [](PrefixesTell => SendIffCovered)` | there are none |
| `WorkTypeOK` | `ProofOfWorkProofs` | the ranges of nonce and byte index | |
| `NoReadPastDigest` | `ProofOfWorkProofs` | `Spec => []ReadsInDigest` | |
| `MinesLeastNonce` | `ProofOfWorkProofs` | `Spec => []FoundIsLeast` | |
| `WalletTypeOK` | `WalletProofs` | `Spec => []TypeOK` | |
| `HalvesAlwaysMatch` | `WalletProofs` | `Spec => []HalvesMatch` | |
| `KeyringImplemented` | `WalletProofs` | `Spec => ImplementsKeyring` | |
| `ExchangeTypeCorrect` | `ExchangeProofs` | `Spec => []TypeOK` | |
| `EveryChainComesBack` | `ExchangeProofs` | `Spec => []RoundTrip` | |
| `OnlyWholeChainsLoaded` | `ExchangeProofs` | `Spec => LoadedIsWhole` | |
| `ChainsStayValid` | `ExchangeProofs` | `Spec => []ChainsValid` | |
| `MinedStaysValid` | `ExchangeProofs` | `Spec => []MinedIsValid` | |
| `PersistenceTypeCorrect` | `PersistenceProofs` | `Spec => []TypeOK` | |
| `FileAlwaysBeginning` | `PersistenceProofs` | `Spec => []FileIsBeginning` | |
| `StoreImplemented` | `PersistenceProofs` | `Spec => ImplementsStore` | |

### What is assumed

The theorems hold for every set of keys, files and folders, every clock, bound,
digest and prefix operator, under the assumptions named in the modules:
`AmountAssumption`, `DifficultyAssumption`, `BlockAssumption`, `CliAssumption`,
`WorkAssumption` and `WalletAssumption` (ranges of the constants);
`FilesAssumption` (what the files hold at first is a list of blocks and a list of
entries with `uint32_t` amounts; the blocks may be anything);
`ExchangeAssumption` (versions, byte orders, and numbers that have more than one
byte); `PersistenceAssumption` (a ledger has the lists and the counts of
`blockchain.h`, and a block at index 0 has no list of transactions).

A theorem about the contents of a chain says in its hypotheses what the files hold
at first: `load` checks nothing (`blockchain_deserialize.c`), so that what an
earlier session or another program left there is in memory after it. Each
hypothesis is the property itself, or a little more, of the first files; the theorem
then shows that it stays with every chain in memory and in the files, through any
number of saves and loads, also when a load leaves transactions in the pool that
were made for another chain. Beyond that:

* `MinedAlwaysValid` and `DifficultyAlwaysDocumented` have `MaxBlocks <= UINT32`: the
  index of a block is a `uint32_t`, and with index 0 a block is compared with the
  genesis block.
* The theorems of `SessionProofs` and `AccountsProofs`, but for `SendsExactlyCovered`,
  are about sessions without files (`Paths = {}`). That is no convenience: run `counted_twice` shows a session
  with two files in which `MineAddsCoinbase` is false. They also need that outputs
  of different amounts have different hashes (`AmountsTold`) and that no
  output has for its hash the index of a block and 28 zero bytes, which is what a
  coinbase refers to (`IndexesTold`). Collisions of transaction ids, block hashes or
  prefixes do no harm.
* `AccountsImplemented` and `SessionSendsCovered` need besides that outputs for
  different keys have different hashes (`OwnersTold`), and that all coins together
  stay below 2^32 (`CoinsFit`: with coinbases of 50 up to 85 million blocks), since
  beyond that the code's sums wrap around where a balance of `Accounts` does not.
* `SendsExactlyCovered` has `AmountsTold` and `OwnersTold`, but any files. Its
  conclusion has two conditions on the state at hand. `PrefixesTell`: the first bytes
  of the digests, which are all that `check_unspent` compares, tell what the
  pending transactions refer to from the other entries of the list; if they do not,
  a free output is not selected, and the code refuses what is covered.
  `Worth(unspent) < UINT32`: what the loop adds up does not wrap around; a file can
  hold more, and in a session without files `CoinsFit` excludes it. In the runs
  `session` and `files`, with an injective `Prefix` and few blocks, both always hold.
* The theorems of `ExchangeProofs` have `FilesWritten` (the first file was written
  by one of the two versions, or is none) and, for `LoadedIsWhole`,
  `MaxBlocks < BYTE * BYTE`, which is 65536 in the program; it is exact, see
  section 3.

### How they are proved

The inductive invariant of `Cli` is `IInv == TypeOK /\ PoolDisjoint`.
`PoolDisjoint` is preserved by `Send` because each selected input refers to an
output for which `check_unspent` found no pending input with the same digest
prefixes, and equal digests have equal prefixes (`SelectionType`,
`CreatedTransaction`); by `MineRejected` because the purge only removes
transactions (`PurgeDisjoint`); every other action keeps the pool or empties it.
`TypeOK` needs the types of what the loops build: the selected total, the sorted
list, the purged pool and the updated list. Each of these is a recursive function
in the model, and its type is proved with `RecursionExists` and `RecursionValues`
(module `InductionLemmas`): a recursion by steps that stay in a set has a
solution, and its values stay in the set. `OnlySoundTail` uses the invariant to
show that the block has a coinbase, so that it cannot pass as the genesis block
when the index wraps around to 0.
`PendingNeverLost` follows from what one turn of the purge does: it removes the
first invalid transaction and keeps every other (`RemoveKeeps`), so after any
number of turns a valid transaction is still there (`PurgeKeeps`), and the block
carries it behind the coinbase (`MineKeeps`).

The second part of `CliProofs` adds to `IInv` one predicate on chains for each theorem (linked,
authorised with the list on the chain, numbered, moving by one, documented), which
holds of the chain in memory and of every file. A new block is compared with
the one it follows: `MinedBlock` says what `mine` fills in, and each predicate
follows for one block more. `SpendsAlwaysAuthorised` needs that a valid input was
signed by the owner of an entry, and that the entry comes from the chain
(`OnChain`), which `update_unspent` and `list` keep. `PurgeAlwaysOneByOne` uses
`PoolDisjoint`: the outputs a kept transaction takes from the list are of no use to
another pending one, so that updating the list in between changes no verdict.

`SessionProofs` is about counting. The lists are summed by `Total` over an
interval (`InductionLemmas`), and a sum over the list of unspent outputs is
followed through `update_unspent`, one input at a time (`SpendFront` and what
follows). Its invariant `SessionInv` says that every entry and every pending output
was made by the program, and that the pool is `Backed`: for any set of output hashes
the pending inputs with these hashes are at most as many as the entries. This is
what `PoolDisjoint` becomes when digests are counted, and what makes each removal
by hash find an entry. `ExactInv` adds that for each hash the entries in the list
and the inputs on the chain are together the outputs of the chain.

For `AccountsImplemented` the invariant is `IInv /\ SessionInv /\ AccountsInv`.
`AccountsInv` says that the list holds exactly one coinbase for each mined block,
that this is below 2^32, and that the pool consists of valid payments
(`ArePayments`): inputs of one owner, an output for the receiver, perhaps one back to
the owner, and together as much as the inputs, without a modulus. A balance is the
same sum over the list as the supply, with the values of other owners' hashes set to
0 (`OwnedBy`), so that what `SessionProofs` shows of sums over hashes applies to each
key on its own. `Send` maps to `Pay` because what the pool and the new transaction
spend together is in the list (`SpendsHeld`), and none of it was counted twice
(`Backed`). `Mine` maps to `Settle` because the purge keeps the whole pool
(`PurgeOfValid`) and the block moves for each key what its payments say
(`BlockSettles`, `PaymentsMove`). The pool stays valid when `list` sorts the
entries under it (`ValidSorted`): an input may then find another entry, but of the
same amount and owner.

`SendsExactlyCovered` needs little of an invariant: every entry of the list, every
pending output and every entry of a file is one the client made (`GenuineInv`); the
rest is about one call of `send` in such a state. The selection loop never has more
than the outputs that can be selected are worth, and less only when it stopped
because it had enough (`SelectionCovers`); its total is the worth of the inputs it
made (`SelectionWorth`), so that `send` gets past its comparison exactly when the
selectable outputs cover the amount. Each input can be signed, because the first entry
with its output hash, which `tx_in_sign` looks up, belongs to the same key
(`AllSigned`), and finds the amount it was selected for when it is validated; the
outputs, with or without change, then add up to the inputs (`ValidWhen`,
`CreatedValid`). What can be selected is what no pending transaction refers to, by
`PrefixesTell` (`SelectableIsFree`).

The inductive invariant of `Wallet` is `TypeOK /\ HalvesMatch /\ PrivateFirst /\
PublicFirst /\ Released`: while a save is past the private key, its file holds the key of the
wallet or nothing readable (so that a public key that is written completes a pair
of one key), and a load only reaches the private key when the public key was
readable (so that it loads what `Keyring` says the folder keeps), and holds no
wallet until then (so that a load that fails gives none). Every step then
maps to a step of `Keyring` or to a stutter; the save takes effect when
`ClosePub` succeeds, or earlier, in `ClosePriv`, when the folder already has a
readable public key.

That of `ProofOfWork` (`WInv`) says that no nonce before the current one matches and
that the bytes compared so far are zero.

`ExchangeInv` says that the chain of each machine and the file are such that one
program of a version and byte order can have made them (`IsChain`, `IsFile`). A
file is read back item by item: reversing the bytes of a number twice gives the number,
and a count that was reversed once is at least `BYTE * BYTE`, so that the
file ends before the blocks do.

`PersistenceInv == TypeOK /\ Place /\ SaveInv /\ LoadInv`: during a save the file is
what the turns of the loops so far write (`Written`), or a beginning of the whole file
when a write was lost; during a load of a whole file the structures under
construction are the first blocks, transactions, inputs and outputs of its ledger,
and the position is the one behind their items (`Agrees`). TLC checked the
conjuncts before they were proved. Each turn of a loop then adds the items of one
structure, and the steps map to `Store`'s save, load, failure or a stutter.

Only model-checked: the liveness properties `Finds` and `CommandsEnd` (fairness is
out of the prover's reach here), and the four violations. Every invariant and action
property of the passing runs and every refinement is a theorem.

## 5. Not modelled

* The bytes of a file: items that were changed by someone else, the order of the
  bytes of an integer, and reads that a shorter item shifts.
* OpenSSL and SHA-256 themselves, failed allocations, and printing.
* The number of open files and the memory a process has left, apart from the load
  that exhausts it (`LoadExhausts`).
* `libllist.so` beyond the operations the client relies on: it is a binary.

## 6. Plan

All steps are done.

1. `Transaction`, `Block`, `Cli` with the properties above; `CliProofs`.
2. `ProofOfWork` and its theorems.
3. `Persistence`, implementing `Store`.
4. `Wallet`, implementing `Keyring`, with the proof.
5. `Accounts`, implemented by `Cli` without files; a run in which equal outputs and
   two saved chains make a transaction count one entry twice.
6. `Exchange` for versions 0.1 and 0.2 with the proof of work.
7. Theorems, first those that need no assumption about files, then those about
   the chain, then sessions without files and their refinement of `Accounts`,
   `Exchange` and `Persistence`, and last what `send` accepts.
