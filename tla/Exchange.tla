------------------------------ MODULE Exchange ------------------------------
(***************************************************************************)
(* Blockchains that are passed between machines through one file, on       *)
(* machines of both byte orders and a disk that may fill up.  Each machine *)
(* has version 0.1 of the library, or version 0.2, which adds the proof of *)
(* work and the difficulty; what they share has the same text in both.     *)
(***************************************************************************)
EXTENDS Difficulty, FiniteSetsExt

CONSTANTS
    Machines,
    Order,                 \* the byte order of each, "little" or "big"
    Version,               \* the version each has, "0.1" or "0.2"
    SHA256(_),
    BYTE,                  \* the number of values of a byte
    BLOCKCHAIN_DATA_MAX,
    GENESIS_TIMESTAMP,
    MaxNonce,              \* bound: nonces the proof of work tries
    Lengths,               \* bound: the lengths of the data of new blocks
    Times,                 \* bound: what the clocks show
    FirstFiles,            \* what the file may hold at first
    MaxBlocks,             \* bound: the length of a chain
    DiskFills              \* whether what is written may not fit on the disk

ASSUME ExchangeAssumption ==
    /\ Order \in [Machines -> {"little", "big"}]
    /\ Version \in [Machines -> {"0.1", "0.2"}]
    /\ BYTE \in Nat \ {0, 1}
    /\ UINT64 = BYTE^8
    /\ BLOCKCHAIN_DATA_MAX \in 16..(BYTE * BYTE * BYTE * BYTE - 1)
    /\ Lengths \subseteq 0..(BYTE * BYTE * BYTE * BYTE - 1)
    /\ MaxNonce \in Nat
    /\ MaxBlocks \in Nat
    /\ DiskFills \in BOOLEAN

VARIABLES
    chain,   \* the blockchain of each machine
    file     \* the byte order of what the file holds, and its items

vars == <<chain, file>>

-----------------------------------------------------------------------------
(* Blocks. The data of a block is its length: what it says is left out.     *)

UINT32 == BYTE * BYTE * BYTE * BYTE

ZeroHash == <<"zero">>

(* The structure is hashed as it is in memory. *)
BlockHash(order, block) == SHA256(<<order, block.info, block.data>>)

(* GENESIS_HASH is a constant of the source, from a little-endian machine. *)
GenesisBlock ==
    LET draft == [info |-> [index |-> 0, difficulty |-> 0, nonce |-> 0,
                            timestamp |-> GENESIS_TIMESTAMP, prev_hash |-> ZeroHash],
                  data |-> 16]
    IN  [info |-> draft.info, data |-> draft.data, hash |-> BlockHash("little", draft)]

(* Variant: the length of the data is not limited. *)
BlockCreate_Unlimited(prev, length, time) ==
    [info |-> [index |-> (prev.info.index + 1) % UINT32, difficulty |-> 0, nonce |-> 0,
               timestamp |-> time, prev_hash |-> prev.hash],
     data |-> length]

BlockCreate(prev, length, time) ==
    [info |-> [index |-> (prev.info.index + 1) % UINT32, difficulty |-> 0, nonce |-> 0,
               timestamp |-> time, prev_hash |-> prev.hash],
     data |-> IF length > BLOCKCHAIN_DATA_MAX THEN BLOCKCHAIN_DATA_MAX ELSE length]

(* Version 0.2 checks the work as well. *)
BlockIsValid(m, block, prev) ==
    IF block.info.index = 0 THEN block = GenesisBlock
    ELSE /\ block.info.index = (prev.info.index + 1) % UINT32
         /\ BlockHash(Order[m], prev) = prev.hash
         /\ block.info.prev_hash = prev.hash
         /\ BlockHash(Order[m], block) = block.hash
         /\ block.data <= BLOCKCHAIN_DATA_MAX
         /\ Version[m] = "0.2" =>
                HashMatchesDifficulty(block.hash, block.info.difficulty)

(* block_mine: the first nonce whose hash matches. *)
MatchingNonces(order, block) ==
    {nonce \in 0..MaxNonce :
        HashMatchesDifficulty(BlockHash(order, [block EXCEPT !.info.nonce = nonce]),
                              block.info.difficulty)}

(* Variant: the nonce that was found is not kept in the block. *)
BlockMine_NonceLost(order, block) ==
    LET found == [block EXCEPT !.info.nonce = Min(MatchingNonces(order, block))]
    IN  [info |-> block.info, data |-> block.data, hash |-> BlockHash(order, found)]

BlockMine(order, block) ==
    LET found == [block EXCEPT !.info.nonce = Min(MatchingNonces(order, block))]
    IN  [info |-> found.info, data |-> found.data, hash |-> BlockHash(order, found)]

-----------------------------------------------------------------------------
(* Byte order. A number of a machine of the other order is read with its    *)
(* bytes reversed.                                                          *)

Reversed32(x) ==
    LET x1 == x \div BYTE
        x2 == x1 \div BYTE
        x3 == x2 \div BYTE
    IN  (((x % BYTE) * BYTE + (x1 % BYTE)) * BYTE + (x2 % BYTE)) * BYTE + (x3 % BYTE)

Reversed64(x) == Reversed32(x % UINT32) * UINT32 + Reversed32(x \div UINT32)

(* SWAPENDIAN32: of a 64-bit field it keeps the lower half. *)
Swapped(x) == Reversed32(x % UINT32)

-----------------------------------------------------------------------------
(* The file: the values handed to write(), in order.                        *)

NULL   == [status |-> "null", blocks |-> <<>>]
NoList == [status |-> "no_list", blocks |-> <<>>]
List(blocks) == [status |-> "list", blocks |-> blocks]

(* llist_size of a list that is NULL is -1. *)
Count(c) == IF c.status = "list" THEN Len(c.blocks) ELSE UINT32 - 1

BlockItems(block) == <<block.info, block.data, "data", block.hash>>

WholeItems(m, c) ==
    <<"HBLK", Version[m], Order[m], Count(c)>>
       \o [n \in 1..(4 * Len(c.blocks)) |->
             BlockItems(c.blocks[(n + 3) \div 4])[((n - 1) % 4) + 1]]

(* An item of which the file holds a part only is read like one it does not *)
(* hold: read() returns less than was asked for.                            *)
Cuts(items) == {SubSeq(items, 1, n) : n \in 0..Len(items)}

ReadInfo(info, foreign) ==
    IF ~foreign THEN info
    ELSE [index      |-> Swapped(Reversed32(info.index)),
          difficulty |-> Swapped(Reversed32(info.difficulty)),
          timestamp  |-> Swapped(Reversed64(info.timestamp)),
          nonce      |-> Swapped(Reversed64(info.nonce)),
          prev_hash  |-> info.prev_hash]

ReadBlock(items, b, foreign) ==
    LET at(n) == items[4 * b + n]
        len   == IF foreign THEN Swapped(Reversed32(at(2))) ELSE at(2)
    IN  [info |-> ReadInfo(at(1), foreign), data |-> len, hash |-> at(4)]

(* Variant: a file that ends early gives the blocks that are there. *)
Blocks_UpToEnd(items, size, foreign) ==
    LET there == (Len(items) \div 4) - 1
    IN  List([b \in 1..(IF size < there THEN size ELSE there) |->
                ReadBlock(items, b, foreign)])

(* Variant: the blocks read before one that fails are not released. *)
Blocks_KeptOnFailure(items, size, foreign) ==
    LET there == (Len(items) \div 4) - 1
        read  == List([b \in 1..(IF size < there THEN size ELSE there) |->
                         ReadBlock(items, b, foreign)])
    IN  IF size <= there THEN read ELSE [read EXCEPT !.status = "no_list"]

(* All blocks or, when one cannot be read, no list. *)
Blocks(items, size, foreign) ==
    IF Len(items) >= 4 + 4 * size
    THEN List([b \in 1..size |-> ReadBlock(items, b, foreign)])
    ELSE NoList

HeaderRead(m, f) ==
    Len(f.items) >= 4 /\ f.items[1] = "HBLK" /\ f.items[2] = Version[m]

(* Variant: the number of blocks that follow the first. *)
Deserialize_OneLess(m, f) ==
    IF ~HeaderRead(m, f) THEN NULL
    ELSE Blocks(f.items, f.items[4] - 1, f.items[3] # Order[m])

(* The number of blocks is not swapped. A blockchain whose blocks could not *)
(* be read is returned without a list.                                      *)
Deserialize(m, f) ==
    IF ~HeaderRead(m, f) THEN NULL
    ELSE LET size == IF f.order = Order[m] THEN f.items[4] ELSE Reversed32(f.items[4])
         IN  Blocks(f.items, size, f.items[3] # Order[m])

-----------------------------------------------------------------------------
Init ==
    /\ chain = [m \in Machines |-> NULL]
    /\ file \in FirstFiles

BlockchainCreate(m) ==
    /\ chain' = [chain EXCEPT ![m] = List(<<GenesisBlock>>)]
    /\ UNCHANGED file

Last(m) == chain[m].blocks[Len(chain[m].blocks)]

Extensible(m) ==
    chain[m].status = "list" /\ Len(chain[m].blocks) \in 1..(MaxBlocks - 1)

(* A program of version 0.1 creates a block, hashes it and adds it. *)
AddBlock(m, length, time) ==
    /\ Version[m] = "0.1"
    /\ Extensible(m)
    /\ LET draft == BlockCreate(Last(m), length, time)
           block == [info |-> draft.info, data |-> draft.data,
                     hash |-> BlockHash(Order[m], draft)]
       IN  chain' = [chain EXCEPT ![m].blocks = Append(@, block)]
    /\ UNCHANGED file

(* One of version 0.2 gives it the difficulty of the chain, mines it, and   *)
(* adds it when it is valid.                                                *)
Draft(m, length, time) ==
    [BlockCreate(Last(m), length, time)
        EXCEPT !.info.difficulty = BlockchainDifficulty(chain[m].blocks)]

CanMine(m, length, time) ==
    /\ Version[m] = "0.2"
    /\ Extensible(m)
    /\ MatchingNonces(Order[m], Draft(m, length, time)) # {}

MineBlock(m, length, time) ==
    /\ CanMine(m, length, time)
    /\ LET block == BlockMine(Order[m], Draft(m, length, time))
       IN  /\ BlockIsValid(m, block, Last(m))
           /\ chain' = [chain EXCEPT ![m].blocks = Append(@, block)]
    /\ UNCHANGED file

(* No result of write() is looked at. *)
BlockchainSerialize(m) ==
    /\ chain[m].status # "null"
    /\ LET items == WholeItems(m, chain[m])
       IN  file' \in [order : {Order[m]},
                      items : {items} \cup (IF DiskFills THEN Cuts(items) ELSE {})]
    /\ UNCHANGED chain

BlockchainDeserialize(m) ==
    /\ chain' = [chain EXCEPT ![m] = Deserialize(m, file)]
    /\ UNCHANGED file

Next ==
    \E m \in Machines :
        \/ BlockchainCreate(m)
        \/ \E length \in Lengths, time \in Times :
              AddBlock(m, length, time) \/ MineBlock(m, length, time)
        \/ BlockchainSerialize(m)
        \/ BlockchainDeserialize(m)

Spec == Init /\ [][Next]_vars

-----------------------------------------------------------------------------
TypeOK ==
    /\ \A m \in Machines :
          /\ chain[m].status \in {"null", "no_list", "list"}
          /\ chain[m].status = "list" <=> Len(chain[m].blocks) > 0
          /\ \A b \in 1..Len(chain[m].blocks) :
                 /\ chain[m].blocks[b].info.index \in 0..(UINT32 - 1)
                 /\ chain[m].blocks[b].data \in 0..(UINT32 - 1)
    /\ file.order \in {"little", "big"}

(* On a machine of the same byte order and version blockchain_deserialize   *)
(* gives back every chain that blockchain_serialize wrote whole, also one   *)
(* that was itself loaded before.                                           *)
RoundTrip ==
    \A m \in Machines :
        chain[m].status = "list" =>
            Deserialize(m, [order |-> Order[m], items |-> WholeItems(m, chain[m])])
                = chain[m]

(* What blockchain_deserialize returns with a list is the whole chain the   *)
(* file holds. A file that ends early gives no list, one of the other       *)
(* version nothing at all, and neither gives one of the other byte order a  *)
(* list, of which the 64-bit fields would be wrong: its number of blocks is *)
(* read so large that the file seems to end early, as long as the number is *)
(* below BYTE * BYTE.                                                       *)
LoadedIsWhole ==
    [][\A m \in Machines :
          BlockchainDeserialize(m) /\ chain'[m].status = "list" =>
              file = [order |-> Order[m], items |-> WholeItems(m, chain'[m])]]_vars

(* Every block in the memory of a little-endian machine is accepted by      *)
(* block_is_valid after the one before it, whichever of them were loaded:   *)
(* a save keeps everything that is hashed. (On a big-endian machine no      *)
(* block after the genesis block is: GENESIS_HASH is not its hash there.)   *)
ChainsValid ==
    \A m \in Machines : Order[m] = "little" =>
        \A b \in 1..Len(chain[m].blocks) :
            BlockIsValid(m, chain[m].blocks[b],
                         chain[m].blocks[IF b = 1 THEN 1 ELSE b - 1])

(* On such a machine the block that version 0.2 mines next is valid,        *)
(* whatever machine mined the chain it goes on from: the nonce, the hash    *)
(* and the difficulty belong together, and the data is not too long.        *)
MinedIsValid ==
    \A m \in Machines, length \in Lengths, time \in Times :
        Order[m] = "little" /\ CanMine(m, length, time) =>
            BlockIsValid(m, BlockMine(Order[m], Draft(m, length, time)), Last(m))

=============================================================================
