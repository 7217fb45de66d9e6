---------------------------- MODULE Persistence ----------------------------
(***************************************************************************)
(* save and load one write and one read at a time (blockchain_serialize    *)
(* and blockchain_deserialize of blockchain/v0.3, with the handlers of the *)
(* client), on a disk that may fill up and in a process that may stop.     *)
(***************************************************************************)
EXTENDS FileFormat

CONSTANTS
    Genesis,      \* the ledger of a new process
    FirstFiles,   \* what the file may hold at first
    Counts,       \* bound: what a count that could not be read may be
    Garbage,      \* any other value that could not be read
    DiskFills,    \* whether a write may fail
    ProcessStops  \* whether the process may be stopped during a command

(* The structures of blockchain.h and transaction.h: lists, and a block of  *)
(* index 0 without a list of transactions.                                  *)
IsList(list) == Len(list) \in Nat /\ list = [n \in 1..Len(list) |-> list[n]]

IsTransaction(x) ==
    /\ x = [id |-> x.id, inputs |-> x.inputs, outputs |-> x.outputs]
    /\ IsList(x.inputs) /\ IsList(x.outputs)

IsBlock(b) ==
    /\ b = [info |-> b.info, data_len |-> b.data_len, data |-> b.data, hash |-> b.hash,
            listed |-> b.listed, transactions |-> b.transactions]
    /\ IsList(b.transactions)
    /\ \A n \in 1..Len(b.transactions) : IsTransaction(b.transactions[n])
    /\ b.listed \in BOOLEAN
    /\ b.info.index = 0 => ~b.listed
    /\ ~b.listed => b.transactions = <<>>

IsLedger(ledger) ==
    /\ ledger = [chain |-> ledger.chain, unspent |-> ledger.unspent]
    /\ IsList(ledger.chain) /\ IsList(ledger.unspent)
    /\ \A n \in 1..Len(ledger.chain) : IsBlock(ledger.chain[n])

ASSUME PersistenceAssumption ==
    /\ \A ledger \in Ledgers : IsLedger(ledger)
    /\ Genesis \in Ledgers
    /\ Counts \subseteq Int
    /\ DiskFills \in BOOLEAN
    /\ ProcessStops \in BOOLEAN

VARIABLES
    pc,       \* "idle", where save or load is, or "stopped"
    ret,      \* what the last command returned
    memory,   \* the blockchain of the client
    exists,   \* whether the file exists
    file,     \* its items
    lost,     \* whether the save under way could not write something
    out,      \* save: the items the current turn of a loop still writes
    i, t, j,  \* save: the block or unspent output, transaction, input or output
    pos,      \* load: the item read next
    head,     \* load: the header
    part,     \* load: the blockchain built so far
    block,    \* load: the block that is read, and its number of transactions
    tx        \* load: the transaction that is read, and its two counts

saving == <<lost, out, i, t, j>>
loading == <<pos, head, part, block, tx>>
vars == <<pc, ret, memory, exists, file, saving, loading>>

None == [none |-> TRUE]

(* Neither save nor load is running: their variables do not exist. *)
NoSave == lost = FALSE /\ out = <<>> /\ i = 1 /\ t = 1 /\ j = 1
NoLoad == pos = 1 /\ head = None /\ part = None /\ block = None /\ tx = None

(* They return, or their process stops. *)
Ends(how) ==
    /\ pc' = how
    /\ lost' = FALSE /\ out' = <<>> /\ i' = 1 /\ t' = 1 /\ j' = 1
    /\ pos' = 1 /\ head' = None /\ part' = None /\ block' = None /\ tx' = None

Init ==
    /\ pc = "idle"
    /\ ret = 0
    /\ memory = Genesis
    /\ exists \in BOOLEAN
    /\ IF exists THEN file \in FirstFiles ELSE file = <<>>
    /\ NoSave
    /\ NoLoad

Return(value) == Ends("idle") /\ ret' = value

(* Any other command; mine and load change the blockchain. *)
Work ==
    /\ pc = "idle"
    /\ memory' \in Ledgers
    /\ UNCHANGED <<pc, ret, exists, file, saving, loading>>

-----------------------------------------------------------------------------
(* save.                                                                    *)

(* The path cannot be opened for writing. *)
SaveFails ==
    /\ pc = "idle"
    /\ Return(-1)
    /\ UNCHANGED <<memory, exists, file>>

(* Variant: the old contents stay behind what is written. *)
SaveOpens_NotTruncated ==
    /\ pc = "idle" /\ pc' = "save_block"
    /\ memory \in Ledgers
    /\ exists' = TRUE
    /\ out' = <<HeaderItem(memory)>>
    /\ UNCHANGED <<ret, memory, file, lost, i, t, j, loading>>

(* open() truncates. Bound: a blockchain with values that could not be read *)
(* is not saved again.                                                      *)
SaveOpens ==
    /\ pc = "idle" /\ pc' = "save_block"
    /\ memory \in Ledgers
    /\ exists' = TRUE
    /\ file' = <<>>
    /\ out' = <<HeaderItem(memory)>>
    /\ UNCHANGED <<ret, memory, lost, i, t, j, loading>>

(* One write(). Its result is not looked at: once the disk is full the rest *)
(* is lost, and the item that filled it may be there in part.               *)
Write ==
    /\ out # <<>> /\ out' = Tail(out)
    /\ \/ ~lost /\ file' = Append(file, Head(out)) /\ UNCHANGED lost
       \/ DiskFills /\ ~lost /\ file' \in {file, Append(file, Torn)} /\ lost' = TRUE
       \/ lost /\ UNCHANGED <<file, lost>>
    /\ UNCHANGED <<pc, ret, memory, exists, i, t, j, loading>>

Writes(items, next) ==
    /\ out = <<>> /\ out' = items
    /\ pc' = next
    /\ UNCHANGED <<ret, memory, exists, file, lost, loading>>

SaveBlock ==
    /\ pc = "save_block" /\ i <= Len(memory.chain)
    /\ Writes(BlockItems(memory.chain[i]), "save_transaction")
    /\ t' = 1
    /\ UNCHANGED <<i, j>>

Transactions == memory.chain[i].transactions

SaveTransaction ==
    /\ pc = "save_transaction" /\ t <= Len(Transactions)
    /\ Writes(TransactionItems(Transactions[t]), "save_inputs")
    /\ j' = 1
    /\ UNCHANGED <<i, t>>

SaveInput ==
    /\ pc = "save_inputs" /\ j <= Len(Transactions[t].inputs)
    /\ Writes(<<InputItem(Transactions[t].inputs[j])>>, pc)
    /\ j' = j + 1
    /\ UNCHANGED <<i, t>>

InputsSaved ==
    /\ pc = "save_inputs" /\ j > Len(Transactions[t].inputs)
    /\ Writes(<<>>, "save_outputs")
    /\ j' = 1
    /\ UNCHANGED <<i, t>>

SaveOutput ==
    /\ pc = "save_outputs" /\ j <= Len(Transactions[t].outputs)
    /\ Writes(<<OutputItem(Transactions[t].outputs[j])>>, pc)
    /\ j' = j + 1
    /\ UNCHANGED <<i, t>>

OutputsSaved ==
    /\ pc = "save_outputs" /\ j > Len(Transactions[t].outputs)
    /\ Writes(<<>>, "save_transaction")
    /\ t' = t + 1
    /\ UNCHANGED <<i, j>>

TransactionsSaved ==
    /\ pc = "save_transaction" /\ t > Len(Transactions)
    /\ Writes(<<>>, "save_block")
    /\ i' = i + 1
    /\ UNCHANGED <<t, j>>

(* Variant: the index is not reset for the unspent outputs. *)
BlocksSaved_IndexKept ==
    /\ pc = "save_block" /\ i > Len(memory.chain)
    /\ Writes(<<>>, "save_unspent")
    /\ UNCHANGED <<i, t, j>>

BlocksSaved ==
    /\ pc = "save_block" /\ i > Len(memory.chain)
    /\ Writes(<<>>, "save_unspent")
    /\ i' = 1
    /\ UNCHANGED <<t, j>>

SaveUnspent ==
    /\ pc = "save_unspent" /\ i <= Len(memory.unspent)
    /\ Writes(<<UnspentItem(memory.unspent[i])>>, pc)
    /\ i' = i + 1
    /\ UNCHANGED <<t, j>>

(* Also when something was lost. *)
SaveReturns ==
    /\ pc = "save_unspent" /\ i > Len(memory.unspent)
    /\ out = <<>>
    /\ Return(0)
    /\ UNCHANGED <<memory, exists, file>>

-----------------------------------------------------------------------------
(* load. An item that is not in the file, or only in part, leaves the place *)
(* it is read into as it was: memory that nothing was written to.           *)

Whole(n) == n <= Len(file) /\ file[n] # Torn
Content(n) == IF Whole(n) THEN file[n][2] ELSE Garbage
Count(n) == IF Whole(n) THEN {file[n][2]} ELSE Counts

(* The path cannot be opened for reading. *)
LoadFails ==
    /\ pc = "idle"
    /\ Return(-1)
    /\ UNCHANGED <<memory, exists, file>>

(* Bound: not from a blockchain with values that could not be read; load    *)
(* does not look at the one it replaces.                                    *)
LoadOpens ==
    /\ pc = "idle" /\ pc' = "load_header"
    /\ exists
    /\ memory \in Ledgers
    /\ UNCHANGED <<ret, memory, exists, file, saving, loading>>

Reads(next) ==
    /\ pc' = next
    /\ UNCHANGED <<ret, memory, exists, file, saving>>

(* Magic bytes and version are right. *)
LoadHeader ==
    /\ pc = "load_header"
    /\ Whole(1) => file[1][2].valid
    /\ head' \in IF Whole(1) THEN {file[1][2]}
                 ELSE [valid : {TRUE}, blocks : Counts \cap Nat, unspent : Counts \cap Nat]
    /\ part' = [chain |-> <<>>, unspent |-> <<>>]
    /\ pos' = 2
    /\ Reads("load_block")
    /\ UNCHANGED <<block, tx>>

HeaderRefused ==
    /\ pc = "load_header"
    /\ Whole(1) => ~file[1][2].valid
    /\ Return(-1)
    /\ UNCHANGED <<memory, exists, file>>

LoadBlock ==
    /\ pc = "load_block" /\ Len(part.chain) < head.blocks
    /\ \E count \in Count(pos + 4) :
          block' = [size |-> count, info |-> Content(pos),
                    data_len |-> Content(pos + 1), data |-> Content(pos + 2),
                    hash |-> Content(pos + 3), list |-> <<>>]
    /\ pos' = pos + 5
    /\ Reads("load_transaction")
    /\ UNCHANGED <<head, part, tx>>

LoadTransaction ==
    /\ pc = "load_transaction" /\ Len(block.list) < block.size
    /\ \E ins \in Count(pos + 1), outs \in Count(pos + 2) :
          tx' = [ins |-> ins, outs |-> outs, id |-> Content(pos),
                 inputs |-> <<>>, outputs |-> <<>>]
    /\ pos' = pos + 3
    /\ Reads("load_lists")
    /\ UNCHANGED <<head, part, block>>

LoadInput ==
    /\ pc = "load_lists" /\ Len(tx.inputs) < tx.ins
    /\ tx' = [tx EXCEPT !.inputs = Append(@, Content(pos))]
    /\ pos' = pos + 1
    /\ Reads(pc)
    /\ UNCHANGED <<head, part, block>>

(* Variant: as many outputs are read as there are inputs. *)
LoadOutput_CountOfInputs ==
    /\ pc = "load_lists" /\ Len(tx.inputs) >= tx.ins
    /\ Len(tx.outputs) < tx.ins
    /\ tx' = [tx EXCEPT !.outputs = Append(@, Content(pos))]
    /\ pos' = pos + 1
    /\ Reads(pc)
    /\ UNCHANGED <<head, part, block>>

LoadOutput ==
    /\ pc = "load_lists" /\ Len(tx.inputs) >= tx.ins
    /\ Len(tx.outputs) < tx.outs
    /\ tx' = [tx EXCEPT !.outputs = Append(@, Content(pos))]
    /\ pos' = pos + 1
    /\ Reads(pc)
    /\ UNCHANGED <<head, part, block>>

AddTransaction ==
    /\ pc = "load_lists"
    /\ Len(tx.inputs) >= tx.ins /\ Len(tx.outputs) >= tx.outs
    /\ block' = [block EXCEPT !.list =
                   Append(@, [id |-> tx.id, inputs |-> tx.inputs, outputs |-> tx.outputs])]
    /\ tx' = None
    /\ Reads("load_transaction")
    /\ UNCHANGED <<pos, head, part>>

LoadedBlock ==
    [info |-> block.info, data_len |-> block.data_len, data |-> block.data,
     hash |-> block.hash, listed |-> block.size # -1, transactions |-> block.list]

(* Variant: the loop over the transactions ends at the count only. *)
AddBlock_ExactSize ==
    /\ pc = "load_transaction" /\ Len(block.list) = block.size
    /\ part' = [part EXCEPT !.chain = Append(@, LoadedBlock)]
    /\ block' = None
    /\ Reads("load_block")
    /\ UNCHANGED <<pos, head, tx>>

AddBlock ==
    /\ pc = "load_transaction" /\ Len(block.list) >= block.size
    /\ part' = [part EXCEPT !.chain = Append(@, LoadedBlock)]
    /\ block' = None
    /\ Reads("load_block")
    /\ UNCHANGED <<pos, head, tx>>

LoadUnspent ==
    /\ pc = "load_block" /\ Len(part.chain) >= head.blocks
    /\ Len(part.unspent) < head.unspent
    /\ part' = [part EXCEPT !.unspent = Append(@, Content(pos))]
    /\ pos' = pos + 1
    /\ Reads(pc)
    /\ UNCHANGED <<head, block, tx>>

(* The blockchain in use is replaced. *)
LoadReturns ==
    /\ pc = "load_block" /\ Len(part.chain) >= head.blocks
    /\ Len(part.unspent) >= head.unspent
    /\ memory' = part
    /\ Return(0)
    /\ UNCHANGED <<exists, file>>

(* A count that is not in the file is so large that the memory runs out.    *)
LoadExhausts ==
    /\ \/ pc = "load_header" /\ ~Whole(1)
       \/ pc = "load_block" /\ Len(part.chain) < head.blocks /\ ~Whole(pos + 4)
       \/ pc = "load_transaction" /\ Len(block.list) < block.size /\ ~Whole(pos + 2)
    /\ Ends("stopped")
    /\ memory' = Genesis
    /\ UNCHANGED <<ret, exists, file>>

-----------------------------------------------------------------------------
(* The process is stopped, and started again.                               *)

Stop ==
    /\ ProcessStops
    /\ pc \notin {"idle", "stopped"}
    /\ Ends("stopped")
    /\ memory' = Genesis
    /\ UNCHANGED <<ret, exists, file>>

Launch ==
    /\ pc = "stopped"
    /\ Return(0)
    /\ UNCHANGED <<memory, exists, file>>

Saves ==
    \/ Write
    \/ SaveBlock \/ SaveTransaction \/ SaveInput \/ InputsSaved
    \/ SaveOutput \/ OutputsSaved \/ TransactionsSaved
    \/ BlocksSaved \/ SaveUnspent \/ SaveReturns

Loads ==
    \/ LoadHeader \/ HeaderRefused
    \/ LoadBlock \/ LoadTransaction \/ LoadInput \/ LoadOutput
    \/ AddTransaction \/ AddBlock
    \/ LoadUnspent \/ LoadReturns \/ LoadExhausts

Next ==
    \/ Work
    \/ SaveFails \/ SaveOpens \/ Saves
    \/ LoadFails \/ LoadOpens \/ Loads
    \/ Stop \/ Launch

(* The handler is the only thing the process runs: once begun, it goes on. *)
Spec == Init /\ [][Next]_vars /\ WF_vars(Saves) /\ WF_vars(Loads)

-----------------------------------------------------------------------------
Saving == pc \in {"save_block", "save_transaction", "save_inputs", "save_outputs",
                  "save_unspent"}
Loading == pc \in {"load_header", "load_block", "load_transaction", "load_lists"}

TypeOK ==
    /\ Saving \/ Loading \/ pc \in {"idle", "stopped"}
    /\ ret \in {-1, 0}
    /\ exists \in BOOLEAN /\ lost \in BOOLEAN
    /\ Saving => memory \in Ledgers
    /\ pc \in {"save_block", "save_transaction", "save_inputs", "save_outputs"}
          => i \in 1..(Len(memory.chain) + 1)
    /\ pc \in {"save_transaction", "save_inputs", "save_outputs"}
          => t \in 1..(Len(Transactions) + 1)
    /\ pc = "save_inputs" => j \in 1..(Len(Transactions[t].inputs) + 1)
    /\ pc = "save_outputs" => j \in 1..(Len(Transactions[t].outputs) + 1)
    /\ pc = "save_unspent" => i \in 1..(Len(memory.unspent) + 1)
    /\ ~Saving => NoSave
    /\ ~Loading => NoLoad

(* save and load do what Store says. save writes every item once and in the *)
(* order load reads them, whatever the file held before; what a failed save *)
(* leaves is a beginning of that; and the counts load reads make its loops  *)
(* end where those of save did, so that a whole file gives the ledger that  *)
(* was saved, also after saves that failed or were stopped.                 *)
S == INSTANCE Store WITH
       doing  <- IF Saving THEN (IF lost THEN "failed" ELSE "save")
                 ELSE IF Loading THEN "load" ELSE pc,
       stored <- IF Saving /\ ~lost THEN WholeFile(memory) ELSE file,
       MayFail <- DiskFills \/ ProcessStops
ImplementsStore == S!Spec

(* Whatever fails, and however often the file was written before, it holds  *)
(* at every moment the beginning of one blockchain's file:                  *)
(* blockchain_serialize truncates it, and never mixes two saves.            *)
FileIsBeginning ==
    file \in FirstFiles \/ \E ledger \in Ledgers : file \in Beginnings(WholeFile(ledger))

(* A save that began ends, and so does the load of a complete file, unless  *)
(* the process is stopped: the loops of blockchain_deserialize end, also    *)
(* the one over the transactions of a block that has no list of them.       *)
CommandsEnd ==
    Saving \/ (Loading /\ \E ledger \in Ledgers : file = WholeFile(ledger))
        ~> pc \in {"idle", "stopped"}

(* cli/README.md, load of an invalid file: "An error message should be      *)
(* displayed, and no Blockchain should be loaded". Here the header is valid *)
(* and what follows is not complete.                                        *)
LoadRefusesBroken ==
    [][Loading /\ Whole(1) /\ pc' = "idle" /\ ret' = 0
          => \E ledger \in Ledgers : file = WholeFile(ledger)]_vars

=============================================================================
