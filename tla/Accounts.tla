------------------------------ MODULE Accounts ------------------------------
(***************************************************************************)
(* What a session of the client promises its user, without a word about    *)
(* outputs, digests or signatures: keys with balances and payments between *)
(* them. A payment is accepted only if the balance covers it besides all   *)
(* payments already pending, and the next block settles all of them at     *)
(* once, each one once. Module Cli implements it with a list of unspent    *)
(* outputs.                                                                *)
(***************************************************************************)
EXTENDS Integers, Sequences

CONSTANTS
    Keys,
    NoKey,
    COINBASE_AMOUNT

VARIABLES
    user,      \* the key in use, or NoKey
    blocks,    \* how many blocks were mined
    balance,   \* the coins of each key
    pending    \* the payments the next block settles

vars == <<user, blocks, balance, pending>>

Nothing ==
    /\ user = NoKey
    /\ blocks = 0
    /\ balance = [key \in Keys |-> 0]
    /\ pending = <<>>

Init == Nothing

-----------------------------------------------------------------------------
(* The sum of what is counted of each pending payment. *)
Total(counted) ==
    LET sum[p \in 0..Len(pending)] ==
          IF p = 0 THEN 0 ELSE sum[p - 1] + counted[p]
    IN  sum[Len(pending)]

Leaving(key) ==
    Total([p \in 1..Len(pending) |->
             IF pending[p].from = key THEN pending[p].amount ELSE 0])
Arriving(key) ==
    Total([p \in 1..Len(pending) |->
             IF pending[p].to = key THEN pending[p].amount ELSE 0])

UseKey ==
    /\ user' \in Keys \cup {NoKey}
    /\ UNCHANGED <<blocks, balance, pending>>

Pay ==
    /\ user \in Keys
    /\ \E receiver \in Keys, amount \in 1..(balance[user] - Leaving(user)) :
          pending' = Append(pending, [from |-> user, to |-> receiver, amount |-> amount])
    /\ UNCHANGED <<user, blocks, balance>>

(* Who mines the block gets its coinbase. *)
Settle ==
    /\ user \in Keys
    /\ blocks' = blocks + 1
    /\ balance' = [key \in Keys |->
          balance[key] - Leaving(key) + Arriving(key)
            + IF key = user THEN COINBASE_AMOUNT ELSE 0]
    /\ pending' = <<>>
    /\ UNCHANGED user

(* The process ends; nothing was saved. *)
Restart == Nothing'

Next == UseKey \/ Pay \/ Settle \/ Restart

Spec == Init /\ [][Next]_vars

=============================================================================
