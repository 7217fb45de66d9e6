------------------------------ MODULE Keyring ------------------------------
(***************************************************************************)
(* What wallet_create, wallet_save and wallet_load promise: a folder keeps *)
(* one whole wallet, which is the one that was in use when it was saved,   *)
(* until it is lost; a load releases the wallet in use and gives the one   *)
(* that is kept, and no other.  It gives none only if there is none, or    *)
(* the folder cannot be read at that moment: it still keeps its wallet.    *)
(***************************************************************************)
CONSTANTS
    Keys, NoKey, Folders,
    MayBeUnreadable   \* whether a folder may not be readable when it is asked

VARIABLES
    alive,    \* whether the process runs
    wallet,   \* the pair in use
    kept,     \* what each folder keeps
    asked     \* the folder that is being loaded, if any

Pair(k) == [pub |-> k, priv |-> k]
NoPair == Pair(NoKey)

Init ==
    /\ alive = TRUE
    /\ wallet = NoPair
    /\ kept = [f \in Folders |-> NoPair]
    /\ asked = {}

Free == alive /\ asked = {} /\ UNCHANGED alive

Create ==
    /\ Free /\ wallet' \in {Pair(k) : k \in Keys}
    /\ UNCHANGED <<kept, asked>>

Save(f) ==
    /\ Free /\ kept' = [kept EXCEPT ![f] = wallet]
    /\ UNCHANGED <<wallet, asked>>

(* A save that fails or is interrupted. *)
Lose(f) ==
    /\ Free /\ kept' = [kept EXCEPT ![f] = NoPair]
    /\ UNCHANGED <<wallet, asked>>

Ask(f) ==
    /\ Free /\ asked' = {f} /\ wallet' = NoPair
    /\ UNCHANGED kept

Load(f) ==
    /\ asked = {f} /\ asked' = {}
    /\ kept[f] # NoPair /\ wallet' = kept[f]
    /\ UNCHANGED <<alive, kept>>

LoadFails(f) ==
    /\ asked = {f} /\ asked' = {}
    /\ kept[f] = NoPair \/ MayBeUnreadable
    /\ wallet' = NoPair
    /\ UNCHANGED <<alive, kept>>

End ==
    /\ alive /\ alive' = FALSE
    /\ wallet' = NoPair /\ asked' = {}
    /\ UNCHANGED kept

Launch == ~alive /\ alive' = TRUE /\ UNCHANGED <<wallet, kept, asked>>

Next ==
    \/ Create
    \/ \E f \in Folders : Save(f) \/ Lose(f) \/ Ask(f) \/ Load(f) \/ LoadFails(f)
    \/ End \/ Launch

Spec == Init /\ [][Next]_<<alive, wallet, kept, asked>>

=============================================================================
