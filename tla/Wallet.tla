------------------------------- MODULE Wallet -------------------------------
(***************************************************************************)
(* The wallet and the two files it is saved in, one file operation at a    *)
(* time: ec_save and ec_load (crypto/) under wallet_create, wallet_save    *)
(* and wallet_load.  A disk may be full, a file may not open, and the      *)
(* process may stop between any two operations.                            *)
(***************************************************************************)
EXTENDS Naturals

CONSTANTS
    Keys,         \* key pairs, each named by its private key
    NoKey,        \* no key: no wallet, or half of a pair that is not set
    Folders,
    DiskFills,    \* whether what is written may not get to the disk
    OpenFails,    \* whether a file that exists, or could, may not open
    ProcessStops  \* whether the process may be stopped during a command

ASSUME WalletAssumption ==
    /\ NoKey \notin Keys
    /\ {"none", "broken"} \cap Keys = {}
    /\ DiskFills \in BOOLEAN
    /\ OpenFails \in BOOLEAN
    /\ ProcessStops \in BOOLEAN

VARIABLES
    pc,      \* "idle", "stopped", "crashed", or where ec_save or ec_load is
    ret,     \* what the last ec_save or ec_load returned: 1, or 0 for failure
    wallet,  \* the pair in use: the key each of its halves belongs to
    priv,    \* key.pem of each folder: a key, "none" or "broken"
    pub,     \* key_pub.pem of each folder
    folder,  \* the argument of the command
    key      \* ec_load: the pair that is read

vars == <<pc, ret, wallet, priv, pub, folder, key>>
files == <<priv, pub>>

Pair(k) == [pub |-> k, priv |-> k]
NoPair == Pair(NoKey)

Init ==
    /\ pc = "idle"
    /\ ret = 1
    /\ wallet = NoPair
    /\ priv = [f \in Folders |-> "none"]
    /\ pub = [f \in Folders |-> "none"]
    /\ folder \in Folders
    /\ key = NoPair

Goto(from, to) == pc = from /\ pc' = to

Create ==
    /\ pc = "idle"
    /\ wallet' \in {Pair(k) : k \in Keys}
    /\ UNCHANGED <<pc, ret, files, folder, key>>

-----------------------------------------------------------------------------
(* ec_save: the private key, then the public key. fopen truncates; what is  *)
(* written is buffered and reaches the file when it is closed.              *)

(* Variant: without a wallet. *)
Save_AnyWallet(f) ==
    /\ Goto("idle", "open_priv")
    /\ folder' = f
    /\ UNCHANGED <<ret, wallet, files, key>>

Save(f) ==
    /\ Goto("idle", "open_priv")
    /\ wallet # NoPair
    /\ folder' = f
    /\ UNCHANGED <<ret, wallet, files, key>>

(* The folder does not exist and cannot be made. *)
MkdirFails ==
    /\ Goto("open_priv", "idle")
    /\ OpenFails
    /\ priv[folder] = "none" /\ pub[folder] = "none"
    /\ ret' = 0
    /\ UNCHANGED <<wallet, files, folder, key>>

OpenPriv ==
    /\ Goto("open_priv", "close_priv")
    /\ priv' = [priv EXCEPT ![folder] = "broken"]
    /\ UNCHANGED <<ret, wallet, pub, folder, key>>

(* The key is not written: the file stays truncated. *)
WriteFails ==
    /\ DiskFills
    /\ ret' = 0
    /\ UNCHANGED <<wallet, files, folder, key>>

WritePrivFails == Goto("close_priv", "idle") /\ WriteFails

(* The result of fclose is not looked at. *)
ClosePriv ==
    /\ Goto("close_priv", "open_pub")
    /\ \/ priv' = [priv EXCEPT ![folder] = wallet.priv]
       \/ DiskFills /\ UNCHANGED priv
    /\ UNCHANGED <<ret, wallet, pub, folder, key>>

OpenPub ==
    /\ Goto("open_pub", "close_pub")
    /\ pub' = [pub EXCEPT ![folder] = "broken"]
    /\ UNCHANGED <<ret, wallet, priv, folder, key>>

WritePubFails == Goto("close_pub", "idle") /\ WriteFails

ClosePub ==
    /\ Goto("close_pub", "idle")
    /\ \/ pub' = [pub EXCEPT ![folder] = wallet.pub]
       \/ DiskFills /\ UNCHANGED pub
    /\ ret' = 1
    /\ UNCHANGED <<wallet, priv, folder, key>>

(* The process ends, and its memory is gone. *)
ProcessEnds(how) ==
    /\ pc' = how
    /\ wallet' = NoPair
    /\ key' = NoPair
    /\ UNCHANGED <<ret, files, folder>>

(* A file does not open: the NULL of fopen is passed to fclose. *)
OpenCrashes ==
    /\ OpenFails
    /\ pc \in {"open_priv", "open_pub"}
    /\ ProcessEnds("crashed")

-----------------------------------------------------------------------------
(* ec_load: the public key, then the private key. The wallet in use is      *)
(* released first.                                                          *)

Load(f) ==
    /\ Goto("idle", "load_pub")
    /\ wallet' = NoPair
    /\ folder' = f
    /\ UNCHANGED <<ret, files, key>>

LoadFails ==
    /\ pc' = "idle"
    /\ ret' = 0
    /\ key' = NoPair
    /\ UNCHANGED <<wallet, files, folder>>

LoadPub ==
    /\ Goto("load_pub", "load_priv")
    /\ pub[folder] \in Keys
    /\ key' = [key EXCEPT !.pub = pub[folder]]
    /\ UNCHANGED <<ret, wallet, files, folder>>

(* Variant: the private key is read all the same. *)
LoadPubFails_Ignored ==
    /\ Goto("load_pub", "load_priv")
    /\ pub[folder] \notin Keys
    /\ UNCHANGED <<ret, wallet, files, folder, key>>

(* The file does not open, although it may hold a key, or holds none. *)
LoadPubFails ==
    /\ pc = "load_pub"
    /\ pub[folder] \notin Keys \/ OpenFails
    /\ LoadFails

(* Variant: the public key stays the one that was read before. *)
LoadPriv_PublicKept ==
    /\ Goto("load_priv", "idle")
    /\ priv[folder] \in Keys
    /\ wallet' = [key EXCEPT !.priv = priv[folder]]
    /\ ret' = 1
    /\ key' = NoPair
    /\ UNCHANGED <<files, folder>>

(* A private key file holds both halves: the pair read from it replaces the *)
(* one that was begun.                                                      *)
LoadPriv ==
    /\ Goto("load_priv", "idle")
    /\ priv[folder] \in Keys
    /\ wallet' = Pair(priv[folder])
    /\ ret' = 1
    /\ key' = NoPair
    /\ UNCHANGED <<files, folder>>

LoadPrivFails ==
    /\ pc = "load_priv"
    /\ priv[folder] \notin Keys \/ OpenFails
    /\ LoadFails

-----------------------------------------------------------------------------
Stop ==
    /\ ProcessStops
    /\ pc \notin {"stopped", "crashed"}
    /\ ProcessEnds("stopped")

Launch ==
    /\ pc \in {"stopped", "crashed"} /\ pc' = "idle"
    /\ UNCHANGED <<ret, wallet, files, folder, key>>

Next ==
    \/ Create
    \/ \E f \in Folders : Save(f) \/ Load(f)
    \/ MkdirFails
    \/ OpenPriv \/ WritePrivFails \/ ClosePriv
    \/ OpenPub \/ WritePubFails \/ ClosePub
    \/ OpenCrashes
    \/ LoadPub \/ LoadPubFails \/ LoadPriv \/ LoadPrivFails
    \/ Stop \/ Launch

Spec == Init /\ [][Next]_vars

-----------------------------------------------------------------------------
Contents == Keys \cup {"none", "broken"}
Saving == pc \in {"open_priv", "close_priv", "open_pub", "close_pub"}

TypeOK ==
    /\ pc \in {"idle", "stopped", "crashed", "load_pub", "load_priv"} \/ Saving
    /\ ret \in {0, 1}
    /\ wallet \in [pub : Keys \cup {NoKey}, priv : Keys \cup {NoKey}]
    /\ key \in [pub : Keys \cup {NoKey}, priv : Keys \cup {NoKey}]
    /\ priv \in [Folders -> Contents]
    /\ pub \in [Folders -> Contents]
    /\ folder \in Folders
    /\ Saving => wallet.priv \in Keys

(* The halves of the wallet belong together, also when it was loaded from a *)
(* folder in which a save of another wallet was interrupted after its first *)
(* file: otherwise the client would sign with one key and be paid to        *)
(* another.                                                                 *)
HalvesMatch == wallet.pub = wallet.priv

(* Whatever fails, a folder gives back the whole wallet of a save that was  *)
(* begun, or nothing, and keeps what it had when it only could not be read: *)
(* ec_save and ec_load implement Keyring. A folder keeps a wallet if both   *)
(* files hold a key.  The wallet in use is gone from the moment a load      *)
(* begins (handle_wallet_load), also when the load then fails.              *)
Kept(f) == IF priv[f] \in Keys /\ pub[f] \in Keys THEN Pair(priv[f]) ELSE NoPair
Ring == INSTANCE Keyring WITH
          alive <- pc \notin {"stopped", "crashed"},
          kept  <- [f \in Folders |-> Kept(f)],
          asked <- IF pc \in {"load_pub", "load_priv"} THEN {folder} ELSE {},
          MayBeUnreadable <- OpenFails
ImplementsKeyring == Ring!Spec

=============================================================================
