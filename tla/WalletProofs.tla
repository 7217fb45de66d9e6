---------------------------- MODULE WalletProofs ----------------------------
(***************************************************************************)
(* The halves of a wallet always belong together, and ec_save and ec_load  *)
(* implement Keyring, for every set of keys and folders, whatever file does *)
(* not open, whatever write fails or is lost, and wherever it stops.       *)
(***************************************************************************)
EXTENDS Wallet, TLAPS

(* While a save is past the private key, its file holds the key of the      *)
(* wallet or nothing that can be read.                                      *)
PrivateFirst ==
    /\ pc = "close_priv" => priv[folder] = "broken"
    /\ pc \in {"open_pub", "close_pub"} => priv[folder] \in {wallet.priv, "broken"}

(* A load reaches the private key only if the public key was there. *)
PublicFirst == pc = "load_priv" => pub[folder] \in Keys

(* During a load there is no wallet. *)
Released == pc \in {"load_pub", "load_priv"} => wallet = NoPair

(* The inductive invariant. *)
IInv == TypeOK /\ HalvesMatch /\ PrivateFirst /\ PublicFirst /\ Released

(* It holds of the files and the process at first. *)
LEMMA InitIInv == Init => IInv
  BY WalletAssumption DEF Init, IInv, TypeOK, HalvesMatch, PrivateFirst, PublicFirst, Released,
     Saving, Contents, Pair, NoPair

(* ec_save and its steps. *)
LEMMA SaveIInv ==
  ASSUME IInv,
         \/ \E f \in Folders : Save(f)
         \/ MkdirFails
         \/ OpenPriv \/ WritePrivFails \/ ClosePriv
         \/ OpenPub \/ WritePubFails \/ ClosePub
  PROVE  IInv'
<1> USE WalletAssumption DEF IInv, TypeOK, HalvesMatch, PrivateFirst, PublicFirst, Released,
        Saving, Contents, Goto, files
<1>1. CASE \E f \in Folders : Save(f)
  BY <1>1 DEF Save, Pair, NoPair
<1>2. CASE MkdirFails
  BY <1>2 DEF MkdirFails
<1>3. CASE OpenPriv
  BY <1>3 DEF OpenPriv
<1>4. CASE ClosePriv
  BY <1>4 DEF ClosePriv
<1>5. CASE OpenPub
  BY <1>5 DEF OpenPub
<1>6. CASE ClosePub
  BY <1>6 DEF ClosePub
<1>7. CASE WritePrivFails \/ WritePubFails
  BY <1>7 DEF WritePrivFails, WritePubFails, WriteFails
<1> QED BY <1>1, <1>2, <1>3, <1>4, <1>5, <1>6, <1>7

(* ec_load and its steps. *)
LEMMA LoadIInv ==
  ASSUME IInv,
         \/ \E f \in Folders : Load(f)
         \/ LoadPub \/ LoadPubFails \/ LoadPriv \/ LoadPrivFails
  PROVE  IInv'
<1> USE WalletAssumption DEF IInv, TypeOK, HalvesMatch, PrivateFirst, PublicFirst, Released,
        Saving, Contents, Goto, files, Pair, NoPair
<1>1. CASE \E f \in Folders : Load(f)
  BY <1>1 DEF Load
<1>2. CASE LoadPub
  BY <1>2 DEF LoadPub
<1>3. CASE LoadPubFails \/ LoadPrivFails
  BY <1>3 DEF LoadPubFails, LoadPrivFails, LoadFails
<1>4. CASE LoadPriv
  BY <1>4 DEF LoadPriv
<1> QED BY <1>1, <1>2, <1>3, <1>4

(* Every step keeps it. *)
LEMMA NextIInv == IInv /\ [Next]_vars => IInv'
<1> SUFFICES ASSUME IInv, [Next]_vars PROVE IInv'
  OBVIOUS
<1>1. CASE \/ \E f \in Folders : Save(f)
           \/ MkdirFails
         \/ OpenPriv \/ WritePrivFails \/ ClosePriv
         \/ OpenPub \/ WritePubFails \/ ClosePub
  BY <1>1, SaveIInv
<1>2. CASE \/ \E f \in Folders : Load(f)
           \/ LoadPub \/ LoadPubFails \/ LoadPriv \/ LoadPrivFails
  BY <1>2, LoadIInv
<1> USE WalletAssumption DEF IInv, TypeOK, HalvesMatch, PrivateFirst, PublicFirst, Released,
        Saving, Contents, files, Pair, NoPair
<1>3. CASE Create
  BY <1>3 DEF Create
<1>4. CASE OpenCrashes \/ Stop
  BY <1>4 DEF OpenCrashes, Stop, ProcessEnds
<1>5. CASE Launch
  BY <1>5 DEF Launch
<1>6. CASE UNCHANGED vars
  BY <1>6 DEF vars
<1> QED BY <1>1, <1>2, <1>3, <1>4, <1>5, <1>6 DEF Next

(* The invariant holds in every state. *)
LEMMA Invariant == Spec => []IInv
  BY InitIInv, NextIInv, PTL DEF Spec

(* Every wallet and every file is what TypeOK says. *)
THEOREM WalletTypeOK == Spec => []TypeOK
  BY Invariant, PTL DEF IInv

(* The client never signs with one key while it is paid to another, whatever *)
(* was interrupted in the folder it loaded the wallet from.                 *)
THEOREM HalvesAlwaysMatch == Spec => []HalvesMatch
  BY Invariant, PTL DEF IInv

-----------------------------------------------------------------------------
(* The variables of Keyring, under the mapping of module Wallet.            *)

alive == pc \notin {"stopped", "crashed"}
kept == [f \in Folders |-> Kept(f)]
asked == IF pc \in {"load_pub", "load_priv"} THEN {folder} ELSE {}

ringVars == <<alive, wallet, kept, asked>>

(* What a folder keeps depends on its two files only. *)
LEMMA KeptUnchanged ==
  ASSUME UNCHANGED files
  PROVE  kept' = kept
  BY DEF kept, Kept, files, NoPair, Pair

(* A step on the files of one folder changes what that folder keeps. *)
LEMMA KeptInFolder ==
  ASSUME NEW g \in Folders, NEW pair, Kept(g)' = pair,
         \A f \in Folders \ {g} : priv'[f] = priv[f] /\ pub'[f] = pub[f]
  PROVE  kept' = [kept EXCEPT ![g] = pair]
<1>1. \A f \in Folders \ {g} : Kept(f)' = Kept(f)
  BY DEF Kept, NoPair, Pair
<1> HIDE DEF Kept
<1> QED BY <1>1 DEF kept

(* Pairs are the same in both modules. *)
LEMMA SamePairs == NoPair = Ring!NoPair /\ \A k : Pair(k) = Ring!Pair(k)
  BY DEF NoPair, Pair, Ring!NoPair, Ring!Pair

(* The steps of ec_save: a wallet is kept, lost, or neither. *)
LEMMA SaveImplements ==
  ASSUME IInv, IInv',
         \/ \E f \in Folders : Save(f)
         \/ MkdirFails
         \/ OpenPriv \/ WritePrivFails \/ ClosePriv
         \/ OpenPub \/ WritePubFails \/ ClosePub
  PROVE  [Ring!Next]_ringVars
<1>0. /\ folder \in Folders /\ wallet' = wallet
      /\ priv \in [Folders -> Contents] /\ pub \in [Folders -> Contents]
      /\ "broken" \notin Keys
  BY WalletAssumption DEF IInv, TypeOK, Save, MkdirFails, OpenPriv, WritePrivFails,
     ClosePriv, OpenPub, WritePubFails, ClosePub, WriteFails
<1>1. alive /\ alive' = alive /\ asked = {} /\ asked' = {}
  BY DEF Save, MkdirFails, OpenPriv, WritePrivFails, ClosePriv, OpenPub, WritePubFails,
     ClosePub, Goto, alive, asked
<1>2. SUFFICES ASSUME ~UNCHANGED files
               PROVE  \E g \in Folders :
                        \/ kept' = [kept EXCEPT ![g] = wallet]
                        \/ kept' = [kept EXCEPT ![g] = NoPair]
  <2>1. CASE UNCHANGED files
    BY <1>0, <1>1, <2>1, KeptUnchanged DEF ringVars
  <2>2. CASE ~UNCHANGED files
    BY <1>0, <1>1, <1>2, <2>2, SamePairs
       DEF Ring!Next, Ring!Save, Ring!Lose, Ring!Free, kept, alive, asked
  <2> QED BY <2>1, <2>2
<1>3. \A f \in Folders \ {folder} : priv'[f] = priv[f] /\ pub'[f] = pub[f]
  BY <1>0, <1>2 DEF Save, MkdirFails, OpenPriv, WritePrivFails, ClosePriv, OpenPub,
     WritePubFails, ClosePub, WriteFails, files
<1>4. PICK g \in Folders : g = folder
  BY <1>0
<1>5. Kept(g)' = wallet \/ Kept(g)' = NoPair
  <2>1. priv'[folder] \in {wallet.priv, "broken"} \/ pub'[folder] = "broken"
    BY <1>0, <1>2 DEF Save, MkdirFails, OpenPriv, WritePrivFails, ClosePriv, OpenPub,
       WritePubFails, ClosePub, WriteFails, files, IInv, PrivateFirst, Goto
  <2>2. wallet = Pair(wallet.priv)
    BY DEF IInv, TypeOK, HalvesMatch, Pair
  <2> QED BY <1>0, <1>4, <2>1, <2>2 DEF Kept
<1>6. \A f \in Folders \ {g} : priv'[f] = priv[f] /\ pub'[f] = pub[f]
  BY <1>3, <1>4
<1> QED BY <1>5, <1>6, KeptInFolder

(* The steps of ec_load: the wallet is released, and the kept one taken, or *)
(* none when one of the files holds no key or does not open.                *)
LEMMA LoadImplements ==
  ASSUME IInv, IInv',
         \/ \E f \in Folders : Load(f)
         \/ LoadPub \/ LoadPubFails \/ LoadPriv \/ LoadPrivFails
  PROVE  [Ring!Next]_ringVars
<1>1. kept' = kept
  BY KeptUnchanged DEF Load, LoadPub, LoadPubFails, LoadPriv, LoadPrivFails, LoadFails, files
<1>2. alive /\ alive' = alive
  BY DEF Load, LoadPub, LoadPubFails, LoadPriv, LoadPrivFails, LoadFails, Goto, alive
<1>3. CASE \E f \in Folders : Load(f)
  <2>1. PICK f \in Folders : Load(f)
    BY <1>3
  <2>2. asked = {} /\ asked' = {f} /\ wallet' = Ring!NoPair
    BY <2>1, SamePairs DEF Load, Goto, asked
  <2>3. Ring!Ask(f)
    BY <1>1, <1>2, <2>2 DEF Ring!Ask, Ring!Free, kept, alive, asked
  <2> QED BY <2>3 DEF Ring!Next
<1>4. CASE LoadPub
  <2>1. wallet' = wallet /\ asked' = asked
    BY <1>4 DEF LoadPub, Goto, asked
  <2> QED BY <1>1, <1>2, <2>1 DEF ringVars
<1>5. CASE LoadPubFails \/ LoadPriv \/ LoadPrivFails
  <2>1. folder \in Folders /\ asked = {folder} /\ asked' = {}
    BY <1>5 DEF LoadPubFails, LoadPriv, LoadPrivFails, LoadFails, Goto, asked, IInv, TypeOK
  <2>2. CASE LoadPriv
    <3>1. wallet' = Kept(folder) /\ Kept(folder) # NoPair
      BY <2>2, WalletAssumption DEF LoadPriv, Goto, Kept, IInv, PublicFirst, Pair, NoPair
    <3>2. wallet' = kept[folder] /\ kept[folder] # Ring!NoPair
      BY <2>1, <3>1, SamePairs DEF kept
    <3>3. Ring!Load(folder)
      BY <1>1, <1>2, <2>1, <3>2 DEF Ring!Load, kept, alive, asked
    <3> QED BY <2>1, <3>3 DEF Ring!Next
  <2>3. CASE LoadPubFails \/ LoadPrivFails
    <3>1. wallet' = Ring!NoPair
      BY <2>3, SamePairs DEF LoadPubFails, LoadPrivFails, LoadFails, IInv, Released
    <3>2. Kept(folder) = NoPair \/ OpenFails
      BY <2>3 DEF LoadPubFails, LoadPrivFails, Kept
    <3>3. kept[folder] = Ring!NoPair \/ OpenFails
      BY <2>1, <3>2, SamePairs DEF kept
    <3>4. Ring!LoadFails(folder)
      BY <1>1, <1>2, <2>1, <3>1, <3>3 DEF Ring!LoadFails, kept, alive, asked
    <3> QED BY <2>1, <3>4 DEF Ring!Next
  <2> QED BY <1>5, <2>2, <2>3
<1> QED BY <1>3, <1>4, <1>5

(* Every step is a step of Keyring or a stutter. *)
LEMMA NextImplements == IInv /\ IInv' /\ [Next]_vars => [Ring!Next]_ringVars
<1> SUFFICES ASSUME IInv, IInv', [Next]_vars PROVE [Ring!Next]_ringVars
  OBVIOUS
<1>1. CASE \/ \E f \in Folders : Save(f)
           \/ MkdirFails
         \/ OpenPriv \/ WritePrivFails \/ ClosePriv
         \/ OpenPub \/ WritePubFails \/ ClosePub
  BY <1>1, SaveImplements
<1>2. CASE \/ \E f \in Folders : Load(f)
           \/ LoadPub \/ LoadPubFails \/ LoadPriv \/ LoadPrivFails
  BY <1>2, LoadImplements
<1>3. CASE Create
  <2>1. kept' = kept
    BY <1>3, KeptUnchanged DEF Create
  <2>2. alive /\ alive' = alive /\ asked = {} /\ asked' = {}
    BY <1>3 DEF Create, alive, asked
  <2>3. Ring!Create
    BY <1>3, <2>1, <2>2, SamePairs DEF Create, Ring!Create, Ring!Free, alive, asked, kept
  <2> QED BY <2>3 DEF Ring!Next
<1>4. CASE OpenCrashes \/ Stop
  <2>1. kept' = kept /\ wallet' = Ring!NoPair
    BY <1>4, KeptUnchanged, SamePairs DEF OpenCrashes, Stop, ProcessEnds
  <2>2. alive /\ alive' = FALSE /\ asked' = {}
    BY <1>4 DEF OpenCrashes, Stop, ProcessEnds, alive, asked
  <2> QED BY <2>1, <2>2 DEF Ring!Next, Ring!End, kept, alive, asked
<1>5. CASE Launch
  <2>1. kept' = kept /\ wallet' = wallet
    BY <1>5, KeptUnchanged DEF Launch, files
  <2>2. alive = FALSE /\ alive' = TRUE /\ asked' = asked
    BY <1>5 DEF Launch, alive, asked
  <2> QED BY <2>1, <2>2 DEF Ring!Next, Ring!Launch, kept, alive, asked
<1>6. CASE UNCHANGED vars
  BY <1>6, KeptUnchanged DEF vars, files, ringVars, alive, asked
<1> QED BY <1>1, <1>2, <1>3, <1>4, <1>5, <1>6 DEF Next

(* The initial states are those of Keyring. *)
LEMMA InitImplements == Init => Ring!Init
  BY WalletAssumption DEF Init, Ring!Init, Ring!NoPair, Ring!Pair, Kept, NoPair, Pair

(* ec_save and ec_load implement Keyring: whatever fails or is interrupted, *)
(* a folder gives back the whole wallet of a save that was begun, or none;  *)
(* and none only if it keeps none, or a file did not open.  A load that     *)
(* fails leaves what the folder keeps, and the client without a wallet.     *)
THEOREM KeyringImplemented == Spec => ImplementsKeyring
<1>1. Spec => [][Ring!Next]_ringVars
  BY Invariant, NextImplements, PTL DEF Spec
<1> QED BY <1>1, InitImplements, PTL
        DEF Spec, ImplementsKeyring, Ring!Spec, ringVars, alive, kept, asked
=============================================================================
