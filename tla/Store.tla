------------------------------- MODULE Store -------------------------------
(***************************************************************************)
(* What save and load promise. A save replaces the file by the whole       *)
(* ledger, or fails and leaves a beginning of it; a load of a whole file   *)
(* gives the ledger it was saved from. Module Cli takes its commands Save, *)
(* Load and LoadFails to be of this kind; module Persistence implements    *)
(* them.                                                                   *)
(***************************************************************************)
EXTENDS FileFormat

CONSTANTS
    Genesis,   \* the ledger of a new process
    MayFail    \* whether a save may fail, and a process be stopped

VARIABLES
    doing,     \* "idle", "save", "failed", "load" or "stopped"
    memory,    \* the ledger in use
    stored     \* the file, as it is when the save under way succeeds

IsWhole(f) == \E ledger \in Ledgers : f = WholeFile(ledger)

Init == doing = "idle" /\ memory = Genesis

Does(from, to) == doing = from /\ doing' = to

(* The other commands. *)
Work ==
    /\ Does("idle", "idle")
    /\ memory' \in Ledgers
    /\ UNCHANGED stored

Save ==
    /\ Does("idle", "save")
    /\ stored' = WholeFile(memory)
    /\ UNCHANGED memory

(* What a save that does not end well leaves. *)
Cut == stored' \in Beginnings(WholeFile(memory))

Fail == MayFail /\ Does("save", "failed") /\ Cut /\ UNCHANGED memory

SaveEnds ==
    /\ Does("save", "idle") \/ Does("failed", "idle")
    /\ UNCHANGED <<memory, stored>>

Load == Does("idle", "load") /\ UNCHANGED <<memory, stored>>

(* Of a file that is not whole nothing is promised. *)
LoadEnds ==
    /\ Does("load", "idle")
    /\ \A ledger \in Ledgers : stored = WholeFile(ledger) => memory' = ledger
    /\ UNCHANGED stored

(* The process ends: it is stopped, or meets a file that is not whole. *)
Stop ==
    /\ doing' = "stopped"
    /\ memory' = Genesis
    /\ \/ MayFail /\ doing = "save" /\ Cut
       \/ MayFail /\ doing \in {"failed", "load"} /\ UNCHANGED stored
       \/ doing = "load" /\ ~IsWhole(stored) /\ UNCHANGED stored

Launch == Does("stopped", "idle") /\ UNCHANGED <<memory, stored>>

Next == Work \/ Save \/ Fail \/ SaveEnds \/ Load \/ LoadEnds \/ Stop \/ Launch

Spec == Init /\ [][Next]_<<doing, memory, stored>>

=============================================================================
