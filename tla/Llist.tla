------------------------------- MODULE Llist -------------------------------
(***************************************************************************)
(* The operations of libllist.so that change a list, as the blockchain and *)
(* the CLI use them.  The library is a binary with a header and man pages: *)
(* a list is a sequence, position 1 is its head and position Len its tail. *)
(***************************************************************************)
EXTENDS Naturals, Sequences, FiniteSets

(* The first of the positions a search accepts, 0 when there is none. *)
First(hits) ==
    IF hits = {} THEN 0 ELSE CHOOSE i \in hits : \A j \in hits : i <= j

(* The list without the node at position i. *)
WithoutNode(list, i) ==
    [j \in 1..(Len(list) - 1) |-> IF j < i THEN list[j] ELSE list[j + 1]]

(* llist_remove_node: unlinks the first node its identifier accepts; hits   *)
(* are the positions of the nodes that it accepts.                          *)
RemoveNode(list, hits) ==
    IF hits = {} THEN list ELSE WithoutNode(list, First(hits))

=============================================================================
