------------------------------ MODULE CliProofs ------------------------------
(***************************************************************************)
(* Theorems about the client, for every set of keys and files, every clock *)
(* and every bound.                                                        *)
(***************************************************************************)
EXTENDS CliProperties, SequenceTheorems, FiniteSetTheorems, InductionLemmas

-----------------------------------------------------------------------------
(* The operations of module Llist.                                          *)

(* First finds a member, and the least one, of a set that is not empty. *)
LEMMA FirstHit ==
  ASSUME NEW n \in Nat, NEW hits, hits \subseteq 1..n, hits # {}
  PROVE  First(hits) \in hits /\ \A j \in hits : First(hits) <= j
<1>1. hits \subseteq Nat
  OBVIOUS
<1>2. \E k \in hits : \A j \in hits : k <= j
  BY <1>1, LeastElement
<1> QED BY <1>2 DEF First

(* A list keeps its type and its other nodes, in their order, when one node *)
(* is unlinked.                                                             *)
LEMMA WithoutNodeType ==
  ASSUME NEW E, NEW list \in Seq(E), NEW i \in 1..Len(list)
  PROVE  /\ WithoutNode(list, i) \in Seq(E)
         /\ Len(WithoutNode(list, i)) = Len(list) - 1
         /\ \A j \in 1..(Len(list) - 1) :
               WithoutNode(list, i)[j] = IF j < i THEN list[j] ELSE list[j + 1]
  BY DEF WithoutNode

(* Removing a node leaves a list of the same entries. *)
LEMMA RemoveNodeType ==
  ASSUME NEW E, NEW list \in Seq(E), NEW hits, hits \subseteq 1..Len(list)
  PROVE  RemoveNode(list, hits) \in Seq(E)
<1>1. CASE hits = {}
  BY <1>1 DEF RemoveNode
<1>2. CASE hits # {}
  <2>1. Len(list) \in Nat
    OBVIOUS
  <2>2. First(hits) \in 1..Len(list)
    BY <1>2, <2>1, FirstHit
  <2> QED BY <1>2, <2>2, WithoutNodeType DEF RemoveNode
<1> QED BY <1>1, <1>2

(* A set of positions of a list has at most as many members as the list. *)
LEMMA CountPositions ==
  ASSUME NEW n \in Nat, NEW hits, hits \subseteq 1..n
  PROVE  Cardinality(hits) \in 0..n
<1>1. IsFiniteSet(1..n) /\ Cardinality(1..n) = n
  BY FS_Interval
<1>2. IsFiniteSet(hits) /\ Cardinality(hits) <= n
  BY <1>1, FS_Subset
<1>3. Cardinality(hits) \in Nat
  BY <1>2, FS_CardinalityType
<1> QED BY <1>2, <1>3

-----------------------------------------------------------------------------
(* The loops of module Transaction.                                         *)

(* Spending an input leaves a list of entries of the list. *)
LEMMA SpendInputType ==
  ASSUME NEW E, NEW u \in Seq(E), NEW in
  PROVE  SpendInput(u, in) \in Seq(E)
  BY RemoveNodeType DEF SpendInput

(* The list after each input: the recursion of Spending, value by value. *)
LEMMA SpendTurns ==
  ASSUME NEW E, NEW u \in Seq(E), NEW tx, Len(tx.inputs) \in Nat
  PROVE  LET run == Spending(u, tx)
         IN  /\ run[0] = u
             /\ \A n \in 1..Len(tx.inputs) :
                   run[n] = SpendInput(run[n - 1], tx.inputs[n])
             /\ \A n \in 0..Len(tx.inputs) : run[n] \in Seq(E)
<1> DEFINE N == Len(tx.inputs)
           S == Seq(E)
           F == [x \in (1..N) \X S |-> SpendInput(x[2], tx.inputs[x[1]])]
           run == Spending(u, tx)
           Is(r) == r = [n \in 0..N |-> IF n = 0 THEN u
                                       ELSE SpendInput(r[n - 1], tx.inputs[n])]
<1>1. N \in Nat /\ u \in S
  OBVIOUS
<1>2. \A n \in 1..N, s \in S : F[<<n, s>>] = SpendInput(s, tx.inputs[n])
  OBVIOUS
<1>3. F \in [(1..N) \X S -> S]
  BY SpendInputType
<1>4. PICK g \in [0..N -> S] : Solves(g, N, u, F)
  <2> HIDE DEF F, N, S
  <2> QED BY <1>1, <1>3, RecursionExists
<1>5. Is(g)
  <2> HIDE DEF S, F
  <2>1. \A n \in 1..N : g[n - 1] \in S
    BY <1>1
  <2>2. \A n \in 1..N : g[n] = SpendInput(g[n - 1], tx.inputs[n])
    BY <1>2, <1>4, <2>1 DEF Solves
  <2>3. g[0] = u
    BY <1>4 DEF Solves
  <2> HIDE DEF N
  <2> QED BY <1>1, <2>2, <2>3
<1>6. Is(run)
  <2>1. run = CHOOSE r : Is(r)
    BY DEF Spending
  <2> HIDE DEF Is
  <2> QED BY <1>5, <2>1
<1>7. run[0] = u /\ \A n \in 1..N : run[n] = SpendInput(run[n - 1], tx.inputs[n])
  <2> HIDE DEF run, N, S, F
  <2>1. run = [n \in 0..N |-> IF n = 0 THEN u
               ELSE SpendInput(run[n - 1], tx.inputs[n])]
    BY <1>6
  <2>2. 0 \in 0..N /\ \A n \in 1..N : n \in 0..N /\ n # 0
    BY <1>1
  <2> HIDE DEF Is
  <2> QED BY <2>1, <2>2
<1>8. \A n \in 0..N : run[n] \in S
  <2> HIDE DEF run, N, S, F
  <2>1. Follows(run, N, S, u, F)
    BY <1>2, <1>7 DEF Follows
  <2> QED BY <1>1, <1>3, <2>1, RecursionValues
<1> QED BY <1>7, <1>8

(* Removing the inputs of a transaction leaves a list of entries. *)
LEMMA SpendInputsType ==
  ASSUME NEW E, NEW u \in Seq(E), NEW tx, Len(tx.inputs) \in Nat
  PROVE  SpendInputs(u, tx) \in Seq(E)
  BY SpendTurns DEF SpendInputs

(* The list after each transaction: the recursion of Updating. *)
LEMMA UpdateTurns ==
  ASSUME NEW E, NEW u \in Seq(E), NEW hash, NEW txs, Len(txs) \in Nat,
         \A t \in 1..Len(txs) : /\ Len(txs[t].inputs) \in Nat
                               /\ NewUnspent(txs[t], hash) \in Seq(E)
  PROVE  LET run == Updating(u, txs, hash)
         IN  /\ run[0] = u
             /\ \A n \in 1..Len(txs) :
                   run[n] = ProcessTransaction(run[n - 1], txs[n], hash)
             /\ \A n \in 0..Len(txs) : run[n] \in Seq(E)
<1> DEFINE N == Len(txs)
           S == Seq(E)
           F == [x \in (1..N) \X S |-> ProcessTransaction(x[2], txs[x[1]], hash)]
           run == Updating(u, txs, hash)
           Is(r) == r = [n \in 0..N |-> IF n = 0 THEN u
                           ELSE ProcessTransaction(r[n - 1], txs[n], hash)]
<1>1. N \in Nat /\ u \in S
  OBVIOUS
<1>2. \A n \in 1..N, s \in S : F[<<n, s>>] = ProcessTransaction(s, txs[n], hash)
  OBVIOUS
<1>3. F \in [(1..N) \X S -> S]
  <2>1. ASSUME NEW n \in 1..N, NEW s \in S
        PROVE  ProcessTransaction(s, txs[n], hash) \in S
    <3>1. SpendInputs(s, txs[n]) \in Seq(E) /\ NewUnspent(txs[n], hash) \in Seq(E)
      BY SpendInputsType
    <3> QED BY <3>1, ConcatProperties DEF ProcessTransaction
  <2> HIDE DEF S
  <2> QED BY <2>1
<1>4. PICK g \in [0..N -> S] : Solves(g, N, u, F)
  <2> HIDE DEF F, N, S
  <2> QED BY <1>1, <1>3, RecursionExists
<1>5. Is(g)
  <2> HIDE DEF S, F
  <2>1. \A n \in 1..N : g[n - 1] \in S
    <3>1. N \in Nat /\ g \in [0..N -> S]
      BY <1>1, <1>4
    <3> HIDE DEF N
    <3>2. \A n \in 1..N : n - 1 \in 0..N
      BY <3>1
    <3> QED BY <3>1, <3>2
  <2>2. \A n \in 1..N : g[n] = ProcessTransaction(g[n - 1], txs[n], hash)
    BY <1>2, <1>4, <2>1 DEF Solves
  <2>3. g[0] = u
    BY <1>4 DEF Solves
  <2> HIDE DEF N
  <2> QED BY <1>1, <2>2, <2>3
<1>6. Is(run)
  <2>1. run = CHOOSE r : Is(r)
    BY DEF Updating
  <2> HIDE DEF Is
  <2> QED BY <1>5, <2>1
<1>7. /\ run[0] = u
      /\ \A n \in 1..N : run[n] = ProcessTransaction(run[n - 1], txs[n], hash)
  <2> HIDE DEF run, N, S, F
  <2>1. run = [n \in 0..N |-> IF n = 0 THEN u
               ELSE ProcessTransaction(run[n - 1], txs[n], hash)]
    BY <1>6
  <2>2. 0 \in 0..N /\ \A n \in 1..N : n \in 0..N /\ n # 0
    BY <1>1
  <2> HIDE DEF Is
  <2> QED BY <2>1, <2>2
<1>8. \A n \in 0..N : run[n] \in S
  <2> HIDE DEF run, N, S, F
  <2>1. Follows(run, N, S, u, F)
    BY <1>2, <1>7 DEF Follows
  <2> QED BY <1>1, <1>3, <2>1, RecursionValues
<1> QED BY <1>7, <1>8

(* The list after a block holds entries of the list before it and entries   *)
(* for the outputs of the block.                                            *)
LEMMA UpdateUnspentType ==
  ASSUME NEW E, NEW u \in Seq(E), NEW hash, NEW txs, Len(txs) \in Nat,
         \A t \in 1..Len(txs) : /\ Len(txs[t].inputs) \in Nat
                               /\ NewUnspent(txs[t], hash) \in Seq(E)
  PROVE  UpdateUnspent(txs, hash, u) \in Seq(E)
  BY UpdateTurns DEF UpdateUnspent

(* A sum modulo 2^32 is a uint32_t. *)
LEMMA ModuloType ==
  ASSUME NEW a \in Int
  PROVE  a % UINT32 \in 0..(UINT32 - 1)
  BY AmountAssumption

(* The inputs the loop of transaction_create may select. *)
SelectableInputs(list, sender, pending) ==
    {TxInCreate(list[n]) : n \in {k \in 1..Len(list) :
                                        Selectable(list[k], sender, pending)}}

(* What is selected refers to selectable outputs, and its total is a        *)
(* uint32_t.                                                                *)
Selections(list, sender, pending) ==
    [inputs : Seq(SelectableInputs(list, sender, pending)), total : 0..(UINT32 - 1)]

(* The selection after each entry: the recursion of Selection. *)
IsScan(scan, sender, amount, u, pending) ==
    /\ scan \in [0..Len(u) -> Selections(u, sender, pending)]
    /\ scan[0] = NothingSelected
    /\ \A n \in 1..Len(u) :
          scan[n] = SelectNext(scan[n - 1], u[n], sender, amount, pending)
    /\ Selection(sender, amount, u, pending) = scan[Len(u)]

(* The turns of the loop that selects outputs. *)
LEMMA SelectionTurns ==
  ASSUME NEW u, Len(u) \in Nat, \A n \in 1..Len(u) : u[n].out.amount \in Int,
         NEW sender, NEW amount, NEW pending
  PROVE  \E scan : IsScan(scan, sender, amount, u, pending)
<1> DEFINE N == Len(u)
           I == SelectableInputs(u, sender, pending)
           S == Selections(u, sender, pending)
           F == [x \in (1..N) \X S |-> SelectNext(x[2], u[x[1]], sender, amount, pending)]
           Is(r) == r = [n \in 0..N |-> IF n = 0 THEN NothingSelected
                           ELSE SelectNext(r[n - 1], u[n], sender, amount, pending)]
           scan == CHOOSE r : Is(r)
<1>1. N \in Nat /\ NothingSelected \in S
  BY AmountAssumption DEF NothingSelected, Selections
<1>2. \A n \in 1..N, s \in S :
         F[<<n, s>>] = SelectNext(s, u[n], sender, amount, pending)
  <2> HIDE DEF S
  <2> QED OBVIOUS
<1>3. F \in [(1..N) \X S -> S]
  <2>1. ASSUME NEW n \in 1..N, NEW s \in S
        PROVE  SelectNext(s, u[n], sender, amount, pending) \in S
    <3>1. CASE s.total >= amount \/ ~Selectable(u[n], sender, pending)
      BY <3>1 DEF SelectNext
    <3>2. CASE ~(s.total >= amount \/ ~Selectable(u[n], sender, pending))
      <4>1. TxInCreate(u[n]) \in I
        BY <3>2 DEF SelectableInputs
      <4>2. s.inputs \in Seq(I) /\ s.total \in Int
        BY AmountAssumption DEF Selections
      <4> HIDE DEF I
      <4>3. Append(s.inputs, TxInCreate(u[n])) \in Seq(I)
        BY <4>1, <4>2
      <4>4. (s.total + u[n].out.amount) % UINT32 \in 0..(UINT32 - 1)
        <5>1. s.total + u[n].out.amount \in Int
          BY <4>2
        <5> QED BY <5>1, ModuloType
      <4>5. SelectNext(s, u[n], sender, amount, pending)
              = [inputs |-> Append(s.inputs, TxInCreate(u[n])),
                 total |-> (s.total + u[n].out.amount) % UINT32]
        BY <3>2 DEF SelectNext
      <4> QED BY <4>3, <4>4, <4>5 DEF Selections, I
    <3> QED BY <3>1, <3>2
  <2> HIDE DEF S
  <2> QED BY <2>1
<1>4. PICK g \in [0..N -> S] : Solves(g, N, NothingSelected, F)
  <2> HIDE DEF F, N, S
  <2> QED BY <1>1, <1>3, RecursionExists
<1>5. Is(g)
  <2> HIDE DEF S, F
  <2>1. \A n \in 1..N : g[n - 1] \in S
    BY <1>1
  <2>2. \A n \in 1..N : g[n] = SelectNext(g[n - 1], u[n], sender, amount, pending)
    BY <1>2, <1>4, <2>1 DEF Solves
  <2>3. g[0] = NothingSelected
    BY <1>4 DEF Solves
  <2> HIDE DEF N
  <2> QED BY <1>1, <2>2, <2>3
<1>6. Is(scan)
  <2> HIDE DEF Is
  <2> QED BY <1>5
<1>7. /\ scan[0] = NothingSelected
      /\ \A n \in 1..N : scan[n] = SelectNext(scan[n - 1], u[n], sender, amount, pending)
  <2> HIDE DEF scan, N, S, F
  <2>1. scan = [n \in 0..N |-> IF n = 0 THEN NothingSelected
               ELSE SelectNext(scan[n - 1], u[n], sender, amount, pending)]
    BY <1>6
  <2>2. 0 \in 0..N /\ \A n \in 1..N : n \in 0..N /\ n # 0
    BY <1>1
  <2> HIDE DEF Is
  <2> QED BY <2>1, <2>2
<1>8. scan \in [0..N -> S]
  <2> HIDE DEF scan, N, S, F
  <2>1. Follows(scan, N, S, NothingSelected, F)
    BY <1>2, <1>7 DEF Follows
  <2>2. \A n \in 0..N : scan[n] \in S
    BY <1>1, <1>3, <2>1, RecursionValues
  <2>3. scan = [n \in 0..N |-> scan[n]]
    BY <1>6
  <2> HIDE DEF Is
  <2> QED BY <2>2, <2>3
<1>9. Selection(sender, amount, u, pending) = scan[N]
  BY DEF Selection
<1> HIDE DEF scan
<1> QED BY <1>7, <1>8, <1>9 DEF IsScan

(* What is selected: inputs of the entries of the sender that no pending    *)
(* transaction refers to.                                                   *)
LEMMA SelectionType ==
  ASSUME NEW u, Len(u) \in Nat, \A n \in 1..Len(u) : u[n].out.amount \in Int,
         NEW sender, NEW amount, NEW pending
  PROVE  /\ Selection(sender, amount, u, pending).inputs
                \in Seq(SelectableInputs(u, sender, pending))
         /\ Selection(sender, amount, u, pending).total \in 0..(UINT32 - 1)
<1>1. PICK scan : IsScan(scan, sender, amount, u, pending)
  BY SelectionTurns
<1>2. Selection(sender, amount, u, pending) \in Selections(u, sender, pending)
  BY <1>1 DEF IsScan
<1> QED BY <1>2 DEF Selections

-----------------------------------------------------------------------------
(* Sequences, and lists of typed elements.                                  *)

Members(s) == {s[i] : i \in 1..Len(s)}

(* IsSeq says of a value that it is a sequence of its own elements. *)
LEMMA SeqOfMembers ==
  ASSUME NEW s, IsSeq(s)
  PROVE  s \in Seq(Members(s))
<1>1. [i \in 1..Len(s) |-> s[i]] \in [1..Len(s) -> Members(s)]
  BY DEF Members
<1>2. Len(s) \in Nat /\ s \in [1..Len(s) -> Members(s)]
  BY <1>1 DEF IsSeq
<1> QED BY <1>2

(* The sequences of the library are what IsSeq describes. *)
LEMMA SeqIsSeq ==
  ASSUME NEW E, NEW s \in Seq(E)
  PROVE  IsSeq(s) /\ \A i \in 1..Len(s) : s[i] \in E
  BY DEF IsSeq

(* Sequences grow by Append and by \o without losing their type. *)
LEMMA AppendMembers ==
  ASSUME NEW s, IsSeq(s), NEW e
  PROVE  /\ IsSeq(Append(s, e))
         /\ Len(Append(s, e)) = Len(s) + 1
         /\ \A i \in 1..Len(s) : Append(s, e)[i] = s[i]
         /\ Append(s, e)[Len(s) + 1] = e
<1> DEFINE E == Members(s) \cup {e}
<1>1. s \in Seq(E)
  <2>1. s \in Seq(Members(s))
    BY SeqOfMembers
  <2> HIDE DEF E
  <2>2. Members(s) \subseteq E
    BY DEF E
  <2> QED BY <2>1, <2>2
<1>2. e \in E
  OBVIOUS
<1> HIDE DEF E
<1>3. Append(s, e) \in Seq(E)
  BY <1>1, <1>2
<1>4. IsSeq(Append(s, e))
  BY <1>3, SeqIsSeq
<1> QED BY <1>1, <1>2, <1>4

-----------------------------------------------------------------------------
(* The purge.                                                               *)

(* Removing a node from a list keeps its other transactions disjoint. *)
LEMMA RemoveDisjoint ==
  ASSUME NEW E, NEW txs \in Seq(E), NEW u, Disjoint(txs)
  PROVE  RemoveInvalid(txs, u) \in Seq(E) /\ Disjoint(RemoveInvalid(txs, u))
<1> DEFINE hits == {i \in 1..Len(txs) : ~TransactionIsValid(txs[i], u)}
           rest == RemoveInvalid(txs, u)
<1>1. rest \in Seq(E)
  BY RemoveNodeType DEF RemoveInvalid
<1>2. CASE hits = {}
  BY <1>1, <1>2 DEF RemoveInvalid, RemoveNode
<1>3. CASE hits # {}
  <2> DEFINE k == First(hits)
             at == [i \in 1..Len(rest) |-> IF i < k THEN i ELSE i + 1]
  <2>1. Len(txs) \in Nat /\ hits \subseteq 1..Len(txs)
    OBVIOUS
  <2>2. k \in 1..Len(txs)
    <3> HIDE DEF hits
    <3> QED BY <1>3, <2>1, FirstHit
  <2>3. rest = WithoutNode(txs, k)
    BY <1>3 DEF RemoveInvalid, RemoveNode
  <2>4. \A i \in 1..Len(rest) : at[i] \in 1..Len(txs) /\ rest[i] = txs[at[i]]
    <3> HIDE DEF hits, k
    <3>1. /\ Len(WithoutNode(txs, k)) = Len(txs) - 1
          /\ \A j \in 1..(Len(txs) - 1) :
                WithoutNode(txs, k)[j] = IF j < k THEN txs[j] ELSE txs[j + 1]
      BY <2>2, WithoutNodeType
    <3> HIDE DEF rest
    <3>2. TAKE i \in 1..Len(rest)
    <3>3. i \in 1..(Len(txs) - 1) /\ at[i] = IF i < k THEN i ELSE i + 1
      BY <2>3, <3>1
    <3>4. rest[i] = IF i < k THEN txs[i] ELSE txs[i + 1]
      BY <2>3, <3>1, <3>3
    <3> HIDE DEF at
    <3> QED BY <2>1, <3>3, <3>4
  <2>5. \A i, j \in 1..Len(rest) : i # j => at[i] # at[j]
    <3>1. k \in Int
      BY <2>2
    <3>2. 1..Len(rest) \subseteq Int
      OBVIOUS
    <3> HIDE DEF k
    <3> QED BY <3>1, <3>2
  <2>6. Disjoint(rest)
    <3> HIDE DEF rest, at
    <3> SUFFICES ASSUME NEW i \in 1..Len(rest), NEW j \in 1..Len(rest), i # j,
                        NEW n \in 1..Len(rest[i].inputs),
                        NEW m \in 1..Len(rest[j].inputs)
                 PROVE  Reference(rest[i].inputs[n]) # Reference(rest[j].inputs[m])
      BY DEF Disjoint
    <3>1. /\ at[i] \in 1..Len(txs) /\ rest[i] = txs[at[i]]
          /\ at[j] \in 1..Len(txs) /\ rest[j] = txs[at[j]]
          /\ at[i] # at[j]
      BY <2>4, <2>5
    <3> QED BY <3>1 DEF Disjoint
  <2> QED BY <1>1, <2>6
<1> QED BY <1>2, <1>3

(* The purge removes an invalid transaction once per transaction. *)
LEMMA PurgeTurns ==
  ASSUME NEW E, NEW txs \in Seq(E), NEW u
  PROVE  \E run \in [0..Len(txs) -> Seq(E)] :
            /\ run[0] = txs
            /\ \A n \in 1..Len(txs) : run[n] = RemoveInvalid(run[n - 1], u)
            /\ Purge(txs, u) = run[Len(txs)]
<1> DEFINE N == Len(txs)
           S == Seq(E)
           F == [x \in (1..N) \X S |-> RemoveInvalid(x[2], u)]
           Is(r) == r = [n \in 0..N |-> IF n = 0 THEN txs
                                       ELSE RemoveInvalid(r[n - 1], u)]
           run == CHOOSE r : Is(r)
<1>1. N \in Nat /\ txs \in S
  OBVIOUS
<1>2. \A n \in 1..N, s \in S : F[<<n, s>>] = RemoveInvalid(s, u)
  OBVIOUS
<1>3. F \in [(1..N) \X S -> S]
  BY RemoveNodeType DEF RemoveInvalid
<1>4. PICK g \in [0..N -> S] : Solves(g, N, txs, F)
  <2> HIDE DEF F, N, S
  <2> QED BY <1>1, <1>3, RecursionExists
<1>5. Is(g)
  <2> HIDE DEF F
  <2>1. \A n \in 1..N : g[n - 1] \in S
    BY <1>1
  <2>2. \A n \in 1..N : g[n] = RemoveInvalid(g[n - 1], u)
    BY <1>2, <1>4, <2>1 DEF Solves
  <2>3. g[0] = txs
    BY <1>4 DEF Solves
  <2> HIDE DEF N
  <2> QED BY <1>1, <2>2, <2>3
<1>6. Is(run)
  <2> HIDE DEF Is
  <2> QED BY <1>5
<1>7. run[0] = txs /\ \A n \in 1..N : run[n] = RemoveInvalid(run[n - 1], u)
  <2> HIDE DEF run, N, F, S
  <2>1. run = [n \in 0..N |-> IF n = 0 THEN txs
               ELSE RemoveInvalid(run[n - 1], u)]
    BY <1>6
  <2>2. 0 \in 0..N /\ \A n \in 1..N : n \in 0..N /\ n # 0
    BY <1>1
  <2> HIDE DEF Is
  <2> QED BY <2>1, <2>2
<1>8. run \in [0..N -> S]
  <2> HIDE DEF run, N, F, S
  <2>1. Follows(run, N, S, txs, F)
    BY <1>2, <1>7 DEF Follows
  <2>2. \A n \in 0..N : run[n] \in S
    BY <1>1, <1>3, <2>1, RecursionValues
  <2>3. run = [n \in 0..N |-> run[n]]
    BY <1>6
  <2> HIDE DEF Is
  <2> QED BY <2>2, <2>3
<1>9. Purge(txs, u) = run[N]
  BY DEF Purge
<1> QED
  <2> HIDE DEF run
  <2> QED BY <1>7, <1>8, <1>9

(* What removing one invalid transaction preserves, the purge preserves. *)
LEMMA PurgeStays ==
  ASSUME NEW E, NEW S \in SUBSET Seq(E), NEW txs \in S, NEW u,
         \A s \in S : RemoveInvalid(s, u) \in S
  PROVE  Purge(txs, u) \in S
<1>1. PICK run \in [0..Len(txs) -> Seq(E)] :
         /\ run[0] = txs
         /\ \A n \in 1..Len(txs) : run[n] = RemoveInvalid(run[n - 1], u)
         /\ Purge(txs, u) = run[Len(txs)]
  <2>1. txs \in Seq(E)
    OBVIOUS
  <2> QED BY <2>1, PurgeTurns, SMTT(30)
<1> DEFINE T == {n \in 0..Len(txs) : run[n] \in S}
<1>2. Len(txs) \in Nat /\ 0 \in T
  BY <1>1
<1>3. \A n \in 1..Len(txs) : n - 1 \in T => n \in T
  BY <1>1
<1>4. 0..Len(txs) \subseteq T
  <2> HIDE DEF T
  <2> QED BY <1>2, <1>3, IntervalInduction
<1> QED BY <1>1, <1>2, <1>4

(* Every turn shortens the list or finds no invalid transaction in it, so   *)
(* that after as many turns as it has transactions all of them are valid.   *)
LEMMA PurgeLeavesValid ==
  ASSUME NEW E, NEW txs \in Seq(E), NEW u
  PROVE  \A i \in 1..Len(Purge(txs, u)) : TransactionIsValid(Purge(txs, u)[i], u)
<1> DEFINE N == Len(txs)
           AllValid(s) == \A i \in 1..Len(s) : TransactionIsValid(s[i], u)
<1>1. PICK run \in [0..N -> Seq(E)] :
         /\ run[0] = txs
         /\ \A n \in 1..N : run[n] = RemoveInvalid(run[n - 1], u)
         /\ Purge(txs, u) = run[N]
  BY PurgeTurns
<1> DEFINE T == {n \in 0..N : AllValid(run[n]) \/ Len(run[n]) = N - n}
<1>2. N \in Nat /\ 0 \in T
  BY <1>1
<1>3. ASSUME NEW n \in 1..N, n - 1 \in T PROVE n \in T
  <2> DEFINE s == run[n - 1]
             hits == {i \in 1..Len(s) : ~TransactionIsValid(s[i], u)}
  <2>1. n - 1 \in 0..N /\ s \in Seq(E) /\ Len(s) \in Nat
    <3>1. N \in Nat
      OBVIOUS
    <3>2. n - 1 \in 0..N
      BY <3>1
    <3> QED BY <3>2
  <2>2. run[n] = RemoveNode(s, hits)
    BY <1>1 DEF RemoveInvalid
  <2> HIDE DEF s
  <2>3. CASE hits = {}
    <3>1. run[n] = s /\ AllValid(s)
      BY <2>2, <2>3 DEF RemoveNode
    <3> QED BY <3>1
  <2>4. CASE hits # {}
    <3>1. Len(s) = N - (n - 1)
      BY <1>3, <2>4 DEF s
    <3>2. hits \subseteq 1..Len(s)
      OBVIOUS
    <3>3. run[n] = WithoutNode(s, First(hits))
      BY <2>2, <2>4 DEF RemoveNode
    <3> HIDE DEF hits
    <3>4. First(hits) \in 1..Len(s)
      BY <2>1, <2>4, <3>2, FirstHit
    <3>5. Len(run[n]) = Len(s) - 1
      BY <2>1, <3>3, <3>4, WithoutNodeType
    <3> QED BY <1>2, <3>1, <3>5
  <2> QED BY <2>3, <2>4
<1>4. N \in T
  <2> HIDE DEF T
  <2>1. 0..N \subseteq T
    BY <1>2, <1>3, IntervalInduction
  <2> QED BY <1>2, <2>1
<1>5. AllValid(run[N])
  <2>1. CASE Len(run[N]) = N - N
    BY <1>2, <2>1
  <2> QED BY <1>4, <2>1
<1> QED BY <1>1, <1>5

(* The purge leaves transactions of the pool, and leaves them disjoint. *)
LEMMA PurgeDisjoint ==
  ASSUME NEW E, NEW txs \in Seq(E), NEW u, Disjoint(txs)
  PROVE  Purge(txs, u) \in Seq(E) /\ Disjoint(Purge(txs, u))
<1> DEFINE S == {s \in Seq(E) : Disjoint(s)}
<1>1. S \in SUBSET Seq(E) /\ txs \in S
  OBVIOUS
<1>2. \A s \in S : RemoveInvalid(s, u) \in S
  BY RemoveDisjoint
<1>3. Purge(txs, u) \in S
  <2> HIDE DEF S
  <2> QED BY <1>1, <1>2, PurgeStays
<1> QED BY <1>3

(* It removes no transaction that is valid: the node that an identifier     *)
(* accepts first is the one that is unlinked.                               *)
LEMMA RemoveKeeps ==
  ASSUME NEW E, NEW txs \in Seq(E), NEW u,
         NEW i \in 1..Len(txs), TransactionIsValid(txs[i], u)
  PROVE  \E j \in 1..Len(RemoveInvalid(txs, u)) : RemoveInvalid(txs, u)[j] = txs[i]
<1> DEFINE hits == {k \in 1..Len(txs) : ~TransactionIsValid(txs[k], u)}
<1>1. CASE hits = {}
  BY <1>1 DEF RemoveInvalid, RemoveNode
<1>2. CASE hits # {}
  <2> DEFINE k == First(hits)
  <2>1. Len(txs) \in Nat /\ hits \subseteq 1..Len(txs) /\ i \notin hits
    OBVIOUS
  <2>2. RemoveInvalid(txs, u) = WithoutNode(txs, k)
    BY <1>2 DEF RemoveInvalid, RemoveNode
  <2> HIDE DEF hits
  <2>3. k \in 1..Len(txs) /\ k # i
    BY <1>2, <2>1, FirstHit
  <2> HIDE DEF k
  <2>4. /\ Len(WithoutNode(txs, k)) = Len(txs) - 1
        /\ \A j \in 1..(Len(txs) - 1) :
              WithoutNode(txs, k)[j] = IF j < k THEN txs[j] ELSE txs[j + 1]
    BY <2>3, WithoutNodeType
  <2>5. CASE i < k
    <3>1. i \in 1..(Len(txs) - 1)
      BY <2>1, <2>3, <2>5
    <3> QED BY <2>2, <2>4, <2>5, <3>1
  <2>6. CASE k < i
    <3>1. i - 1 \in 1..(Len(txs) - 1) /\ ~(i - 1 < k) /\ (i - 1) + 1 = i
      BY <2>1, <2>3, <2>6
    <3>2. WithoutNode(txs, k)[i - 1] = txs[i]
      BY <2>4, <3>1
    <3> QED BY <2>2, <2>4, <3>1, <3>2
  <2> QED BY <2>1, <2>3, <2>5, <2>6
<1> QED BY <1>1, <1>2

(* The purge keeps every transaction that is valid. *)
LEMMA PurgeKeeps ==
  ASSUME NEW E, NEW txs \in Seq(E), NEW u,
         NEW i \in 1..Len(txs), TransactionIsValid(txs[i], u)
  PROVE  \E j \in 1..Len(Purge(txs, u)) : Purge(txs, u)[j] = txs[i]
<1> DEFINE tx == txs[i]
           S == {s \in Seq(E) : \E j \in 1..Len(s) : s[j] = tx}
<1>1. S \in SUBSET Seq(E) /\ txs \in S
  OBVIOUS
<1>2. ASSUME NEW s \in S PROVE RemoveInvalid(s, u) \in S
  <2>1. PICK j \in 1..Len(s) : s[j] = tx
    OBVIOUS
  <2>2. RemoveInvalid(s, u) \in Seq(E)
    BY RemoveNodeType DEF RemoveInvalid
  <2>3. \E m \in 1..Len(RemoveInvalid(s, u)) : RemoveInvalid(s, u)[m] = s[j]
    BY <2>1, RemoveKeeps
  <2> QED BY <2>1, <2>2, <2>3
<1>3. Purge(txs, u) \in S
  <2> HIDE DEF S
  <2> QED BY <1>1, <1>2, PurgeStays
<1> QED BY <1>3

-----------------------------------------------------------------------------
(* The sorted list.                                                         *)

LEMMA InsertType ==
  ASSUME NEW E, NEW list \in Seq(E), NEW node \in E
  PROVE  InsertByAmount(list, node) \in Seq(E)
<1> DEFINE hits == {i \in 1..Len(list) : list[i].out.amount >= node.out.amount}
           p == Cardinality(hits)
           longer == [j \in 1..(Len(list) + 1) |-> IF j <= p THEN list[j]
                                                  ELSE IF j = p + 1 THEN node
                                                  ELSE list[j - 1]]
<1>1. Len(list) \in Nat /\ hits \subseteq 1..Len(list)
  OBVIOUS
<1>2. p \in 0..Len(list)
  <2> HIDE DEF hits
  <2> QED BY <1>1, CountPositions
<1>3. longer \in [1..(Len(list) + 1) -> E]
  <2> HIDE DEF p
  <2> SUFFICES ASSUME NEW j \in 1..(Len(list) + 1)
               PROVE  (IF j <= p THEN list[j]
                       ELSE IF j = p + 1 THEN node ELSE list[j - 1]) \in E
    OBVIOUS
  <2>1. CASE j <= p
    <3>1. j \in 1..Len(list)
      BY <1>1, <1>2, <2>1
    <3> QED BY <2>1, <3>1
  <2>2. CASE j > p + 1
    <3>1. j - 1 \in 1..Len(list)
      BY <1>1, <1>2, <2>2
    <3> QED BY <1>2, <2>2, <3>1
  <2> QED BY <1>2, <2>1, <2>2
<1>4. Len(list) + 1 \in Nat
  BY <1>1
<1>5. InsertByAmount(list, node) = longer
  BY DEF InsertByAmount
<1> HIDE DEF longer
<1> QED BY <1>3, <1>4, <1>5

(* llist_sort inserts the entries one after the other. *)
LEMMA SortTurns ==
  ASSUME NEW E, NEW list \in Seq(E)
  PROVE  \E run \in [0..Len(list) -> Seq(E)] :
            /\ run[0] = <<>>
            /\ \A n \in 1..Len(list) : run[n] = InsertByAmount(run[n - 1], list[n])
            /\ SortByAmount(list) = run[Len(list)]
<1> DEFINE N == Len(list)
           S == Seq(E)
           F == [x \in (1..N) \X S |-> InsertByAmount(x[2], list[x[1]])]
           Is(r) == r = [n \in 0..N |-> IF n = 0 THEN <<>>
                                       ELSE InsertByAmount(r[n - 1], list[n])]
           run == CHOOSE r : Is(r)
<1>1. N \in Nat /\ <<>> \in S
  OBVIOUS
<1>2. \A n \in 1..N, s \in S : F[<<n, s>>] = InsertByAmount(s, list[n])
  <2> HIDE DEF S
  <2> QED OBVIOUS
<1>3. F \in [(1..N) \X S -> S]
  <2>1. \A n \in 1..N, s \in S : InsertByAmount(s, list[n]) \in S
    BY InsertType
  <2> HIDE DEF S
  <2> QED BY <2>1
<1>4. PICK g \in [0..N -> S] : Solves(g, N, <<>>, F)
  <2> HIDE DEF F, N, S
  <2> QED BY <1>1, <1>3, RecursionExists
<1>5. Is(g)
  <2> HIDE DEF S, F
  <2>1. \A n \in 1..N : g[n - 1] \in S
    BY <1>1
  <2>2. \A n \in 1..N : g[n] = InsertByAmount(g[n - 1], list[n])
    BY <1>2, <1>4, <2>1 DEF Solves
  <2>3. g[0] = <<>>
    BY <1>4 DEF Solves
  <2> HIDE DEF N
  <2> QED BY <1>1, <2>2, <2>3
<1>6. Is(run)
  <2> HIDE DEF Is
  <2> QED BY <1>5
<1>7. run[0] = <<>> /\ \A n \in 1..N : run[n] = InsertByAmount(run[n - 1], list[n])
  <2> HIDE DEF run, N, S, F
  <2>1. run = [n \in 0..N |-> IF n = 0 THEN <<>>
               ELSE InsertByAmount(run[n - 1], list[n])]
    BY <1>6
  <2>2. 0 \in 0..N /\ \A n \in 1..N : n \in 0..N /\ n # 0
    BY <1>1
  <2> HIDE DEF Is
  <2> QED BY <2>1, <2>2
<1>8. run \in [0..N -> S]
  <2> HIDE DEF run, N, S, F
  <2>1. Follows(run, N, S, <<>>, F)
    BY <1>2, <1>7 DEF Follows
  <2>2. \A n \in 0..N : run[n] \in S
    BY <1>1, <1>3, <2>1, RecursionValues
  <2>3. run = [n \in 0..N |-> run[n]]
    BY <1>6
  <2> HIDE DEF Is
  <2> QED BY <2>2, <2>3
<1>9. SortByAmount(list) = run[N]
  BY DEF SortByAmount
<1> QED
  <2> HIDE DEF run
  <2> QED BY <1>7, <1>8, <1>9

(* It neither adds nor changes an entry. *)
LEMMA SortType ==
  ASSUME NEW E, NEW list \in Seq(E)
  PROVE  SortByAmount(list) \in Seq(E)
<1>1. PICK run \in [0..Len(list) -> Seq(E)] : SortByAmount(list) = run[Len(list)]
  BY SortTurns
<1>2. Len(list) \in Nat
  OBVIOUS
<1> QED BY <1>1, <1>2

(* An entry is inserted somewhere: those before it keep their places, those *)
(* behind it move by one.                                                   *)
LEMMA InsertPlace ==
  ASSUME NEW E, NEW list \in Seq(E), NEW node \in E
  PROVE  /\ Len(InsertByAmount(list, node)) = Len(list) + 1
         /\ \E p \in 0..Len(list) : \A j \in 1..(Len(list) + 1) :
               InsertByAmount(list, node)[j]
                 = IF j <= p THEN list[j] ELSE IF j = p + 1 THEN node ELSE list[j - 1]
<1> DEFINE hits == {i \in 1..Len(list) : list[i].out.amount >= node.out.amount}
           p == Cardinality(hits)
           longer == [j \in 1..(Len(list) + 1) |-> IF j <= p THEN list[j]
                                                  ELSE IF j = p + 1 THEN node
                                                  ELSE list[j - 1]]
<1>1. Len(list) \in Nat /\ hits \subseteq 1..Len(list)
  OBVIOUS
<1>2. p \in 0..Len(list)
  <2> HIDE DEF hits
  <2> QED BY <1>1, CountPositions
<1>3. InsertByAmount(list, node) = longer
  BY DEF InsertByAmount
<1>4. InsertByAmount(list, node) \in Seq(E)
  BY InsertType
<1> HIDE DEF p
<1>5. Len(longer) = Len(list) + 1
  <2>1. Len(list) + 1 \in Nat
    BY <1>1
  <2> QED BY <1>3, <1>4, <2>1
<1>6. \A j \in 1..(Len(list) + 1) :
         longer[j] = IF j <= p THEN list[j] ELSE IF j = p + 1 THEN node ELSE list[j - 1]
  OBVIOUS
<1> HIDE DEF longer
<1> QED BY <1>2, <1>3, <1>5, <1>6

(* No two places of S have one value. *)
Injective(f, S) == \A i, j \in S : i # j => f[i] # f[j]

(* llist_sort gives every entry a place of its own. *)
LEMMA SortPermutes ==
  ASSUME NEW E, NEW list \in Seq(E)
  PROVE  /\ Len(SortByAmount(list)) = Len(list)
         /\ \E place \in [1..Len(list) -> 1..Len(list)] :
               /\ Injective(place, 1..Len(list))
               /\ \A i \in 1..Len(list) : SortByAmount(list)[place[i]] = list[i]
<1> DEFINE N == Len(list)
<1>1. PICK run \in [0..N -> Seq(E)] :
            /\ run[0] = <<>>
            /\ \A n \in 1..N : run[n] = InsertByAmount(run[n - 1], list[n])
            /\ SortByAmount(list) = run[N]
  BY SortTurns
<1> DEFINE Places(n) == {place \in [1..n -> 1..n] :
                           /\ Injective(place, 1..n)
                           /\ \A i \in 1..n : run[n][place[i]] = list[i]}
           T == {n \in 0..N : Len(run[n]) = n /\ Places(n) # {}}
<1>2. N \in Nat
  OBVIOUS
<1>3. 0 \in T
  <2>1. [i \in 1..0 |-> i] \in Places(0)
    BY DEF Injective
  <2> HIDE DEF Places
  <2> QED BY <1>1, <1>2, <2>1
<1>4. ASSUME NEW n \in 1..N, n - 1 \in T PROVE n \in T
  <2> DEFINE m == n - 1
  <2>1. m \in 0..N /\ m \in Nat /\ n = m + 1
    BY <1>2
  <2>2. Len(run[m]) = m
    BY <1>4
  <2>3. PICK place \in [1..m -> 1..m] : /\ Injective(place, 1..m)
                                        /\ \A i \in 1..m : run[m][place[i]] = list[i]
    BY <1>4
  <2>4. run[m] \in Seq(E) /\ list[n] \in E
    <3> HIDE DEF m
    <3> QED BY <1>1, <2>1, SMTT(30)
  <2>5. run[n] = InsertByAmount(run[m], list[n])
    BY <1>1
  <2> HIDE DEF m
  <2>6. /\ Len(run[n]) = n
        /\ \E p \in 0..m : \A j \in 1..n :
              run[n][j] = IF j <= p THEN run[m][j]
                          ELSE IF j = p + 1 THEN list[n] ELSE run[m][j - 1]
    <3>1. /\ Len(run[n]) = Len(run[m]) + 1
          /\ \E p \in 0..Len(run[m]) : \A j \in 1..(Len(run[m]) + 1) :
                run[n][j] = IF j <= p THEN run[m][j]
                            ELSE IF j = p + 1 THEN list[n] ELSE run[m][j - 1]
      <4> DEFINE s == run[m]
                 e == list[n]
      <4>1. s \in Seq(E) /\ e \in E
        BY <2>4
      <4> HIDE DEF s, e
      <4>2. /\ Len(InsertByAmount(s, e)) = Len(s) + 1
            /\ \E p \in 0..Len(s) : \A j \in 1..(Len(s) + 1) :
                  InsertByAmount(s, e)[j]
                    = IF j <= p THEN s[j] ELSE IF j = p + 1 THEN e ELSE s[j - 1]
        BY <4>1, InsertPlace
      <4> QED BY <2>5, <4>2 DEF s, e
    <3> QED BY <2>1, <2>2, <3>1
  <2>7. PICK p \in 0..m : \A j \in 1..n :
              run[n][j] = IF j <= p THEN run[m][j]
                          ELSE IF j = p + 1 THEN list[n] ELSE run[m][j - 1]
    BY <2>6
  <2> DEFINE new == [i \in 1..n |-> IF i = n THEN p + 1
                                    ELSE IF place[i] <= p THEN place[i]
                                    ELSE place[i] + 1]
  <2>8. \A i \in 1..m : place[i] \in 1..m
    OBVIOUS
  <2>9. new \in [1..n -> 1..n]
    BY <2>1, <2>8, SMTT(30)
  <2>10. Injective(new, 1..n)
    <3> SUFFICES ASSUME NEW i \in 1..n, NEW j \in 1..n, i < j PROVE new[i] # new[j]
      BY DEF Injective
    <3>1. i \in 1..m /\ place[i] \in 1..m
      BY <2>1, <2>8
    <3>2. CASE j = n
      BY <2>1, <3>1, <3>2, SMTT(30)
    <3>3. CASE j # n
      <4>1. j \in 1..m /\ place[j] \in 1..m /\ place[i] # place[j]
        BY <2>1, <2>3, <2>8, <3>1, <3>3, SMTT(30) DEF Injective
      <4>2. /\ new[i] = IF place[i] <= p THEN place[i] ELSE place[i] + 1
            /\ new[j] = IF place[j] <= p THEN place[j] ELSE place[j] + 1
        BY <2>1, <3>1, <3>3, <4>1
      <4>3. place[i] \in Int /\ place[j] \in Int /\ p \in Int
        BY <3>1, <4>1
      <4> HIDE DEF new
      <4> QED BY <4>1, <4>2, <4>3
    <3> QED BY <3>2, <3>3
  <2>11. \A i \in 1..n : run[n][new[i]] = list[i]
    <3> TAKE i \in 1..n
    <3>1. CASE i = n
      BY <2>1, <2>7, <3>1
    <3>2. CASE i # n
      <4>1. i \in 1..m /\ place[i] \in 1..m /\ run[m][place[i]] = list[i]
        BY <2>1, <2>3, <2>8, <3>2
      <4>2. CASE place[i] <= p
        <5>1. new[i] = place[i] /\ place[i] \in 1..n
          BY <2>1, <3>2, <4>1, <4>2
        <5> HIDE DEF new
        <5> QED BY <2>7, <4>1, <4>2, <5>1
      <4>3. CASE ~(place[i] <= p)
        <5>1. /\ new[i] = place[i] + 1 /\ place[i] + 1 \in 1..n
              /\ ~(place[i] + 1 <= p) /\ place[i] + 1 # p + 1
              /\ (place[i] + 1) - 1 = place[i]
          <6> DEFINE q == place[i]
          <6>1. q \in 1..m /\ ~(q <= p) /\ new[i] = IF q <= p THEN q ELSE q + 1
            BY <3>2, <4>1, <4>3
          <6> HIDE DEF new, q
          <6>2. /\ new[i] = q + 1 /\ q + 1 \in 1..n /\ ~(q + 1 <= p) /\ q + 1 # p + 1
                /\ (q + 1) - 1 = q
            BY <2>1, <6>1
          <6> QED BY <6>2 DEF q
        <5> HIDE DEF new
        <5> QED BY <2>7, <4>1, <5>1
      <4> QED BY <4>2, <4>3
    <3> QED BY <3>1, <3>2
  <2> HIDE DEF new
  <2>12. new \in Places(n)
    BY <2>9, <2>10, <2>11
  <2> HIDE DEF Places
  <2> QED BY <1>2, <2>6, <2>12
<1>5. N \in T
  <2> HIDE DEF T
  <2>1. 0..N \subseteq T
    BY <1>2, <1>3, <1>4, IntervalInduction
  <2> QED BY <1>2, <2>1
<1>6. Len(run[N]) = N /\ \E place : place \in Places(N)
  BY <1>5
<1> HIDE DEF N
<1> QED BY <1>1, <1>6 DEF N

-----------------------------------------------------------------------------
(* A transaction that send creates.                                         *)

(* Signing changes neither the number of inputs nor what they refer to.     *)
LEMMA SignedInputs ==
  ASSUME NEW u, NEW sender, NEW txs, NEW inputs \in Seq(SelectableInputs(u, sender, txs)),
         NEW id
  PROVE  LET signed == SignInputs(inputs, id, sender, u)
         IN  /\ IsSeq(signed)
             /\ Len(signed) = Len(inputs)
             /\ \A n \in 1..Len(inputs) : Reference(signed[n]) = Reference(inputs[n])
<1> DEFINE signed == SignInputs(inputs, id, sender, u)
           I == SelectableInputs(u, sender, txs)
           Signed(in) == [in EXCEPT !.sig = Signature(sender, id)]
<1>1. signed = [n \in 1..Len(inputs) |->
                  IF \A m \in 1..n : Signable(inputs[m], sender, u)
                  THEN Signed(inputs[n]) ELSE inputs[n]]
  BY DEF SignInputs
<1>2. Len(inputs) \in Nat
  OBVIOUS
<1>3. \A n \in 1..Len(inputs) : Reference(Signed(inputs[n])) = Reference(inputs[n])
  <2>1. \A n \in 1..Len(inputs) : inputs[n] \in I
    OBVIOUS
  <2>2. \A in \in I : \E k \in 1..Len(u) : in = TxInCreate(u[k])
    BY DEF SelectableInputs
  <2>3. \A e : Reference(Signed(TxInCreate(e))) = Reference(TxInCreate(e))
    BY DEF TxInCreate, Reference
  <2> HIDE DEF I, Signed
  <2> QED BY <2>1, <2>2, <2>3
<1> HIDE DEF Signed, signed
<1>4. Len(signed) = Len(inputs)
  BY <1>1, <1>2
<1>5. IsSeq(signed)
  BY <1>1, <1>2, <1>4 DEF IsSeq
<1> QED BY <1>1, <1>3, <1>4, <1>5 DEF signed

(* Its amounts are of type uint32_t, and its inputs refer to outputs that   *)
(* no pending transaction refers to: check_unspent looks at the first bytes *)
(* of the digests only, and digests that are equal have equal first bytes.  *)
LEMMA CreatedTransaction ==
  ASSUME IsUnspentList(unspent), NEW receiver, NEW amount \in Amount,
         CanCreate(wallet, receiver, amount, unspent, pool),
         NEW tx, tx = TransactionCreate(wallet, receiver, amount, unspent, pool)
  PROVE  /\ IsTransaction(tx)
         /\ \A n \in 1..Len(tx.inputs) :
              \A p \in 1..Len(pool) : \A m \in 1..Len(pool[p].inputs) :
                 Reference(pool[p].inputs[m]) # Reference(tx.inputs[n])
<1> DEFINE sel == Selection(wallet, amount, unspent, pool)
           outputs == SendAmount(wallet, receiver, amount, sel.total)
           I == SelectableInputs(unspent, wallet, pool)
           id == TransactionHash(sel.inputs, outputs)
<1>1. sel.inputs \in Seq(I) /\ sel.total \in Amount /\ sel.total >= amount
  <2>1. \A n \in 1..Len(unspent) : unspent[n].out.amount \in Int
    BY AmountAssumption DEF IsUnspentList, Amount
  <2>2. Len(unspent) \in Nat
    BY DEF IsUnspentList, IsSeq
  <2> QED BY <2>1, <2>2, SelectionType DEF CanCreate, Amount
<1>2. /\ tx.inputs = SignInputs(sel.inputs, id, wallet, unspent)
      /\ tx.outputs = outputs
  BY DEF TransactionCreate
<1> HIDE DEF sel, I, id
<1>3. IsSeq(tx.outputs) /\ \A n \in 1..Len(tx.outputs) : tx.outputs[n].amount \in Amount
  <2> DEFINE E == {TxOutCreate(a, pub) : a \in Amount, pub \in {wallet, receiver}}
  <2>1. TxOutCreate(amount, receiver) \in E
    OBVIOUS
  <2>2. sel.total - amount \in Amount
    BY <1>1, AmountAssumption DEF Amount
  <2>3. TxOutCreate(sel.total - amount, wallet) \in E
    BY <2>2
  <2>4. \A e \in E : e.amount \in Amount
    <3>1. \A a \in Amount, pub \in {wallet, receiver} :
             TxOutCreate(a, pub).amount = a
      BY DEF TxOutCreate
    <3> QED BY <3>1
  <2> HIDE DEF E
  <2>5. outputs \in Seq(E)
    BY <2>1, <2>3 DEF SendAmount
  <2> HIDE DEF outputs
  <2> QED BY <1>2, <2>4, <2>5, SeqIsSeq
<1>4. /\ IsSeq(tx.inputs)
      /\ Len(tx.inputs) = Len(sel.inputs)
      /\ \A n \in 1..Len(sel.inputs) :
            Reference(tx.inputs[n]) = Reference(sel.inputs[n])
  <2>1. sel.inputs \in Seq(SelectableInputs(unspent, wallet, pool))
    BY <1>1 DEF I
  <2> DEFINE inputs == sel.inputs
  <2>2. inputs \in Seq(SelectableInputs(unspent, wallet, pool))
    BY <2>1
  <2>3. tx.inputs = SignInputs(inputs, id, wallet, unspent)
    BY <1>2
  <2> HIDE DEF inputs
  <2> QED BY <2>2, <2>3, SignedInputs DEF inputs
<1>5. ASSUME NEW n \in 1..Len(sel.inputs), NEW p \in 1..Len(pool),
             NEW m \in 1..Len(pool[p].inputs)
      PROVE  Reference(pool[p].inputs[m]) # Reference(sel.inputs[n])
  <2>1. PICK k \in 1..Len(unspent) : /\ sel.inputs[n] = TxInCreate(unspent[k])
                                     /\ ~UsedInPool(pool, unspent[k])
    <3>1. sel.inputs[n] \in I
      BY <1>1
    <3> QED BY <3>1 DEF I, SelectableInputs, Selectable
  <2>2. ~(/\ Prefix(pool[p].inputs[m].block_hash) = Prefix(unspent[k].block_hash)
          /\ Prefix(pool[p].inputs[m].tx_id) = Prefix(unspent[k].tx_id)
          /\ Prefix(pool[p].inputs[m].tx_out_hash) = Prefix(unspent[k].out.hash))
    BY <2>1 DEF UsedInPool, SpentBy
  <2> QED BY <2>1, <2>2 DEF Reference, TxInCreate
<1> QED BY <1>3, <1>4, <1>5 DEF IsTransaction

-----------------------------------------------------------------------------
(* The block mine builds.                                                   *)

(* The proof of work changes the nonce and the hash of the block only. *)
LEMMA MinedFields ==
  ASSUME NEW time, NEW block, block = BlockMine(DraftBlock(time))
  PROVE  /\ block.info.index = (LastBlock.info.index + 1) % UINT32
         /\ block.info.prev_hash = LastBlock.hash
         /\ block.transactions = <<CoinbaseCreate(wallet, block.info.index)>>
                                   \o Purge(pool, unspent)
  BY DEF BlockMine, WithNonce, DraftBlock, BlockCreate

(* Its transactions are a coinbase and what the purge left of the pool. *)
LEMMA MinedTransactions ==
  ASSUME IsTransactionList(pool), Disjoint(pool), NEW index, NEW txs,
         txs = <<CoinbaseCreate(wallet, index)>> \o Purge(pool, unspent)
  PROVE  IsTransactionList(txs) /\ Len(txs) > 0
<1> DEFINE E == Members(pool)
           coinbase == CoinbaseCreate(wallet, index)
           D == E \cup {coinbase}
<1>1. Purge(pool, unspent) \in Seq(E)
  <2>1. pool \in Seq(E)
    BY SeqOfMembers DEF IsTransactionList
  <2> HIDE DEF E
  <2> QED BY <2>1, PurgeDisjoint
<1>2. \A tx \in E : IsTransaction(tx)
  BY DEF IsTransactionList, Members
<1>3. IsTransaction(coinbase)
  <2>1. COINBASE_AMOUNT \in Amount
    BY AmountAssumption DEF Amount
  <2> QED BY <2>1 DEF CoinbaseCreate, IsTransaction, IsSeq, TxOutCreate
<1> HIDE DEF E, coinbase
<1>4. Purge(pool, unspent) \in Seq(D) /\ coinbase \in D
  BY <1>1
<1> HIDE DEF D
<1>5. txs \in Seq(D) /\ Len(txs) > 0
  BY <1>4 DEF coinbase
<1>6. \A tx \in D : IsTransaction(tx)
  BY <1>2, <1>3 DEF D
<1> QED BY <1>5, <1>6, SeqIsSeq DEF IsTransactionList

(* Where the entries of the list come from while a block is processed: from *)
(* the list before, or from the outputs of the block.                       *)
EntriesIn(E, u, txs, hash) ==
    /\ u \in Seq(E)
    /\ \A t \in 1..Len(txs) : /\ Len(txs[t].inputs) \in Nat
                             /\ NewUnspent(txs[t], hash) \in Seq(E)
    /\ \A e \in E :
          \/ \E k \in 1..Len(u) : e = u[k]
          \/ \E t \in 1..Len(txs) : \E o \in 1..Len(txs[t].outputs) :
               e = UnspentTxOutCreate(hash, txs[t].id, txs[t].outputs[o])

(* The entries a block can leave in the list are a set. *)
LEMMA BlockEntries ==
  ASSUME NEW u, IsSeq(u), NEW txs, IsTransactionList(txs), NEW hash
  PROVE  \E E : EntriesIn(E, u, txs, hash)
<1> DEFINE New == UNION {Members(NewUnspent(txs[t], hash)) : t \in 1..Len(txs)}
           E == Members(u) \cup New
<1>1. u \in Seq(E)
  <2>1. u \in Seq(Members(u))
    BY SeqOfMembers
  <2> HIDE DEF New
  <2>2. Members(u) \subseteq E
    OBVIOUS
  <2> HIDE DEF E
  <2> QED BY <2>1, <2>2
<1>2. ASSUME NEW t \in 1..Len(txs)
      PROVE  /\ Len(txs[t].inputs) \in Nat
             /\ NewUnspent(txs[t], hash) \in Seq(E)
             /\ \A e \in Members(NewUnspent(txs[t], hash)) :
                   \E o \in 1..Len(txs[t].outputs) :
                      e = UnspentTxOutCreate(hash, txs[t].id, txs[t].outputs[o])
  <2> DEFINE new == NewUnspent(txs[t], hash)
  <2>1. IsTransaction(txs[t])
    BY DEF IsTransactionList
  <2>2. Len(txs[t].inputs) \in Nat /\ Len(txs[t].outputs) \in Nat
    BY <2>1 DEF IsTransaction, IsSeq
  <2>3. new = [n \in 1..Len(txs[t].outputs) |->
                 UnspentTxOutCreate(hash, txs[t].id, txs[t].outputs[n])]
    BY DEF NewUnspent
  <2> HIDE DEF new
  <2>4. Len(new) = Len(txs[t].outputs) /\ IsSeq(new)
    BY <2>2, <2>3 DEF IsSeq
  <2>5. Members(new) \subseteq E
    BY DEF new
  <2>6. new \in Seq(E)
    <3>1. new \in Seq(Members(new))
      BY <2>4, SeqOfMembers
    <3> HIDE DEF E
    <3> QED BY <2>5, <3>1
  <2>7. \A e \in Members(new) : \E o \in 1..Len(txs[t].outputs) :
           e = UnspentTxOutCreate(hash, txs[t].id, txs[t].outputs[o])
    BY <2>3, <2>4 DEF Members
  <2> QED BY <2>2, <2>6, <2>7 DEF new
<1>3. ASSUME NEW e \in E
      PROVE  \/ \E k \in 1..Len(u) : e = u[k]
             \/ \E t \in 1..Len(txs) : \E o \in 1..Len(txs[t].outputs) :
                  e = UnspentTxOutCreate(hash, txs[t].id, txs[t].outputs[o])
  <2>1. CASE e \in Members(u)
    BY <2>1 DEF Members
  <2>2. CASE e \in New
    <3>1. PICK t \in 1..Len(txs) : e \in Members(NewUnspent(txs[t], hash))
      BY <2>2
    <3>2. \E o \in 1..Len(txs[t].outputs) :
             e = UnspentTxOutCreate(hash, txs[t].id, txs[t].outputs[o])
      BY <1>2, <3>1
    <3> QED BY <3>2
  <2> QED BY <2>1, <2>2
<1> HIDE DEF E
<1> QED BY <1>1, <1>2, <1>3 DEF EntriesIn

(* What is in the list after a block was there before, or is an output of   *)
(* the block.                                                               *)
LEMMA UpdatedMembers ==
  ASSUME NEW u, IsSeq(u), NEW txs, IsTransactionList(txs), NEW hash,
         NEW v, v = UpdateUnspent(txs, hash, u)
  PROVE  /\ IsSeq(v)
         /\ \A i \in 1..Len(v) :
               \/ \E k \in 1..Len(u) : v[i] = u[k]
               \/ \E t \in 1..Len(txs) : \E o \in 1..Len(txs[t].outputs) :
                    v[i] = UnspentTxOutCreate(hash, txs[t].id, txs[t].outputs[o])
<1>1. PICK E : EntriesIn(E, u, txs, hash)
  BY BlockEntries
<1>2. Len(txs) \in Nat
  BY DEF IsTransactionList, IsSeq
<1>3. v \in Seq(E)
  BY <1>1, <1>2, UpdateUnspentType DEF EntriesIn
<1> QED BY <1>1, <1>3, SeqIsSeq DEF EntriesIn

(* The list while a block is processed, transaction by transaction. *)
LEMMA EntryTurns ==
  ASSUME NEW E, NEW u, NEW txs, NEW hash, EntriesIn(E, u, txs, hash),
         Len(txs) \in Nat, NEW run, run = Updating(u, txs, hash)
  PROVE  /\ run[0] = u
         /\ UpdateUnspent(txs, hash, u) = run[Len(txs)]
         /\ \A n \in 1..Len(txs) :
               run[n] = ProcessTransaction(run[n - 1], txs[n], hash)
         /\ \A n \in 0..Len(txs) : run[n] \in Seq(E)
<1>1. /\ u \in Seq(E)
      /\ \A t \in 1..Len(txs) : /\ Len(txs[t].inputs) \in Nat
                                /\ NewUnspent(txs[t], hash) \in Seq(E)
  BY DEF EntriesIn
<1>2. /\ run[0] = u
      /\ \A n \in 1..Len(txs) :
               run[n] = ProcessTransaction(run[n - 1], txs[n], hash)
      /\ \A n \in 0..Len(txs) : run[n] \in Seq(E)
  BY <1>1, UpdateTurns
<1>3. UpdateUnspent(txs, hash, u) = run[Len(txs)]
  BY DEF UpdateUnspent
<1> QED BY <1>2, <1>3

(* The list of unspent outputs keeps its type when the block is added. *)
LEMMA UpdatedUnspent ==
  ASSUME IsUnspentList(unspent), NEW txs, IsTransactionList(txs), NEW hash
  PROVE  IsUnspentList(UpdateUnspent(txs, hash, unspent))
<1> DEFINE v == UpdateUnspent(txs, hash, unspent)
<1>1. /\ IsSeq(v)
      /\ \A i \in 1..Len(v) :
            \/ \E k \in 1..Len(unspent) : v[i] = unspent[k]
            \/ \E t \in 1..Len(txs) : \E o \in 1..Len(txs[t].outputs) :
                 v[i] = UnspentTxOutCreate(hash, txs[t].id, txs[t].outputs[o])
  BY UpdatedMembers DEF IsUnspentList
<1> HIDE DEF v
<1>2. ASSUME NEW i \in 1..Len(v) PROVE v[i].out.amount \in Amount
  <2>1. ASSUME NEW t \in 1..Len(txs), NEW o \in 1..Len(txs[t].outputs),
               v[i] = UnspentTxOutCreate(hash, txs[t].id, txs[t].outputs[o])
        PROVE  v[i].out.amount \in Amount
    <3>1. v[i].out = txs[t].outputs[o]
      BY <2>1 DEF UnspentTxOutCreate
    <3> QED BY <3>1 DEF IsTransactionList, IsTransaction
  <2> QED BY <1>1, <2>1 DEF IsUnspentList
<1> QED BY <1>1, <1>2 DEF IsUnspentList, v

-----------------------------------------------------------------------------
(* The invariant: types, and a pool whose transactions share no output.     *)

IInv == TypeOK /\ PoolDisjoint

(* The invariant holds of a new process. *)
LEMMA InitIInv == Init => IInv
<1> SUFFICES ASSUME Init PROVE IInv
  OBVIOUS
<1>1. IsSeq(chain) /\ IsSeq(<<>>)
  BY DEF Init, IsSeq
<1>2. AreFiles(files)
  BY FilesAssumption DEF Init
<1>3. IsUnspentList(unspent) /\ IsTransactionList(pool)
  BY <1>1 DEF Init, IsUnspentList, IsTransactionList
<1>4. issued \subseteq Keys /\ folders \in [Folders -> issued \cup {NoKey}]
  BY DEF Init
<1>5. PoolDisjoint
  BY DEF Init, PoolDisjoint, Disjoint
<1> QED BY <1>1, <1>2, <1>3, <1>4, <1>5 DEF IInv, TypeOK, Init

(* A command that fails, and the end of the process. *)
LEMMA FailsIInv ==
  ASSUME IInv, Running, Fails PROVE IInv'
<1>1. /\ wallet' = wallet /\ chain' = chain /\ unspent' = unspent /\ pool' = pool
      /\ files' = files /\ folders' = folders /\ issued' = issued
  BY DEF Fails, memory, disk
<1>2. status' = "running" /\ ret' = -1
  BY DEF Running, Fails
<1> QED BY <1>1, <1>2 DEF IInv, TypeOK, PoolDisjoint

(* The end of the process, by exit or by a crash. *)
LEMMA ForgetsIInv ==
  ASSUME IInv, NEW how \in {"exited", "list", "mine", "blank", "wallet_save"},
         NEW code \in {0, 1, SIGSEGV}, Forgets(how, code),
         folders' \in [Folders -> issued \cup {NoKey}]
  PROVE  IInv'
<1>1. IsSeq(chain') /\ IsUnspentList(unspent') /\ IsTransactionList(pool')
  BY DEF Forgets, IsSeq, IsUnspentList, IsTransactionList
<1>2. Disjoint(pool')
  BY DEF Forgets, Disjoint
<1>3. AreFiles(files') /\ issued' = issued /\ wallet' = NoKey
  BY DEF IInv, TypeOK, Forgets, AreFiles, IsUnspentList, IsSeq
<1> QED BY <1>1, <1>2, <1>3 DEF IInv, TypeOK, PoolDisjoint, Forgets

(* An end that leaves the folders alone. *)
LEMMA EndsIInv ==
  ASSUME IInv, NEW how \in {"exited", "list", "mine", "blank"},
         NEW code \in {0, 1, SIGSEGV}, Ends(how, code)
  PROVE  IInv'
<1>1. folders' \in [Folders -> issued \cup {NoKey}]
  BY DEF IInv, TypeOK, Ends
<1> QED BY <1>1, ForgetsIInv DEF Ends

(* A save of the wallet that crashes, with or without one in the folder. *)
LEMMA WalletSaveCrashesIInv ==
  ASSUME IInv, NEW folder \in Folders, WalletSaveCrashes(folder) PROVE IInv'
<1>1. folders' \in [Folders -> issued \cup {NoKey}]
  BY DEF IInv, TypeOK, WalletSaveCrashes
<1> QED BY <1>1, ForgetsIInv DEF WalletSaveCrashes

(* wallet_create, and each other action below, keeps the invariant. *)
LEMMA WalletCreateIInv ==
  ASSUME IInv, WalletCreate PROVE IInv'
<1>1. /\ issued' \subseteq Keys
      /\ wallet' \in issued' \cup {NoKey}
      /\ folders' \in [Folders -> issued' \cup {NoKey}]
  BY DEF IInv, TypeOK, WalletCreate, disk
<1>2. chain' = chain /\ unspent' = unspent /\ pool' = pool /\ files' = files
  BY DEF WalletCreate, disk
<1>3. status' = "running" /\ ret' = 0
  BY DEF WalletCreate, Running
<1> QED BY <1>1, <1>2, <1>3 DEF IInv, TypeOK, PoolDisjoint

LEMMA SendIInv ==
  ASSUME IInv, NEW amount \in Amounts, NEW receiver, Send(amount, receiver)
  PROVE  IInv'
<1> DEFINE sent == amount % UINT32
           tx == TransactionCreate(wallet, receiver, sent, unspent, pool)
<1>1. sent \in Amount
  BY CliAssumption, ModuloType DEF Amount
<1>2. CanCreate(wallet, receiver, sent, unspent, pool)
  BY DEF Send, Sendable
<1>3. pool' = Append(pool, tx)
  BY DEF Send
<1> HIDE DEF sent
<1>4. /\ IsTransaction(tx)
      /\ \A n \in 1..Len(tx.inputs) :
           \A p \in 1..Len(pool) : \A m \in 1..Len(pool[p].inputs) :
              Reference(pool[p].inputs[m]) # Reference(tx.inputs[n])
  <2>1. IsUnspentList(unspent)
    BY DEF IInv, TypeOK
  <2> QED BY <1>1, <1>2, <2>1, CreatedTransaction
<1> HIDE DEF tx
<1>5. /\ IsSeq(pool)
      /\ IsSeq(pool')
      /\ Len(pool') = Len(pool) + 1
      /\ \A i \in 1..Len(pool) : pool'[i] = pool[i]
      /\ pool'[Len(pool) + 1] = tx
  <2>1. IsSeq(pool)
    BY DEF IInv, TypeOK, IsTransactionList
  <2> QED BY <1>3, <2>1, AppendMembers
<1>6. \A i \in 1..Len(pool') : i \in 1..Len(pool) \/ i = Len(pool) + 1
  BY <1>5 DEF IsSeq
<1>7. IsTransactionList(pool')
  <2>1. \A i \in 1..Len(pool) : IsTransaction(pool[i])
    BY DEF IInv, TypeOK, IsTransactionList
  <2> QED BY <1>4, <1>5, <1>6, <2>1 DEF IsTransactionList
<1>8. Disjoint(pool')
  <2> SUFFICES ASSUME NEW i \in 1..Len(pool'), NEW j \in 1..Len(pool'), i # j,
                      NEW n \in 1..Len(pool'[i].inputs),
                      NEW m \in 1..Len(pool'[j].inputs)
               PROVE  Reference(pool'[i].inputs[n]) # Reference(pool'[j].inputs[m])
    BY DEF Disjoint
  <2>1. CASE i \in 1..Len(pool) /\ j \in 1..Len(pool)
    <3>1. pool'[i] = pool[i] /\ pool'[j] = pool[j]
      BY <1>5, <2>1
    <3> QED BY <2>1, <3>1 DEF IInv, PoolDisjoint, Disjoint
  <2>2. CASE i \in 1..Len(pool) /\ j = Len(pool) + 1
    <3>1. pool'[i] = pool[i] /\ pool'[j] = tx
      BY <1>5, <2>2
    <3> QED BY <1>4, <2>2, <3>1
  <2>3. CASE i = Len(pool) + 1 /\ j \in 1..Len(pool)
    <3>1. pool'[i] = tx /\ pool'[j] = pool[j]
      BY <1>5, <2>3
    <3> QED BY <1>4, <2>3, <3>1
  <2>4. CASE i = Len(pool) + 1 /\ j = Len(pool) + 1
    BY <2>4
  <2> QED BY <1>6, <2>1, <2>2, <2>3, <2>4
<1>9. /\ status' = "running" /\ ret' = 0
      /\ wallet' = wallet /\ chain' = chain /\ unspent' = unspent
      /\ files' = files /\ folders' = folders /\ issued' = issued
  BY DEF Send, Running, disk
<1> QED BY <1>7, <1>8, <1>9 DEF IInv, TypeOK, PoolDisjoint

LEMMA MineIInv ==
  ASSUME IInv, NEW time, Mine(time) PROVE IInv'
<1> DEFINE block == BlockMine(DraftBlock(time))
           txs == block.transactions
<1>1. IsTransactionList(txs)
  <2>1. IsTransactionList(pool) /\ Disjoint(pool)
    BY DEF IInv, TypeOK, PoolDisjoint
  <2>2. txs = <<CoinbaseCreate(wallet, block.info.index)>> \o Purge(pool, unspent)
    BY MinedFields
  <2> HIDE DEF block
  <2> QED BY <2>1, <2>2, MinedTransactions
<1> HIDE DEF block
<1>2. /\ unspent' = UpdateUnspent(txs, block.hash, unspent)
      /\ chain' = Append(chain, block)
  BY DEF Mine, block
<1>3. IsUnspentList(unspent')
  BY <1>1, <1>2, UpdatedUnspent DEF IInv, TypeOK
<1>4. IsSeq(chain')
  BY <1>2, AppendMembers DEF IInv, TypeOK
<1>5. IsTransactionList(pool') /\ Disjoint(pool')
  BY DEF Mine, IsTransactionList, IsSeq, Disjoint
<1>6. /\ status' = "running" /\ ret' = 0 /\ wallet' = wallet
      /\ files' = files /\ folders' = folders /\ issued' = issued
  BY DEF Mine, Running, disk
<1> QED BY <1>3, <1>4, <1>5, <1>6 DEF IInv, TypeOK, PoolDisjoint

LEMMA MineRejectedIInv ==
  ASSUME IInv, NEW time, MineRejected(time) PROVE IInv'
<1> DEFINE E == Members(pool)
<1>1. pool' \in Seq(E) /\ Disjoint(pool')
  <2>1. pool \in Seq(E) /\ Disjoint(pool)
    BY SeqOfMembers DEF IInv, TypeOK, IsTransactionList, PoolDisjoint
  <2>2. pool' = Purge(pool, unspent)
    BY DEF MineRejected
  <2> HIDE DEF E
  <2> QED BY <2>1, <2>2, PurgeDisjoint
<1>2. \A tx \in E : IsTransaction(tx)
  BY DEF IInv, TypeOK, IsTransactionList, Members
<1>3. IsTransactionList(pool')
  <2> HIDE DEF E
  <2> QED BY <1>1, <1>2, SeqIsSeq DEF IsTransactionList
<1>4. /\ status' = "running" /\ ret' = -1 /\ wallet' = wallet
      /\ chain' = chain /\ unspent' = unspent
      /\ files' = files /\ folders' = folders /\ issued' = issued
  BY DEF MineRejected, Running, disk
<1> QED BY <1>1, <1>3, <1>4 DEF IInv, TypeOK, PoolDisjoint

LEMMA ListIInv ==
  ASSUME IInv, List PROVE IInv'
<1> DEFINE E == Members(unspent)
<1>1. unspent' \in Seq(E)
  <2>1. unspent \in Seq(E)
    BY SeqOfMembers DEF IInv, TypeOK, IsUnspentList
  <2>2. unspent' = SortByAmount(unspent)
    BY DEF List
  <2> HIDE DEF E
  <2> QED BY <2>1, <2>2, SortType
<1>2. \A e \in E : e.out.amount \in Amount
  BY DEF IInv, TypeOK, IsUnspentList, Members
<1>3. IsUnspentList(unspent')
  <2> HIDE DEF E
  <2> QED BY <1>1, <1>2, SeqIsSeq DEF IsUnspentList
<1>4. /\ status' = "running" /\ ret' = 0 /\ wallet' = wallet
      /\ chain' = chain /\ pool' = pool
      /\ files' = files /\ folders' = folders /\ issued' = issued
  BY DEF List, Running, disk
<1> QED BY <1>3, <1>4 DEF IInv, TypeOK, PoolDisjoint

LEMMA SaveIInv ==
  ASSUME IInv, NEW path \in Paths, Save(path) PROVE IInv'
<1>1. files' = [files EXCEPT ![path] = ChainFile(chain, unspent)]
  BY DEF Save
<1>2. AreFiles(files')
  BY <1>1 DEF IInv, TypeOK, AreFiles, ChainFile
<1>3. /\ status' = "running" /\ ret' = 0 /\ wallet' = wallet
      /\ chain' = chain /\ unspent' = unspent /\ pool' = pool
      /\ folders' = folders /\ issued' = issued
  BY DEF Save, Running, memory
<1> QED BY <1>2, <1>3 DEF IInv, TypeOK, PoolDisjoint

LEMMA LoadIInv ==
  ASSUME IInv, NEW path \in Paths, Load(path) PROVE IInv'
<1>1. IsSeq(chain') /\ IsUnspentList(unspent')
  BY DEF IInv, TypeOK, AreFiles, Load
<1>2. /\ status' = "running" /\ ret' = 0 /\ wallet' = wallet /\ pool' = pool
      /\ files' = files /\ folders' = folders /\ issued' = issued
  BY DEF Load, Running, disk
<1> QED BY <1>1, <1>2 DEF IInv, TypeOK, PoolDisjoint

(* The invariant is inductive. *)
LEMMA NextIInv == IInv /\ [Next]_vars => IInv'
<1> SUFFICES ASSUME IInv, [Next]_vars PROVE IInv'
  OBVIOUS
<1>1. CASE WalletCreate
  BY <1>1, WalletCreateIInv
<1>2. ASSUME WalletLoadFails \/ \E folder \in Folders :
               WalletLoad(folder) \/ WalletSave(folder) \/ WalletSaveLost(folder)
      PROVE  IInv'
  <2>1. /\ issued' = issued /\ files' = files /\ chain' = chain
        /\ unspent' = unspent /\ pool' = pool
    BY <1>2 DEF WalletLoad, WalletLoadFails, WalletSave, WalletSaveLost, memory, disk
  <2>2. status' = "running" /\ ret' \in {-1, 0}
    BY <1>2 DEF WalletLoad, WalletLoadFails, WalletSave, WalletSaveLost, Running
  <2>3. wallet' \in issued \cup {NoKey} /\ folders' \in [Folders -> issued \cup {NoKey}]
    BY <1>2 DEF WalletLoad, WalletLoadFails, WalletSave, WalletSaveLost, memory, disk,
       IInv, TypeOK
  <2> QED BY <2>1, <2>2, <2>3 DEF IInv, TypeOK, PoolDisjoint
<1>3. CASE WalletSaveFails
  BY <1>3, FailsIInv DEF WalletSaveFails
<1>4. ASSUME NEW amount \in Amounts, NEW receiver,
             Send(amount, receiver) \/ SendFails(amount, receiver)
      PROVE  IInv'
  BY <1>4, SendIInv, FailsIInv DEF SendFails
<1>5. ASSUME NEW time \in Times, Mine(time) \/ MineRejected(time) \/ MineCrashes(time)
      PROVE  IInv'
  <2>1. CASE Mine(time)
    BY <2>1, MineIInv
  <2>2. CASE MineRejected(time)
    BY <2>2, MineRejectedIInv
  <2>3. CASE MineCrashes(time)
    BY <2>3, EndsIInv DEF MineCrashes, Crashes
  <2> QED BY <1>5, <2>1, <2>2, <2>3
<1>6. CASE MineFails
  BY <1>6, FailsIInv DEF MineFails
<1>7. CASE List
  BY <1>7, ListIInv
<1>8. CASE ListCrashes
  BY <1>8, EndsIInv DEF ListCrashes, Crashes
<1>9. ASSUME NEW path \in Paths, Save(path) \/ Load(path) \/ LoadFails(path)
      PROVE  IInv'
  BY <1>9, SaveIInv, LoadIInv, FailsIInv DEF LoadFails
<1>10. CASE Misused
  BY <1>10, FailsIInv DEF Misused
<1>11. CASE BlankCrashes
  BY <1>11, EndsIInv DEF BlankCrashes, Crashes
<1>12. CASE Exit
  BY <1>12, EndsIInv DEF Exit
<1>13. CASE Show \/ Launch \/ LaunchCrashes \/ UNCHANGED vars
  <2>1. UNCHANGED <<memory, disk, issued>>
    BY <1>13 DEF Show, Launch, LaunchCrashes, vars
  <2>2. status' \in {"running", "launch", status} /\ ret' \in {0, SIGSEGV, ret}
    BY <1>13 DEF Show, Launch, LaunchCrashes, vars, Running
  <2> QED BY <2>1, <2>2 DEF IInv, TypeOK, PoolDisjoint, memory, disk
<1>14. CASE \E folder \in Folders : WalletSaveCrashes(folder)
  BY <1>14, WalletSaveCrashesIInv
<1> QED BY <1>1, <1>2, <1>3, <1>4, <1>5, <1>6, <1>7, <1>8, <1>9, <1>10, <1>11,
           <1>12, <1>13, <1>14 DEF Next

(* The invariant holds in every state. *)
LEMMA Invariant == Spec => []IInv
  BY InitIInv, NextIInv, PTL DEF Spec

(* The variables always have their types, whatever the files held at first: *)
(* no command, crash or restart makes an amount that is not a uint32_t, or  *)
(* a wallet that is not a key the client knows.                             *)
THEOREM TypeCorrect == Spec => []TypeOK
<1>1. IInv => TypeOK
  BY DEF IInv
<1> QED BY <1>1, Invariant, PTL

(* No two pending transactions ever refer to the same output (used_in_pool, *)
(* check_unspent), whatever files are loaded between two sends and however  *)
(* few bytes of the digests are compared.                                   *)
THEOREM PoolAlwaysDisjoint == Spec => []PoolDisjoint
<1>1. IInv => PoolDisjoint
  BY DEF IInv
<1> QED BY <1>1, Invariant, PTL

(* mine only ever adds a block to a block whose hash is right, at the next  *)
(* index and with that hash (block_is_valid), whatever chain was loaded.    *)
(* When the index wraps to 0 the block is compared with the genesis block,  *)
(* which has no coinbase, and is refused.                                   *)
LEMMA SoundTailStep ==
  ASSUME IInv, NEW time \in Times, Mine(time)
  PROVE  /\ BlockHash(LastBlock) = LastBlock.hash
         /\ LastBlock'.info.prev_hash = LastBlock.hash
         /\ LastBlock'.info.index = (LastBlock.info.index + 1) % UINT32
<1> DEFINE block == BlockMine(DraftBlock(time))
<1>1. /\ block.info.index = (LastBlock.info.index + 1) % UINT32
      /\ block.info.prev_hash = LastBlock.hash
      /\ block.transactions = <<CoinbaseCreate(wallet, block.info.index)>>
                                \o Purge(pool, unspent)
  BY MinedFields
<1>2. BlockIsValid(block, LastBlock, unspent) /\ chain' = Append(chain, block)
  BY DEF Mine
<1> HIDE DEF block
<1>3. LastBlock' = block
  <2>1. /\ IsSeq(chain')
        /\ Len(chain') = Len(chain) + 1
        /\ chain'[Len(chain) + 1] = block
    BY <1>2, AppendMembers DEF IInv, TypeOK
  <2> QED BY <2>1 DEF LastBlock
<1>4. block # GenesisBlock
  <2>1. Len(block.transactions) > 0
    BY <1>1, MinedTransactions DEF IInv, TypeOK, PoolDisjoint
  <2>2. Len(GenesisBlock.transactions) = 0
    BY DEF GenesisBlock
  <2> QED BY <2>1, <2>2
<1>5. BlockHash(LastBlock) = LastBlock.hash
  BY <1>2, <1>4 DEF BlockIsValid
<1> QED BY <1>1, <1>3, <1>5

(* A block is only mined on a sound last block, at the next index and with  *)
(* its hash, also when the index wraps around.                              *)
THEOREM OnlySoundTail == Spec => OnlySoundTailExtended
<1>1. IInv /\ [Next]_vars =>
        [(\E time \in Times : Mine(time)) =>
            /\ BlockHash(LastBlock) = LastBlock.hash
            /\ LastBlock'.info.prev_hash = LastBlock.hash
            /\ LastBlock'.info.index = (LastBlock.info.index + 1) % UINT32]_vars
  BY SoundTailStep
<1> QED BY <1>1, Invariant, PTL DEF Spec, OnlySoundTailExtended

-----------------------------------------------------------------------------
(* The pool from one step to the next.                                      *)

(* What PendingKeptOrMined says of one pending transaction in one step. *)
Kept(i) ==
    \/ pool[i] \in {pool'[j] : j \in 1..Len(pool')}
    \/ ~TransactionIsValid(pool[i], unspent)
    \/ /\ Len(chain') = Len(chain) + 1
       /\ pool[i] \in {LastBlock'.transactions[t] :
                         t \in 2..Len(LastBlock'.transactions)}

(* A command that leaves the pool alone keeps everything in it. *)
LEMMA SamePoolKeeps ==
  ASSUME IInv, pool' = pool, NEW i \in 1..Len(pool)
  PROVE  Kept(i)
  BY DEF Kept

(* A valid transaction is behind the coinbase of the block that mine adds. *)
LEMMA MineKeeps ==
  ASSUME IInv, NEW time, Mine(time), NEW i \in 1..Len(pool)
  PROVE  Kept(i)
<1> SUFFICES ASSUME TransactionIsValid(pool[i], unspent) PROVE Kept(i)
  BY DEF Kept
<1> DEFINE block == BlockMine(DraftBlock(time))
           coinbase == CoinbaseCreate(wallet, block.info.index)
           kept == Purge(pool, unspent)
           E == Members(pool)
<1>1. block.transactions = <<coinbase>> \o kept
  BY MinedFields
<1>2. pool \in Seq(E)
  BY SeqOfMembers DEF IInv, TypeOK, IsTransactionList
<1>3. PICK j \in 1..Len(kept) : kept[j] = pool[i]
  <2> HIDE DEF E
  <2> QED BY <1>2, PurgeKeeps
<1>4. kept \in Seq(E)
  <2> HIDE DEF E
  <2> QED BY <1>2, PurgeDisjoint DEF IInv, PoolDisjoint
<1>5. chain' = Append(chain, block)
  BY DEF Mine
<1> HIDE DEF block, coinbase, kept, E
<1>6. /\ IsSeq(chain')
      /\ Len(chain') = Len(chain) + 1
      /\ chain'[Len(chain) + 1] = block
  BY <1>5, AppendMembers DEF IInv, TypeOK
<1>7. LastBlock' = block
  BY <1>6 DEF LastBlock
<1>8. j + 1 \in 2..Len(block.transactions) /\ block.transactions[j + 1] = pool[i]
  <2> DEFINE D == E \cup {coinbase}
  <2>1. kept \in Seq(D) /\ <<coinbase>> \in Seq(D)
    BY <1>4
  <2> HIDE DEF D
  <2>2. Len(kept) \in Nat /\ Len(<<coinbase>>) = 1
    BY <2>1
  <2>3. Len(block.transactions) = Len(kept) + 1
    BY <1>1, <2>1
  <2>4. block.transactions[j + 1] = kept[j]
    BY <1>1, <2>1, <2>2
  <2> QED BY <1>3, <2>2, <2>3, <2>4
<1> QED BY <1>6, <1>7, <1>8 DEF Kept

(* A refused block leaves the valid transactions in the pool. *)
LEMMA MineRejectedKeeps ==
  ASSUME IInv, NEW time, MineRejected(time), NEW i \in 1..Len(pool)
  PROVE  Kept(i)
<1> SUFFICES ASSUME TransactionIsValid(pool[i], unspent) PROVE Kept(i)
  BY DEF Kept
<1>1. pool' = Purge(pool, unspent)
  BY DEF MineRejected
<1>2. pool \in Seq(Members(pool))
  BY SeqOfMembers DEF IInv, TypeOK, IsTransactionList
<1>3. \E j \in 1..Len(pool') : pool'[j] = pool[i]
  BY <1>1, <1>2, PurgeKeeps
<1> QED BY <1>3 DEF Kept

(* send only appends to the pool. *)
LEMMA SendKeeps ==
  ASSUME IInv, NEW amount, NEW receiver, Send(amount, receiver), NEW i \in 1..Len(pool)
  PROVE  Kept(i)
<1>1. PICK tx : pool' = Append(pool, tx)
  BY DEF Send
<1>2. IsSeq(pool)
  BY DEF IInv, TypeOK, IsTransactionList
<1>3. Len(pool') = Len(pool) + 1 /\ pool'[i] = pool[i]
  BY <1>1, <1>2, AppendMembers
<1>4. i \in 1..Len(pool')
  BY <1>2, <1>3 DEF IsSeq
<1> QED BY <1>3, <1>4 DEF Kept

(* A process that ended is not running, and the next one finds an empty     *)
(* pool.                                                                    *)
LEMMA StepKeeps ==
  ASSUME IInv, Next, status' = "running", NEW i \in 1..Len(pool)
  PROVE  Kept(i)
<1>1. CASE \E amount \in Amounts, receiver \in UNION {Receivers(a) : a \in Addresses} :
             Send(amount, receiver)
  BY <1>1, SendKeeps
<1>2. CASE \E time \in Times : Mine(time)
  BY <1>2, MineKeeps
<1>3. CASE \E time \in Times : MineRejected(time)
  BY <1>3, MineRejectedKeeps
<1>4. CASE pool' = pool
  BY <1>4, SamePoolKeeps
<1>5. CASE \E how, code : Forgets(how, code) /\ how # "running"
  BY <1>5 DEF Forgets
<1> QED
  BY <1>1, <1>2, <1>3, <1>4, <1>5
  DEF Next, WalletCreate, WalletLoad, WalletLoadFails, WalletSave, WalletSaveFails,
      WalletSaveLost, WalletSaveCrashes, Fails, memory, SendFails, MineCrashes, MineFails,
      List, ListCrashes, Save, Load, LoadFails, Show, Misused, BlankCrashes, Exit, Launch,
      LaunchCrashes, Crashes, Ends

(* A pending transaction that is valid leaves the pool of a running client  *)
(* into the block that mine adds, and in no other way (handle_send,         *)
(* handle_load, mine), whatever chain is loaded in between.                 *)
THEOREM PendingNeverLost == Spec => PendingKeptOrMined
<1>1. IInv /\ [Next]_vars =>
        [status' = "running" => \A i \in 1..Len(pool) : Kept(i)]_vars
  BY StepKeeps
<1>2. [status' = "running" => \A i \in 1..Len(pool) : Kept(i)]_vars
        => [status' = "running" =>
              \A i \in 1..Len(pool) :
                 \/ pool[i] \in {pool'[j] : j \in 1..Len(pool')}
                 \/ ~TransactionIsValid(pool[i], unspent)
                 \/ /\ Len(chain') = Len(chain) + 1
                    /\ pool[i] \in {LastBlock'.transactions[t] :
                                      t \in 2..Len(LastBlock'.transactions)}]_vars
  BY DEF Kept
<1> QED BY <1>1, <1>2, Invariant, PTL DEF Spec, PendingKeptOrMined

(* A command that reports an error and does not end the process leaves the  *)
(* blockchain, the list of unspent outputs and the files as they were.      *)
LEMMA FailureStep ==
  ASSUME Next, status' = "running", ret' = -1
  PROVE  UNCHANGED <<chain, unspent, files>>
<1>1. CASE \E time \in Times : MineRejected(time)
  BY <1>1 DEF MineRejected, disk
<1>2. CASE Fails
  BY <1>2 DEF Fails, memory, disk
<1>3. CASE ret' = 0
  BY <1>3
<1>4. CASE \E how, code : Forgets(how, code) /\ how # "running"
  BY <1>4 DEF Forgets
<1>5. CASE WalletSaveFails \/ WalletLoadFails \/ \E folder \in Folders : WalletSaveLost(folder)
  BY <1>5 DEF WalletSaveFails, WalletLoadFails, WalletSaveLost, Fails, memory, disk
<1> QED
  BY <1>1, <1>2, <1>3, <1>4, <1>5
  DEF Next, WalletCreate, WalletLoad, WalletSave, WalletSaveCrashes, Send, SendFails, Mine,
      MineCrashes, MineFails, List, ListCrashes, Save, Load, LoadFails, Show,
      Misused, BlankCrashes, Exit, Launch, LaunchCrashes, Crashes, Ends

(* handle_mine updates the blockchain after block_is_valid and not before,  *)
(* and no other command that returns -1 touches it, whatever was loaded.    *)
THEOREM FailureChangesNothing == Spec => FailureKeepsBlockchain
<1>1. [Next]_vars =>
        [status' = "running" /\ ret' = -1 => UNCHANGED <<chain, unspent, files>>]_vars
  BY FailureStep
<1> QED BY <1>1, PTL DEF Spec, FailureKeepsBlockchain

-----------------------------------------------------------------------------
(***************************************************************************)
(* Theorems about the chain and the list of unspent outputs. A loaded file *)
(* is not checked by the code, so they assume of the files of earlier      *)
(* sessions what they show of the ledger in memory and of the files that   *)
(* the client writes.                                                      *)
(***************************************************************************)

-----------------------------------------------------------------------------
(* What a step does to the ledger: the chain, the list and the files.       *)

SameFiles == files' = files

(* A step that leaves chain and list alone. *)
SameLedger == chain' = chain /\ unspent' = unspent

(* What a step can do to files, chain and list: nothing, mine, sort the     *)
(* list, save, or load.                                                     *)
LEMMA LedgerStep ==
  ASSUME [Next]_vars
  PROVE  \/ SameFiles /\ SameLedger
         \/ SameFiles /\ \E time \in Times : Mine(time)
         \/ SameFiles /\ chain' = chain /\ unspent' = SortByAmount(unspent)
         \/ /\ SameLedger
            /\ \E path \in Paths :
                 files' = [files EXCEPT ![path] = ChainFile(chain, unspent)]
         \/ /\ SameFiles
            /\ \E path \in Paths : /\ files[path].kind = "chain"
                                   /\ chain' = files[path].chain
                                   /\ unspent' = files[path].unspent
         \/ SameFiles /\ chain' = <<GenesisBlock>> /\ unspent' = <<>>
<1> USE DEF SameFiles, SameLedger
<1>1. CASE \E time \in Times : Mine(time)
  BY <1>1 DEF Mine, disk
<1>2. CASE List
  BY <1>2 DEF List, disk
<1>3. CASE \E path \in Paths : Save(path)
  BY <1>3 DEF Save, memory
<1>4. CASE \E path \in Paths : Load(path)
  BY <1>4 DEF Load, disk
<1>5. CASE \E how, code : Forgets(how, code)
  BY <1>5 DEF Forgets
<1>6. CASE Fails
  BY <1>6 DEF Fails, memory, disk
<1>7. CASE UNCHANGED vars
  BY <1>7 DEF vars, memory, disk
<1>8. CASE \E amount, receiver : Send(amount, receiver)
  BY <1>8 DEF Send, disk
<1>9. CASE \E time \in Times : MineRejected(time)
  BY <1>9 DEF MineRejected, disk
<1>10. CASE Show \/ Launch \/ LaunchCrashes
  BY <1>10 DEF Show, Launch, LaunchCrashes, memory, disk
<1>11. CASE WalletCreate \/ WalletLoadFails \/ \E folder \in Folders :
              WalletLoad(folder) \/ WalletSave(folder) \/ WalletSaveLost(folder)
  BY <1>11 DEF WalletCreate, WalletLoad, WalletLoadFails, WalletSave, WalletSaveLost,
     memory, disk
<1> QED
  BY <1>1, <1>2, <1>3, <1>4, <1>5, <1>6, <1>7, <1>8, <1>9, <1>10, <1>11
  DEF Next, WalletSaveFails, WalletSaveCrashes, SendFails, MineCrashes, MineFails,
      ListCrashes, LoadFails, Misused, BlankCrashes, Exit, Crashes, Ends

(* What the block is that mine adds. *)
LEMMA MinedBlock ==
  ASSUME IInv, NEW time, Mine(time), NEW block, block = BlockMine(DraftBlock(time))
  PROVE  /\ chain' = Append(chain, block)
         /\ unspent' = UpdateUnspent(block.transactions, block.hash, unspent)
         /\ block.info.index # 0
         /\ BlockIsValid(block, LastBlock, unspent)
         /\ IsTransactionList(block.transactions)
         /\ Len(block.transactions) > 0
<1>1. block.transactions = <<CoinbaseCreate(wallet, block.info.index)>>
                             \o Purge(pool, unspent)
  BY MinedFields
<1>2. IsTransactionList(block.transactions) /\ Len(block.transactions) > 0
  BY <1>1, MinedTransactions DEF IInv, TypeOK, PoolDisjoint
<1>3. /\ BlockIsValid(block, LastBlock, unspent)
      /\ chain' = Append(chain, block)
      /\ unspent' = UpdateUnspent(block.transactions, block.hash, unspent)
  BY DEF Mine
<1>4. block.info.index # 0
  <2>1. Len(GenesisBlock.transactions) = 0
    BY DEF GenesisBlock
  <2> QED BY <1>2, <1>3, <2>1 DEF BlockIsValid
<1> QED BY <1>2, <1>3, <1>4

-----------------------------------------------------------------------------
(* The chain stays linked.                                                  *)

LinkedFiles(f) ==
    \A path \in Paths : f[path].kind = "chain" => Linked(f[path].chain)

(* mine links its block to the last one. *)
LEMMA MineLinked ==
  ASSUME IInv, ChainLinked, NEW time, Mine(time)
  PROVE  ChainLinked'
<1> DEFINE block == BlockMine(DraftBlock(time))
           N == Len(chain)
<1>1. /\ chain' = Append(chain, block)
      /\ block.info.index # 0
      /\ BlockIsValid(block, LastBlock, unspent)
  BY MinedBlock
<1> HIDE DEF block
<1>2. /\ N \in Nat /\ N > 0
      /\ Len(chain') = N + 1
      /\ \A b \in 1..N : chain'[b] = chain[b]
      /\ chain'[N + 1] = block
  BY <1>1, AppendMembers DEF IInv, TypeOK, IsSeq, ChainLinked, Linked
<1>3. chain'[1] = GenesisBlock
  BY <1>2 DEF ChainLinked, Linked
<1>4. ASSUME NEW b \in 2..Len(chain')
      PROVE  /\ chain'[b].info.index = (chain'[b - 1].info.index + 1) % UINT32
             /\ chain'[b].info.prev_hash = chain'[b - 1].hash
             /\ chain'[b].hash = BlockHash(chain'[b])
             /\ HashMatchesDifficulty(chain'[b].hash, chain'[b].info.difficulty)
             /\ Len(chain'[b].transactions) > 0
             /\ CoinbaseIsValid(chain'[b].transactions[1], chain'[b].info.index)
  <2>1. CASE b = N + 1
    <3>1. chain'[b] = block /\ chain'[b - 1] = LastBlock
      BY <1>2, <2>1 DEF LastBlock
    <3> QED BY <1>1, <3>1 DEF BlockIsValid, ValidateTransactions
  <2>2. CASE b \in 2..N
    <3>1. b \in 1..N /\ b - 1 \in 1..N
      BY <1>2, <2>2
    <3>2. chain'[b] = chain[b] /\ chain'[b - 1] = chain[b - 1]
      BY <1>2, <3>1
    <3> QED BY <2>2, <3>2 DEF ChainLinked, Linked
  <2> QED BY <1>2, <2>1, <2>2
<1> QED BY <1>2, <1>3, <1>4 DEF ChainLinked, Linked

(* However the chain in memory was made, by mining, by loading a file of    *)
(* an earlier session or of another owner, or by both in any order, it is   *)
(* one chain from the genesis block, and so is every file that is saved: if *)
(* the files were sound that were there first (block_is_valid, handle_load, *)
(* handle_save).                                                            *)
THEOREM ChainStaysLinked ==
  ASSUME \A f \in InitialFiles : LinkedFiles(f)
  PROVE  Spec => []ChainLinked
<1> DEFINE Inv == ChainLinked /\ LinkedFiles(files)
<1>1. Init => Inv
  BY DEF Init, ChainLinked, Linked
<1>2. IInv /\ Inv /\ [Next]_vars => Inv'
  <2> SUFFICES ASSUME IInv, Inv, [Next]_vars PROVE Inv'
    OBVIOUS
  <2>1. CASE SameFiles /\ SameLedger
    BY <2>1 DEF SameFiles, SameLedger, ChainLinked, LinkedFiles
  <2>2. CASE SameFiles /\ \E time \in Times : Mine(time)
    BY <2>2, MineLinked DEF SameFiles, LinkedFiles
  <2>3. CASE SameFiles /\ chain' = chain
    BY <2>3 DEF SameFiles, ChainLinked, LinkedFiles
  <2>4. CASE SameLedger /\ \E path \in Paths :
                 files' = [files EXCEPT ![path] = ChainFile(chain, unspent)]
    BY <2>4 DEF SameLedger, ChainLinked, LinkedFiles, ChainFile, IInv, TypeOK, AreFiles
  <2>5. CASE SameFiles /\ \E path \in Paths : /\ files[path].kind = "chain"
                                              /\ chain' = files[path].chain
    BY <2>5 DEF SameFiles, ChainLinked, LinkedFiles
  <2>6. CASE SameFiles /\ chain' = <<GenesisBlock>>
    <3>1. Linked(<<GenesisBlock>>)
      BY DEF Linked
    <3> QED BY <2>6, <3>1 DEF SameFiles, ChainLinked, LinkedFiles
  <2> QED BY <2>1, <2>2, <2>3, <2>4, <2>5, <2>6, LedgerStep
<1> QED BY <1>1, <1>2, Invariant, PTL DEF Spec

-----------------------------------------------------------------------------
(* Every spend is signed by the owner of an output of an earlier block.     *)

LEMMA ChainPositions ==
  ASSUME NEW c
  PROVE  /\ \A b \in 1..Len(c) : \A t \in 1..Len(c[b].transactions) :
              \A o \in 1..Len(c[b].transactions[t].outputs) :
                 <<b, t, o>> \in Outputs(c)
         /\ \A p \in Outputs(c) : \E b, t, o :
              /\ p = <<b, t, o>>
              /\ b \in 1..Len(c) /\ t \in 1..Len(c[b].transactions)
              /\ o \in 1..Len(c[b].transactions[t].outputs)
         /\ \A p \in Inputs(c) : \E b, t, n :
              /\ p = <<b, t, n>>
              /\ b \in 1..Len(c) /\ t \in 2..Len(c[b].transactions)
              /\ n \in 1..Len(c[b].transactions[t].inputs)
<1>1. ASSUME NEW b \in 1..Len(c), NEW t \in 1..Len(c[b].transactions),
             NEW o \in 1..Len(c[b].transactions[t].outputs)
      PROVE  <<b, t, o>> \in Outputs(c)
  BY DEF Outputs
<1>2. ASSUME NEW p \in Outputs(c)
      PROVE  \E b, t, o : /\ p = <<b, t, o>>
                          /\ b \in 1..Len(c) /\ t \in 1..Len(c[b].transactions)
                          /\ o \in 1..Len(c[b].transactions[t].outputs)
  <2>1. PICK b \in 1..Len(c) :
          p \in UNION {{<<b, t, o>> : o \in 1..Len(c[b].transactions[t].outputs)}
                         : t \in 1..Len(c[b].transactions)}
    BY DEF Outputs
  <2>2. PICK t \in 1..Len(c[b].transactions) :
          p \in {<<b, t, o>> : o \in 1..Len(c[b].transactions[t].outputs)}
    BY <2>1
  <2> QED BY <2>2
<1>3. ASSUME NEW p \in Inputs(c)
      PROVE  \E b, t, n : /\ p = <<b, t, n>>
                          /\ b \in 1..Len(c) /\ t \in 2..Len(c[b].transactions)
                          /\ n \in 1..Len(c[b].transactions[t].inputs)
  <2>1. PICK b \in 1..Len(c) :
          p \in UNION {{<<b, t, n>> : n \in 1..Len(c[b].transactions[t].inputs)}
                         : t \in 2..Len(c[b].transactions)}
    BY DEF Inputs
  <2>2. PICK t \in 2..Len(c[b].transactions) :
          p \in {<<b, t, n>> : n \in 1..Len(c[b].transactions[t].inputs)}
    BY <2>1
  <2> QED BY <2>2
<1> QED BY <1>1, <1>2, <1>3

(* A position of an output stays one, of the same output, on a longer chain. *)
LEMMA LongerChain ==
  ASSUME NEW c, Len(c) \in Nat, NEW d, Len(d) = Len(c) + 1,
         \A b \in 1..Len(c) : d[b] = c[b],
         NEW q \in Outputs(c)
  PROVE  /\ q \in Outputs(d)
         /\ q[1] \in 1..Len(c)
         /\ ReferenceAt(d, q) = ReferenceAt(c, q)
         /\ OutputAt(d, q) = OutputAt(c, q)
<1>1. PICK b, t, o : /\ q = <<b, t, o>>
                     /\ b \in 1..Len(c) /\ t \in 1..Len(c[b].transactions)
                     /\ o \in 1..Len(c[b].transactions[t].outputs)
  BY ChainPositions
<1>2. d[b] = c[b] /\ b \in 1..Len(d)
  BY <1>1
<1>3. q \in Outputs(d)
  BY <1>1, <1>2, ChainPositions
<1> QED BY <1>1, <1>2, <1>3 DEF ReferenceAt, OutputAt, TransactionAt

(* An entry of the list is an output that is on the chain. *)
OnChain(c, entry) ==
    \E q \in Outputs(c) : /\ ReferenceAt(c, q) = Reference(TxInCreate(entry))
                          /\ OutputAt(c, q) = entry.out

(* Every spend on the chain is authorised, and every entry of the list is   *)
(* an output of the chain.                                                  *)
SoundLedger(c, u) ==
    /\ Authorised(c)
    /\ \A i \in 1..Len(u) : OnChain(c, u[i])

(* The files that hold a blockchain hold a sound one. *)
SoundFiles(f) ==
    \A path \in Paths :
        f[path].kind = "chain" => SoundLedger(f[path].chain, f[path].unspent)

(* What an input of a valid transaction refers to is in the list, and its   *)
(* signature is that of the owner.                                          *)
LEMMA ValidInput ==
  ASSUME NEW tx, NEW u, IsSeq(u), TransactionIsValid(tx, u),
         NEW n \in 1..Len(tx.inputs)
  PROVE  \E k \in 1..Len(u) :
            /\ Reference(tx.inputs[n]) = Reference(TxInCreate(u[k]))
            /\ tx.inputs[n].sig = Signature(u[k].out.pub, tx.id)
<1> DEFINE hits == {k \in 1..Len(u) : InOutMatch(tx.inputs[n], u[k])}
           k == First(hits)
<1>1. k # 0 /\ Verify(u[k].out.pub, tx.id, tx.inputs[n].sig)
  BY DEF TransactionIsValid
<1>2. hits # {}
  BY <1>1 DEF First
<1>3. Len(u) \in Nat /\ hits \subseteq 1..Len(u)
  BY DEF IsSeq
<1>4. k \in hits
  <2> HIDE DEF hits
  <2> QED BY <1>2, <1>3, FirstHit
<1> QED BY <1>1, <1>4 DEF InOutMatch, Verify

(* mine keeps the ledger sound. *)
LEMMA MineAuthorised ==
  ASSUME IInv, SoundLedger(chain, unspent), NEW time, Mine(time)
  PROVE  SoundLedger(chain', unspent')
<1> DEFINE block == BlockMine(DraftBlock(time))
           N == Len(chain)
<1>1. /\ chain' = Append(chain, block)
      /\ unspent' = UpdateUnspent(block.transactions, block.hash, unspent)
      /\ block.info.index # 0
      /\ BlockIsValid(block, LastBlock, unspent)
      /\ IsTransactionList(block.transactions)
  BY MinedBlock
<1>2. \A t \in 2..Len(block.transactions) : TransactionIsValid(block.transactions[t], unspent)
  BY <1>1 DEF BlockIsValid, ValidateTransactions
<1> HIDE DEF block
<1>3. IsSeq(chain) /\ IsSeq(unspent) /\ N \in Nat
  BY DEF IInv, TypeOK, IsUnspentList, IsSeq
<1>4. /\ Len(chain') = N + 1
      /\ chain'[N + 1] = block
      /\ \A b \in 1..N : chain'[b] = chain[b]
      /\ \A q \in Outputs(chain) : /\ q \in Outputs(chain')
                                   /\ q[1] \in 1..N
                                   /\ ReferenceAt(chain', q) = ReferenceAt(chain, q)
                                   /\ OutputAt(chain', q) = OutputAt(chain, q)
  <2>1. /\ Len(chain') = N + 1
        /\ chain'[N + 1] = block
        /\ \A b \in 1..N : chain'[b] = chain[b]
    BY <1>1, <1>3, AppendMembers
  <2> QED BY <1>3, <2>1, LongerChain
<1>5. \A entry : OnChain(chain, entry) => OnChain(chain', entry)
  BY <1>4 DEF OnChain
<1>6. ASSUME NEW p \in Inputs(chain')
      PROVE  \E q \in Outputs(chain') :
                /\ q[1] < p[1]
                /\ ReferenceAt(chain', q) = Reference(InputAt(chain', p))
                /\ InputAt(chain', p).sig
                     = Signature(OutputAt(chain', q).pub, TransactionAt(chain', p).id)
  <2>1. PICK b, t, n : /\ p = <<b, t, n>>
                       /\ b \in 1..Len(chain') /\ t \in 2..Len(chain'[b].transactions)
                       /\ n \in 1..Len(chain'[b].transactions[t].inputs)
    BY ChainPositions
  <2>2. CASE b \in 1..N
    <3>1. p \in Inputs(chain)
      BY <1>4, <2>1, <2>2 DEF Inputs
    <3>2. /\ InputAt(chain', p) = InputAt(chain, p)
          /\ TransactionAt(chain', p) = TransactionAt(chain, p)
      BY <1>4, <2>1, <2>2 DEF InputAt, TransactionAt
    <3>3. PICK q \in Outputs(chain) :
             /\ q[1] < p[1]
             /\ ReferenceAt(chain, q) = Reference(InputAt(chain, p))
             /\ InputAt(chain, p).sig
                  = Signature(OutputAt(chain, q).pub, TransactionAt(chain, p).id)
      BY <3>1 DEF SoundLedger, Authorised
    <3> QED BY <1>4, <3>2, <3>3
  <2>3. CASE b = N + 1
    <3> DEFINE tx == block.transactions[t]
    <3>1. TransactionAt(chain', p) = tx /\ InputAt(chain', p) = tx.inputs[n]
      BY <1>4, <2>1, <2>3 DEF TransactionAt, InputAt
    <3>2. TransactionIsValid(tx, unspent) /\ n \in 1..Len(tx.inputs)
      BY <1>2, <1>4, <2>1, <2>3
    <3> HIDE DEF tx
    <3>3. PICK k \in 1..Len(unspent) :
             /\ Reference(tx.inputs[n]) = Reference(TxInCreate(unspent[k]))
             /\ tx.inputs[n].sig = Signature(unspent[k].out.pub, tx.id)
      BY <1>3, <3>2, ValidInput
    <3>4. PICK q \in Outputs(chain) :
             /\ ReferenceAt(chain, q) = Reference(TxInCreate(unspent[k]))
             /\ OutputAt(chain, q) = unspent[k].out
      BY DEF SoundLedger, OnChain
    <3>5. p[1] = N + 1 /\ q[1] \in 1..N
      BY <1>4, <2>1, <2>3
    <3>6. q[1] < p[1]
      BY <1>3, <3>5
    <3> QED BY <1>4, <3>1, <3>3, <3>4, <3>6
  <2>4. b \in 1..N \/ b = N + 1
    BY <1>3, <1>4, <2>1
  <2> QED BY <2>2, <2>3, <2>4
<1>7. ASSUME NEW i \in 1..Len(unspent') PROVE OnChain(chain', unspent'[i])
  <2>1. \/ \E k \in 1..Len(unspent) : unspent'[i] = unspent[k]
        \/ \E t \in 1..Len(block.transactions) :
             \E o \in 1..Len(block.transactions[t].outputs) :
                unspent'[i] = UnspentTxOutCreate(block.hash, block.transactions[t].id,
                                                 block.transactions[t].outputs[o])
    BY <1>1, <1>3, UpdatedMembers, SMTT(30)
  <2>2. CASE \E k \in 1..Len(unspent) : unspent'[i] = unspent[k]
    BY <1>5, <2>2 DEF SoundLedger
  <2>3. ASSUME NEW t \in 1..Len(block.transactions),
               NEW o \in 1..Len(block.transactions[t].outputs),
               unspent'[i] = UnspentTxOutCreate(block.hash, block.transactions[t].id,
                                                block.transactions[t].outputs[o])
        PROVE  OnChain(chain', unspent'[i])
    <3> DEFINE q == <<N + 1, t, o>>
    <3>1. N + 1 \in 1..Len(chain')
      BY <1>3, <1>4
    <3>2. q \in Outputs(chain')
      BY <1>4, <3>1, ChainPositions
    <3>3. /\ ReferenceAt(chain', q) = Reference(TxInCreate(unspent'[i]))
          /\ OutputAt(chain', q) = unspent'[i].out
      <4>1. /\ chain'[q[1]].hash = block.hash
            /\ TransactionAt(chain', q) = block.transactions[t]
            /\ OutputAt(chain', q) = block.transactions[t].outputs[o]
        BY <1>4 DEF OutputAt, TransactionAt
      <4>2. /\ unspent'[i].block_hash = block.hash
            /\ unspent'[i].tx_id = block.transactions[t].id
            /\ unspent'[i].out = block.transactions[t].outputs[o]
        BY <2>3 DEF UnspentTxOutCreate
      <4> HIDE DEF q
      <4> QED BY <4>1, <4>2 DEF ReferenceAt, Reference, TxInCreate
    <3> QED BY <3>2, <3>3 DEF OnChain
  <2> QED BY <2>1, <2>2, <2>3
<1> QED BY <1>6, <1>7 DEF SoundLedger, Authorised

(* list only sorts. *)
LEMMA ListSound ==
  ASSUME IInv, SoundLedger(chain, unspent), chain' = chain,
         unspent' = SortByAmount(unspent)
  PROVE  SoundLedger(chain', unspent')
<1> DEFINE E == Members(unspent)
<1>1. unspent \in Seq(E)
  BY SeqOfMembers DEF IInv, TypeOK, IsUnspentList
<1>2. \A e \in E : OnChain(chain, e)
  BY DEF SoundLedger, Members
<1> HIDE DEF E
<1>3. \A i \in 1..Len(unspent') : unspent'[i] \in E
  BY <1>1, SortType, SeqIsSeq
<1> QED BY <1>2, <1>3 DEF SoundLedger

(* No input gets on the chain that does not refer to an output of an        *)
(* earlier block and carry its owner's signature of the transaction         *)
(* (transaction_is_valid, block_is_valid), whatever is loaded in between,   *)
(* if that was so in the files that were there first.                       *)
THEOREM SpendsAlwaysAuthorised ==
  ASSUME \A f \in InitialFiles : SoundFiles(f)
  PROVE  Spec => []SpendsAuthorised
<1> DEFINE Inv == SoundLedger(chain, unspent) /\ SoundFiles(files)
<1>1. ASSUME NEW u, u = <<>> PROVE SoundLedger(<<GenesisBlock>>, u)
  <2> DEFINE c == <<GenesisBlock>>
  <2>1. Len(c) = 1 /\ c[1].transactions = <<>>
    BY DEF GenesisBlock
  <2>2. Inputs(c) = {}
    <3> HIDE DEF c
    <3> SUFFICES ASSUME NEW p \in Inputs(c) PROVE FALSE
      OBVIOUS
    <3>1. PICK b, t, n : /\ p = <<b, t, n>>
                         /\ b \in 1..Len(c) /\ t \in 2..Len(c[b].transactions)
                         /\ n \in 1..Len(c[b].transactions[t].inputs)
      BY ChainPositions
    <3>2. b = 1 /\ Len(c[b].transactions) = 0
      BY <2>1, <3>1
    <3> QED BY <3>1, <3>2
  <2> QED BY <1>1, <2>2 DEF SoundLedger, Authorised
<1>2. Init => Inv
  BY <1>1 DEF Init
<1>3. IInv /\ Inv /\ [Next]_vars => Inv'
  <2> SUFFICES ASSUME IInv, Inv, [Next]_vars PROVE Inv'
    OBVIOUS
  <2>1. CASE SameFiles /\ SameLedger
    BY <2>1 DEF SameFiles, SameLedger, SoundFiles
  <2>2. CASE SameFiles /\ \E time \in Times : Mine(time)
    BY <2>2, MineAuthorised DEF SameFiles, SoundFiles
  <2>3. CASE SameFiles /\ chain' = chain /\ unspent' = SortByAmount(unspent)
    BY <2>3, ListSound DEF SameFiles, SoundFiles
  <2>4. CASE SameLedger /\ \E path \in Paths :
                 files' = [files EXCEPT ![path] = ChainFile(chain, unspent)]
    BY <2>4 DEF SameLedger, SoundFiles, ChainFile, IInv, TypeOK, AreFiles
  <2>5. CASE /\ SameFiles
             /\ \E path \in Paths : /\ files[path].kind = "chain"
                                    /\ chain' = files[path].chain
                                    /\ unspent' = files[path].unspent
    BY <2>5 DEF SameFiles, SoundFiles
  <2>6. CASE SameFiles /\ chain' = <<GenesisBlock>> /\ unspent' = <<>>
    BY <1>1, <2>6 DEF SameFiles, SoundFiles
  <2> QED BY <2>1, <2>2, <2>3, <2>4, <2>5, <2>6, LedgerStep
<1>4. Inv => SpendsAuthorised
  BY DEF SoundLedger, SpendsAuthorised
<1> QED BY <1>2, <1>3, <1>4, Invariant, PTL DEF Spec

-----------------------------------------------------------------------------
(* What mine builds is valid.                                               *)

(* Blocks are numbered from 0, as long as the number is a uint32_t. *)
Numbered(c) == \A b \in 1..Len(c) : c[b].info.index = (b - 1) % UINT32

(* The chains of the files are numbered. *)
NumberedFiles(f) == \A path \in Paths : Numbered(f[path].chain)

(* The two changes that mine makes to a block it creates. *)
LEMMA ChangedBlock ==
  ASSUME NEW info, NEW txs, NEW hash, NEW difficulty, NEW newtxs
  PROVE  [[info |-> info, transactions |-> txs, hash |-> hash] EXCEPT
             !.info.difficulty = difficulty, !.transactions = newtxs]
           = [info |-> [info EXCEPT !.difficulty = difficulty],
              transactions |-> newtxs, hash |-> hash]
<1> DEFINE block == [info |-> info, transactions |-> txs, hash |-> hash]
           changed == [info |-> [info EXCEPT !.difficulty = difficulty],
                       transactions |-> txs, hash |-> hash]
<1>1. [block EXCEPT !.info.difficulty = difficulty] = changed
  OBVIOUS
<1>2. [block EXCEPT !.info.difficulty = difficulty, !.transactions = newtxs]
        = [[block EXCEPT !.info.difficulty = difficulty] EXCEPT !.transactions = newtxs]
  <2> HIDE DEF block
  <2> QED OBVIOUS
<1>3. [changed EXCEPT !.transactions = newtxs]
        = [info |-> [info EXCEPT !.difficulty = difficulty],
           transactions |-> newtxs, hash |-> hash]
  OBVIOUS
<1> QED BY <1>1, <1>2, <1>3

(* The block before the proof of work. *)
LEMMA DraftFields ==
  ASSUME NEW time, NEW draft, draft = DraftBlock(time)
  PROVE  /\ draft = [info |-> draft.info, transactions |-> draft.transactions,
                     hash |-> draft.hash]
         /\ draft.info = [index |-> draft.info.index,
                          difficulty |-> draft.info.difficulty,
                          timestamp |-> draft.info.timestamp,
                          nonce |-> draft.info.nonce,
                          prev_hash |-> draft.info.prev_hash]
         /\ draft.info.difficulty = BlockchainDifficulty(chain)
         /\ draft.info.timestamp = time
<1> DEFINE info == [index |-> (LastBlock.info.index + 1) % UINT32, difficulty |-> 0,
                    timestamp |-> time, nonce |-> 0, prev_hash |-> LastBlock.hash]
           created == BlockCreate(LastBlock, time)
           difficulty == BlockchainDifficulty(chain)
           txs == <<CoinbaseCreate(wallet, created.info.index)>> \o Purge(pool, unspent)
<1>1. draft = [created EXCEPT !.info.difficulty = difficulty, !.transactions = txs]
  BY DEF DraftBlock
<1>2. created = [info |-> info, transactions |-> <<>>, hash |-> ZeroHash]
  BY DEF BlockCreate
<1> HIDE DEF txs, difficulty, created
<1>3. draft = [info |-> [info EXCEPT !.difficulty = difficulty],
               transactions |-> txs, hash |-> ZeroHash]
  <2> HIDE DEF info
  <2> QED BY <1>1, <1>2, ChangedBlock
<1>4. draft.info = [index |-> info.index, difficulty |-> difficulty,
                    timestamp |-> time, nonce |-> 0, prev_hash |-> LastBlock.hash]
  BY <1>3
<1> HIDE DEF info
<1> QED BY <1>3, <1>4 DEF difficulty

(* A block with another nonce, or with another hash. *)
LEMMA NonceFields ==
  ASSUME NEW draft, NEW nonce, NEW found, found = WithNonce(draft, nonce),
         draft = [info |-> draft.info, transactions |-> draft.transactions,
                  hash |-> draft.hash],
         draft.info = [index |-> draft.info.index, difficulty |-> draft.info.difficulty,
                       timestamp |-> draft.info.timestamp, nonce |-> draft.info.nonce,
                       prev_hash |-> draft.info.prev_hash]
  PROVE  /\ found = [info |-> found.info, transactions |-> found.transactions,
                     hash |-> found.hash]
         /\ found.info.difficulty = draft.info.difficulty
         /\ found.info.timestamp = draft.info.timestamp
<1>1. found = [info |-> [draft.info EXCEPT !.nonce = nonce],
               transactions |-> draft.transactions, hash |-> draft.hash]
  BY DEF WithNonce
<1>2. found.info = [draft.info EXCEPT !.nonce = nonce]
  BY <1>1
<1>3. found.info.difficulty = draft.info.difficulty
      /\ found.info.timestamp = draft.info.timestamp
  BY <1>2
<1> QED BY <1>1, <1>3

(* The proof of work ends with a block whose hash is right and matches. *)
LEMMA MinedWork ==
  ASSUME NEW time, CanMine(time), NEW block, block = BlockMine(DraftBlock(time))
  PROVE  /\ BlockHash(block) = block.hash
         /\ HashMatchesDifficulty(block.hash, block.info.difficulty)
         /\ block.info.difficulty = BlockchainDifficulty(chain)
         /\ block.info.timestamp = time
<1> DEFINE draft == DraftBlock(time)
           hits == MatchingNonces(draft)
           nonce == CHOOSE n \in hits : \A m \in hits : n <= m
           found == WithNonce(draft, nonce)
<1>1. hits # {} /\ hits \subseteq Nat
  BY BlockAssumption DEF CanMine, MatchingNonces
<1>2. nonce \in hits
  <2> HIDE DEF hits
  <2>1. \E n \in hits : \A m \in hits : n <= m
    BY <1>1, LeastElement
  <2> QED BY <2>1
<1>3. HashMatchesDifficulty(BlockHash(found), draft.info.difficulty)
  <2> HIDE DEF nonce, draft
  <2> QED BY <1>2 DEF MatchingNonces
<1>4. block = [found EXCEPT !.hash = BlockHash(found)]
  BY DEF BlockMine
<1>5. /\ draft = [info |-> draft.info, transactions |-> draft.transactions,
                  hash |-> draft.hash]
      /\ draft.info = [index |-> draft.info.index, difficulty |-> draft.info.difficulty,
                       timestamp |-> draft.info.timestamp, nonce |-> draft.info.nonce,
                       prev_hash |-> draft.info.prev_hash]
      /\ draft.info.difficulty = BlockchainDifficulty(chain)
      /\ draft.info.timestamp = time
  <2>1. draft = DraftBlock(time)
    OBVIOUS
  <2> HIDE DEF draft
  <2> QED BY <2>1, DraftFields
<1> HIDE DEF draft, nonce
<1>6. /\ found = [info |-> found.info, transactions |-> found.transactions,
                  hash |-> found.hash]
      /\ found.info.difficulty = draft.info.difficulty
      /\ found.info.timestamp = draft.info.timestamp
  <2>1. found = WithNonce(draft, nonce)
    OBVIOUS
  <2> HIDE DEF found
  <2> QED BY <1>5, <2>1, NonceFields
<1> HIDE DEF found
<1>7. /\ block.hash = BlockHash(found) /\ block.info = found.info
      /\ block.transactions = found.transactions
  BY <1>4, <1>6
<1>8. BlockHash(block) = BlockHash(found)
  BY <1>7 DEF BlockHash
<1> QED BY <1>3, <1>5, <1>6, <1>7, <1>8

(* Its coinbase is valid, and so are the transactions the purge left. *)
LEMMA MinedTransactionsValid ==
  ASSUME IsTransactionList(pool), NEW block,
         block.transactions = <<CoinbaseCreate(wallet, block.info.index)>>
                                \o Purge(pool, unspent)
  PROVE  ValidateTransactions(block, unspent)
<1> DEFINE kept == Purge(pool, unspent)
           coinbase == CoinbaseCreate(wallet, block.info.index)
           txs == block.transactions
<1>1. IsSeq(kept)
  <2>1. pool \in Seq(Members(pool))
    BY SeqOfMembers DEF IsTransactionList
  <2>2. PICK run \in [0..Len(pool) -> Seq(Members(pool))] : kept = run[Len(pool)]
    BY <2>1, PurgeTurns
  <2>3. kept \in Seq(Members(pool))
    BY <2>1, <2>2, SMTT(30)
  <2> HIDE DEF kept
  <2> QED BY <2>3, SeqIsSeq
<1>2. \A i \in 1..Len(kept) : TransactionIsValid(kept[i], unspent)
  <2>1. pool \in Seq(Members(pool))
    BY SeqOfMembers DEF IsTransactionList
  <2> QED BY <2>1, PurgeLeavesValid
<1>3. CoinbaseIsValid(coinbase, block.info.index)
  BY DEF CoinbaseIsValid, CoinbaseCreate, TxOutCreate
<1> HIDE DEF kept, coinbase
<1>4. kept \in Seq(Members(kept)) /\ Len(kept) \in Nat
  BY <1>1, SeqOfMembers
<1>5. /\ Len(txs) = Len(kept) + 1
      /\ txs[1] = coinbase
      /\ \A n \in 2..Len(txs) : txs[n] = kept[n - 1] /\ n - 1 \in 1..Len(kept)
  <2>1. txs = <<coinbase>> \o kept
    BY DEF kept, coinbase
  <2>2. <<coinbase>> \in Seq(Members(kept) \cup {coinbase}) /\ Len(<<coinbase>>) = 1
    OBVIOUS
  <2>3. kept \in Seq(Members(kept) \cup {coinbase})
    BY <1>4
  <2>4. /\ Len(txs) = Len(kept) + 1
        /\ \A n \in 1..(Len(kept) + 1) :
              txs[n] = IF n <= 1 THEN <<coinbase>>[n] ELSE kept[n - 1]
    <3> HIDE DEF txs
    <3> QED BY <1>4, <2>1, <2>2, <2>3
  <2> HIDE DEF txs
  <2> QED BY <1>4, <2>4
<1> QED BY <1>2, <1>3, <1>4, <1>5 DEF ValidateTransactions

(* The index of the new block is its place: it does not wrap around. *)
LEMMA MinedIsNumbered ==
  ASSUME IsSeq(chain), Numbered(chain), MaxBlocks <= UINT32,
         NEW time, CanMine(time), NEW block, block = BlockMine(DraftBlock(time))
  PROVE  block.info.index = Len(chain) /\ Len(chain) \in 1..(UINT32 - 1)
<1>1. /\ Len(chain) \in Nat
      /\ Len(chain) \in 1..(MaxBlocks - 1)
      /\ MaxBlocks \in Nat /\ UINT32 \in Nat \ {0}
  BY CliAssumption, AmountAssumption DEF IsSeq, CanMine
<1>2. LastBlock.info.index = Len(chain) - 1
  <2>1. LastBlock.info.index = (Len(chain) - 1) % UINT32
    BY <1>1 DEF Numbered, LastBlock
  <2> QED BY <1>1, <2>1
<1>3. block.info.index = (LastBlock.info.index + 1) % UINT32
  BY MinedFields
<1> QED BY <1>1, <1>2, <1>3, SMTT(30)

(* mine numbers its block. *)
LEMMA MineNumbered ==
  ASSUME IInv, Numbered(chain), NEW time, Mine(time)
  PROVE  Numbered(chain')
<1> DEFINE block == BlockMine(DraftBlock(time))
           N == Len(chain)
<1>1. chain' = Append(chain, block) /\ block.info.index = (LastBlock.info.index + 1) % UINT32
  BY MinedBlock, MinedFields
<1> HIDE DEF block
<1>2. /\ N \in Nat /\ N > 0
      /\ Len(chain') = N + 1
      /\ \A b \in 1..N : chain'[b] = chain[b]
      /\ chain'[N + 1] = block
  <2>1. N \in Nat /\ N > 0
    BY CliAssumption DEF IInv, TypeOK, IsSeq, Mine, CanMine
  <2> QED BY <1>1, <2>1, AppendMembers DEF IInv, TypeOK
<1>3. LastBlock.info.index = (N - 1) % UINT32
  BY <1>2 DEF Numbered, LastBlock
<1>4. block.info.index = N % UINT32
  <2>1. block.info.index = (((N - 1) % UINT32) + 1) % UINT32
    BY <1>1, <1>3
  <2>2. (((N - 1) % UINT32) + 1) % UINT32 = ((N - 1) + 1) % UINT32
    <3>1. N - 1 \in Int
      BY <1>2
    <3> HIDE DEF N
    <3> QED BY <3>1, RemainderOfSum, AmountAssumption
  <2>3. (N - 1) + 1 = N
    BY <1>2
  <2> QED BY <2>1, <2>2, <2>3
<1>5. ASSUME NEW b \in 1..Len(chain') PROVE chain'[b].info.index = (b - 1) % UINT32
  <2>1. CASE b = N + 1
    BY <1>2, <1>4, <2>1
  <2>2. CASE b \in 1..N
    BY <1>2, <2>2 DEF Numbered
  <2> QED BY <1>2, <2>1, <2>2
<1> QED BY <1>5 DEF Numbered

(* A step keeps the chains numbered. *)
LEMMA NumberedStep ==
  ASSUME IInv, Numbered(chain), NumberedFiles(files), [Next]_vars
  PROVE  Numbered(chain') /\ NumberedFiles(files')
<1>1. CASE SameFiles /\ SameLedger
  BY <1>1 DEF SameFiles, SameLedger
<1>2. CASE SameFiles /\ \E time \in Times : Mine(time)
  BY <1>2, MineNumbered DEF SameFiles
<1>3. CASE SameFiles /\ chain' = chain
  BY <1>3 DEF SameFiles
<1>4. CASE SameLedger /\ \E path \in Paths :
               files' = [files EXCEPT ![path] = ChainFile(chain, unspent)]
  BY <1>4 DEF SameLedger, NumberedFiles, ChainFile, IInv, TypeOK, AreFiles
<1>5. CASE SameFiles /\ \E path \in Paths : chain' = files[path].chain
  BY <1>5 DEF SameFiles, NumberedFiles
<1>6. CASE SameFiles /\ chain' = <<GenesisBlock>>
  <2>1. Len(chain') = 1 /\ chain'[1].info.index = 0
    BY <1>6 DEF GenesisBlock
  <2>2. Numbered(chain')
    <3>1. 0 % UINT32 = 0
      BY AmountAssumption
    <3> QED BY <2>1, <3>1 DEF Numbered
  <2> QED BY <1>6, <2>2 DEF SameFiles
<1> QED BY <1>1, <1>2, <1>3, <1>4, <1>5, <1>6, LedgerStep

(* mine never builds a block that it refuses itself, unless the last block  *)
(* is damaged: coinbase, purge, difficulty and proof of work agree with     *)
(* block_is_valid. Without the bound on the number of blocks that fails:    *)
(* the index of block UINT32 is 0, and it is compared with the genesis      *)
(* block.                                                                   *)
THEOREM MinedAlwaysValid ==
  ASSUME \A f \in InitialFiles : NumberedFiles(f),
         MaxBlocks <= UINT32
  PROVE  Spec => []MinedBlockValid
<1> DEFINE Inv == Numbered(chain) /\ NumberedFiles(files)
<1>1. Init => Inv
  <2> SUFFICES ASSUME Init PROVE Inv
    OBVIOUS
  <2>1. Len(chain) = 1 /\ chain[1].info.index = 0 /\ 0 % UINT32 = 0
    BY AmountAssumption DEF Init, GenesisBlock
  <2> QED BY <2>1 DEF Init, Numbered
<1>2. IInv /\ Inv /\ [Next]_vars => Inv'
  BY NumberedStep
<1>3. IInv /\ Inv => MinedBlockValid
  <2> SUFFICES ASSUME IInv, Inv, NEW time \in Times, CanMine(time),
                      BlockHash(LastBlock) = LastBlock.hash
               PROVE  BlockIsValid(BlockMine(DraftBlock(time)), LastBlock, unspent)
    BY DEF MinedBlockValid
  <2> DEFINE block == BlockMine(DraftBlock(time))
  <2>1. block.info.index # 0
    BY MinedIsNumbered DEF IInv, TypeOK
  <2>2. /\ block.info.index = (LastBlock.info.index + 1) % UINT32
        /\ block.info.prev_hash = LastBlock.hash
        /\ block.transactions = <<CoinbaseCreate(wallet, block.info.index)>>
                                  \o Purge(pool, unspent)
    BY MinedFields
  <2>3. /\ BlockHash(block) = block.hash
        /\ HashMatchesDifficulty(block.hash, block.info.difficulty)
    BY MinedWork
  <2> HIDE DEF block
  <2>4. ValidateTransactions(block, unspent)
    BY <2>2, MinedTransactionsValid DEF IInv, TypeOK
  <2>5. BlockIsValid(block, LastBlock, unspent)
    BY <2>1, <2>2, <2>3, <2>4 DEF BlockIsValid
  <2> QED BY <2>5 DEF block
<1> QED BY <1>1, <1>2, <1>3, Invariant, PTL DEF Spec
-----------------------------------------------------------------------------
(* What the purge leaves is what checking one by one keeps.                 *)

(* The entries an input matches; two lists have the same entry for it when  *)
(* it matches none in both, or its first match is the same entry in both.   *)
Matches(in, u) == {k \in 1..Len(u) : InOutMatch(in, u[k])}

(* An input finds the same entry in both lists, or none in either. *)
SameEntry(in, w, u) ==
    /\ Matches(in, w) = {} <=> Matches(in, u) = {}
    /\ Matches(in, u) # {} => w[First(Matches(in, w))] = u[First(Matches(in, u))]

(* The references of the inputs of a transaction. *)
References(tx) == {Reference(tx.inputs[n]) : n \in 1..Len(tx.inputs)}

(* The first hit is the one that no other precedes. *)
LEMMA FirstIs ==
  ASSUME NEW N \in Nat, NEW hits, hits \subseteq 1..N, NEW f \in hits,
         \A j \in hits : f <= j
  PROVE  First(hits) = f
<1>1. First(hits) \in hits /\ \A j \in hits : First(hits) <= j
  BY FirstHit
<1>2. First(hits) \in 1..N /\ f \in 1..N
  BY <1>1
<1>3. First(hits) <= f /\ f <= First(hits)
  BY <1>1
<1> QED BY <1>2, <1>3

(* Removing the entry of one input leaves the entries of inputs that refer  *)
(* to something else.                                                       *)
LEMMA OtherEntry ==
  ASSUME NEW E, NEW u \in Seq(E), NEW gone, NEW in, Reference(gone) # Reference(in)
  PROVE  SameEntry(in, RemoveNode(u, Matches(gone, u)), u)
<1> DEFINE N == Len(u)
           hits == Matches(gone, u)
           k == First(hits)
           w == RemoveNode(u, hits)
           f == First(Matches(in, u))
<1> SUFFICES SameEntry(in, w, u)
  OBVIOUS
<1>1. N \in Nat /\ hits \subseteq 1..N /\ Matches(in, u) \subseteq 1..N
  BY DEF Matches
<1>2. CASE hits = {}
  BY <1>2 DEF RemoveNode, SameEntry
<1>3. CASE hits # {}
  <2>1. k \in hits
    BY <1>1, <1>3, FirstHit
  <2>2. k \in 1..N /\ k \notin Matches(in, u)
    BY <2>1 DEF Matches, InOutMatch
  <2> HIDE DEF k
  <2>3. /\ Len(w) = N - 1
        /\ \A j \in 1..(N - 1) : w[j] = IF j < k THEN u[j] ELSE u[j + 1]
    <3>1. w = WithoutNode(u, k)
      BY <1>3 DEF RemoveNode, k
    <3> QED BY <2>2, <3>1, WithoutNodeType
  <2> HIDE DEF w, N, hits
  <2>4. \A j \in Matches(in, w) : j \in 1..(N - 1)
                                 /\ IF j < k THEN j \in Matches(in, u)
                                             ELSE j + 1 \in Matches(in, u)
    <3> TAKE j \in Matches(in, w)
    <3>1. j \in 1..(N - 1) /\ InOutMatch(in, w[j])
      BY <2>3 DEF Matches
    <3>2. CASE j < k
      <4>1. j \in 1..N /\ InOutMatch(in, u[j])
        BY <1>1, <2>3, <3>1, <3>2
      <4> QED BY <3>1, <3>2, <4>1 DEF Matches, N
    <3>3. CASE ~(j < k)
      <4>1. j + 1 \in 1..N /\ InOutMatch(in, u[j + 1])
        BY <1>1, <2>3, <3>1, <3>3
      <4> QED BY <3>1, <3>3, <4>1 DEF Matches, N
    <3> QED BY <3>2, <3>3
  <2>5. CASE Matches(in, u) = {}
    BY <2>4, <2>5 DEF SameEntry
  <2>6. CASE Matches(in, u) # {}
    <3>1. f \in Matches(in, u) /\ \A j \in Matches(in, u) : f <= j
      BY <1>1, <2>6, FirstHit
    <3>2. f \in 1..N /\ f # k /\ InOutMatch(in, u[f])
      BY <1>1, <2>2, <3>1 DEF Matches
    <3> HIDE DEF f
    <3> DEFINE g == IF f < k THEN f ELSE f - 1
    <3>3. g \in 1..(N - 1) /\ w[g] = u[f]
      BY <1>1, <2>2, <2>3, <3>2
    <3>4. g \in Matches(in, w)
      <4> HIDE DEF g
      <4> QED BY <2>3, <3>2, <3>3 DEF Matches
    <3>5. \A j \in Matches(in, w) : g <= j
      <4> TAKE j \in Matches(in, w)
      <4>1. CASE j < k
        BY <2>2, <2>4, <3>1, <3>2, <4>1
      <4>2. CASE ~(j < k)
        BY <2>2, <2>4, <3>1, <3>2, <4>2
      <4> QED BY <4>1, <4>2
    <3> HIDE DEF g
    <3>6. First(Matches(in, w)) = g
      <4>1. N - 1 \in Nat /\ Matches(in, w) \subseteq 1..(N - 1)
        BY <1>1, <2>2, <2>4
      <4> QED BY <3>4, <3>5, <4>1, FirstIs
    <3> QED BY <2>6, <3>3, <3>4, <3>6 DEF SameEntry, f
  <2> QED BY <2>5, <2>6
<1> QED BY <1>2, <1>3

(* Finding the same entry carries over. *)
LEMMA SameEntryTwice ==
  ASSUME NEW in, NEW u, NEW v, NEW w, SameEntry(in, v, u), SameEntry(in, w, v)
  PROVE  SameEntry(in, w, u)
  BY DEF SameEntry

(* Removing what a transaction refers to leaves the entries of all inputs   *)
(* that refer to something else.                                            *)
LEMMA RemovedReferences ==
  ASSUME NEW E, NEW u \in Seq(E), NEW tx, Len(tx.inputs) \in Nat
  PROVE  /\ RemoveReferenced(u, tx) \in Seq(E)
         /\ \A in : Reference(in) \notin References(tx) =>
                       SameEntry(in, RemoveReferenced(u, tx), u)
<1> DEFINE N == Len(tx.inputs)
           S == Seq(E)
           Turn(s, n) == RemoveNode(s, {i \in 1..Len(s) : InOutMatch(tx.inputs[n], s[i])})
           F == [x \in (1..N) \X S |-> Turn(x[2], x[1])]
           Is(r) == r = [n \in 0..N |-> IF n = 0 THEN u ELSE Turn(r[n - 1], n)]
           run == CHOOSE r : Is(r)
<1>1. N \in Nat /\ u \in S
  OBVIOUS
<1>2. \A n \in 1..N, s \in S : F[<<n, s>>] = Turn(s, n)
  OBVIOUS
<1>3. F \in [(1..N) \X S -> S]
  <2>1. \A n \in 1..N, s \in S : Turn(s, n) \in S
    BY RemoveNodeType
  <2> HIDE DEF S, Turn
  <2> QED BY <2>1
<1>4. PICK g \in [0..N -> S] : Solves(g, N, u, F)
  <2> HIDE DEF F, N, S
  <2> QED BY <1>1, <1>3, RecursionExists
<1>5. Is(g)
  <2> HIDE DEF S, F, Turn
  <2>1. \A n \in 1..N : g[n - 1] \in S
    BY <1>1
  <2>2. \A n \in 1..N : g[n] = Turn(g[n - 1], n)
    BY <1>2, <1>4, <2>1 DEF Solves
  <2>3. g[0] = u
    BY <1>4 DEF Solves
  <2> HIDE DEF N
  <2> QED BY <1>1, <2>2, <2>3
<1>6. Is(run)
  <2> HIDE DEF Is
  <2> QED BY <1>5
<1>7. run[0] = u /\ \A n \in 1..N : run[n] = Turn(run[n - 1], n)
  <2> HIDE DEF run, N, F, S, Turn
  <2>1. run = [n \in 0..N |-> IF n = 0 THEN u ELSE Turn(run[n - 1], n)]
    BY <1>6
  <2>2. 0 \in 0..N /\ \A n \in 1..N : n \in 0..N /\ n # 0
    BY <1>1
  <2> HIDE DEF Is
  <2> QED BY <2>1, <2>2
<1>8. \A n \in 0..N : run[n] \in S
  <2> HIDE DEF run, N, F, S, Turn
  <2>1. Follows(run, N, S, u, F)
    BY <1>2, <1>7 DEF Follows
  <2> QED BY <1>1, <1>3, <2>1, RecursionValues
<1>9. RemoveReferenced(u, tx) = run[N]
  BY DEF RemoveReferenced
<1> HIDE DEF run, F, Is, S
<1>10. ASSUME NEW in, Reference(in) \notin References(tx)
       PROVE  SameEntry(in, run[N], u)
  <2> DEFINE T == {n \in 0..N : SameEntry(in, run[n], u)}
  <2>1. 0 \in T
    BY <1>1, <1>7 DEF SameEntry
  <2>2. ASSUME NEW n \in 1..N, n - 1 \in T PROVE n \in T
    <3>1. n - 1 \in 0..N /\ run[n - 1] \in Seq(E) /\ SameEntry(in, run[n - 1], u)
      BY <1>8, <2>2 DEF S
    <3>2. Reference(tx.inputs[n]) # Reference(in)
      BY <1>10 DEF References
    <3>3. run[n] = RemoveNode(run[n - 1], Matches(tx.inputs[n], run[n - 1]))
      BY <1>7 DEF Matches
    <3>4. SameEntry(in, run[n], run[n - 1])
      BY <3>1, <3>2, <3>3, OtherEntry
    <3> QED BY <1>1, <3>1, <3>4, SameEntryTwice
  <2>3. 0..N \subseteq T
    <3> HIDE DEF T
    <3> QED BY <1>1, <2>1, <2>2, IntervalInduction
  <2> QED BY <1>1, <2>3
<1> QED BY <1>1, <1>8, <1>9, <1>10 DEF S

(* So a transaction that refers to something else is valid against both     *)
(* lists or against none.                                                   *)
LEMMA ValidElsewhere ==
  ASSUME NEW u, NEW w, Len(u) \in Nat, Len(w) \in Nat, NEW tx, Len(tx.inputs) \in Nat,
         \A n \in 1..Len(tx.inputs) : SameEntry(tx.inputs[n], w, u)
  PROVE  TransactionIsValid(tx, w) <=> TransactionIsValid(tx, u)
<1> DEFINE N == Len(tx.inputs)
           matched(v) == [n \in 1..N |-> First(Matches(tx.inputs[n], v))]
           amounts(v) == [n \in 1..N |-> v[matched(v)[n]].out.amount]
           signed(v) == \A n \in 1..N :
                           /\ matched(v)[n] # 0
                           /\ Verify(v[matched(v)[n]].out.pub, tx.id, tx.inputs[n].sig)
           rest(a) == /\ tx.id = TransactionHash(tx.inputs, tx.outputs)
                      /\ Sum32(a, N) = Sum32([n \in 1..Len(tx.outputs) |->
                                                tx.outputs[n].amount], Len(tx.outputs))
<1>1. \A v : TransactionIsValid(tx, v) <=> signed(v) /\ rest(amounts(v))
  BY DEF TransactionIsValid, Matches
<1>2. \A v, n : Len(v) \in Nat /\ n \in 1..N =>
         (matched(v)[n] # 0 <=> Matches(tx.inputs[n], v) # {})
  <2> SUFFICES ASSUME NEW v, NEW n \in 1..N, Len(v) \in Nat
               PROVE  First(Matches(tx.inputs[n], v)) # 0 <=> Matches(tx.inputs[n], v) # {}
    OBVIOUS
  <2>1. Matches(tx.inputs[n], v) \subseteq 1..Len(v)
    BY DEF Matches
  <2>2. CASE Matches(tx.inputs[n], v) = {}
    BY <2>2 DEF First
  <2>3. CASE Matches(tx.inputs[n], v) # {}
    <3>1. First(Matches(tx.inputs[n], v)) \in 1..Len(v)
      BY <2>1, <2>3, FirstHit
    <3> QED BY <2>3, <3>1
  <2> QED BY <2>2, <2>3
<1>3. \A n \in 1..N : matched(w)[n] # 0 <=> matched(u)[n] # 0
  <2> HIDE DEF matched
  <2> QED BY <1>2 DEF SameEntry
<1>4. \A n \in 1..N : matched(u)[n] # 0 => w[matched(w)[n]] = u[matched(u)[n]]
  <2> TAKE n \in 1..N
  <2>1. matched(u)[n] # 0 => Matches(tx.inputs[n], u) # {}
    <3> HIDE DEF matched
    <3> QED BY <1>2
  <2> QED BY <2>1 DEF SameEntry
<1> HIDE DEF matched
<1>5. signed(w) <=> signed(u)
  BY <1>3, <1>4
<1>6. signed(u) => amounts(w) = amounts(u)
  BY <1>4
<1> HIDE DEF signed, amounts, rest
<1> QED BY <1>1, <1>5, <1>6

(* The valid transactions among the first n of a list, in their order. *)
ValidAmong(txs, u) ==
    LET run[n \in 0..Len(txs)] ==
          IF n = 0 THEN <<>>
          ELSE IF TransactionIsValid(txs[n], u) THEN Append(run[n - 1], txs[n])
          ELSE run[n - 1]
    IN  run

(* The turns of the loop that keeps the valid transactions, one by one. *)
LEMMA ValidTurns ==
  ASSUME NEW E, NEW txs \in Seq(E), NEW u, NEW run, run = ValidAmong(txs, u)
  PROVE  /\ run \in [0..Len(txs) -> Seq(E)]
         /\ run[0] = <<>>
         /\ \A n \in 1..Len(txs) :
               run[n] = IF TransactionIsValid(txs[n], u)
                        THEN Append(run[n - 1], txs[n]) ELSE run[n - 1]
<1> DEFINE N == Len(txs)
           S == Seq(E)
           Turn(s, n) == IF TransactionIsValid(txs[n], u) THEN Append(s, txs[n]) ELSE s
           F == [x \in (1..N) \X S |-> Turn(x[2], x[1])]
           Is(r) == r = [n \in 0..N |-> IF n = 0 THEN <<>> ELSE Turn(r[n - 1], n)]
<1>1. N \in Nat /\ <<>> \in S
  OBVIOUS
<1>2. \A n \in 1..N, s \in S : F[<<n, s>>] = Turn(s, n)
  OBVIOUS
<1>3. F \in [(1..N) \X S -> S]
  <2>1. \A n \in 1..N, s \in S : Turn(s, n) \in S
    OBVIOUS
  <2> HIDE DEF S, Turn
  <2> QED BY <2>1
<1>4. PICK g \in [0..N -> S] : Solves(g, N, <<>>, F)
  <2> HIDE DEF F, N, S
  <2> QED BY <1>1, <1>3, RecursionExists
<1>5. Is(g)
  <2> HIDE DEF S, F, Turn
  <2>1. \A n \in 1..N : g[n - 1] \in S
    BY <1>1
  <2>2. \A n \in 1..N : g[n] = Turn(g[n - 1], n)
    BY <1>2, <1>4, <2>1 DEF Solves
  <2>3. g[0] = <<>>
    BY <1>4 DEF Solves
  <2> HIDE DEF N
  <2> QED BY <1>1, <2>2, <2>3
<1>6. Is(run)
  <2>1. run = CHOOSE r : Is(r)
    BY DEF ValidAmong
  <2> HIDE DEF Is
  <2> QED BY <1>5, <2>1
<1>7. run[0] = <<>> /\ \A n \in 1..N : run[n] = Turn(run[n - 1], n)
  <2> HIDE DEF N, F, S, Turn
  <2>1. run = [n \in 0..N |-> IF n = 0 THEN <<>> ELSE Turn(run[n - 1], n)]
    BY <1>6
  <2>2. 0 \in 0..N /\ \A n \in 1..N : n \in 0..N /\ n # 0
    BY <1>1
  <2> HIDE DEF Is
  <2> QED BY <2>1, <2>2
<1>8. run \in [0..N -> S]
  <2> HIDE DEF N, F, S, Turn
  <2>1. Follows(run, N, S, <<>>, F)
    BY <1>2, <1>7 DEF Follows
  <2>2. \A n \in 0..N : run[n] \in S
    BY <1>1, <1>3, <2>1, RecursionValues
  <2>3. run = [n \in 0..N |-> run[n]]
    BY <1>6
  <2> HIDE DEF Is
  <2> QED BY <2>2, <2>3
<1> QED BY <1>7, <1>8

(* It does not matter whether an invalid transaction is in the list. *)
LEMMA ValidOfRest ==
  ASSUME NEW E, NEW txs \in Seq(E), NEW u, NEW k \in 1..Len(txs),
         ~TransactionIsValid(txs[k], u), NEW rest, rest = WithoutNode(txs, k)
  PROVE  ValidAmong(rest, u)[Len(rest)] = ValidAmong(txs, u)[Len(txs)]
<1> DEFINE N == Len(txs)
           M == Len(rest)
           all == ValidAmong(txs, u)
           few == ValidAmong(rest, u)
           T == {n \in 0..M : few[n] = all[IF n < k THEN n ELSE n + 1]}
<1>1. /\ N \in Nat /\ M = N - 1 /\ M \in Nat /\ k \in 1..N
      /\ rest \in Seq(E)
      /\ \A j \in 1..M : rest[j] = IF j < k THEN txs[j] ELSE txs[j + 1]
  <2>1. N \in Nat /\ k \in 1..N
    OBVIOUS
  <2>2. /\ rest \in Seq(E) /\ Len(rest) = Len(txs) - 1
        /\ \A j \in 1..(Len(txs) - 1) : rest[j] = IF j < k THEN txs[j] ELSE txs[j + 1]
    BY WithoutNodeType
  <2> QED BY <2>1, <2>2
<1>2. /\ all[0] = <<>>
      /\ \A n \in 1..N : all[n] = IF TransactionIsValid(txs[n], u)
                                  THEN Append(all[n - 1], txs[n]) ELSE all[n - 1]
  BY ValidTurns
<1>3. /\ few[0] = <<>>
      /\ \A n \in 1..M : few[n] = IF TransactionIsValid(rest[n], u)
                                  THEN Append(few[n - 1], rest[n]) ELSE few[n - 1]
  <2>1. rest \in Seq(E)
    BY <1>1
  <2> QED BY <2>1, ValidTurns
<1> HIDE DEF all, few, M, N
<1>4. 0 \in T
  BY <1>1, <1>2, <1>3
<1>5. all[k] = all[k - 1]
  BY <1>1, <1>2 DEF N
<1>6. ASSUME NEW n \in 1..M, n - 1 \in T PROVE n \in T
  <2>1. few[n - 1] = all[IF n - 1 < k THEN n - 1 ELSE n] /\ n \in 1..N /\ n + 1 \in 1..N
    <3>1. few[n - 1] = all[IF n - 1 < k THEN n - 1 ELSE (n - 1) + 1]
      BY <1>6
    <3>2. (n - 1) + 1 = n /\ n \in 1..N /\ n + 1 \in 1..N
      BY <1>1
    <3> QED BY <3>1, <3>2
  <2>2. few[n] = IF TransactionIsValid(rest[n], u)
                 THEN Append(few[n - 1], rest[n]) ELSE few[n - 1]
    BY <1>3
  <2>3. CASE n < k
    <3>1. few[n - 1] = all[n - 1] /\ rest[n] = txs[n]
      BY <1>1, <2>1, <2>3
    <3>2. few[n] = all[n]
      BY <1>2, <2>1, <2>2, <3>1
    <3> QED BY <2>3, <3>2
  <2>4. CASE ~(n < k)
    <3>1. few[n - 1] = all[n]
      <4>1. CASE n = k
        BY <1>5, <2>1, <4>1
      <4>2. CASE n # k
        BY <1>1, <2>1, <2>4, <4>2
      <4> QED BY <4>1, <4>2
    <3>2. rest[n] = txs[n + 1] /\ (n + 1) - 1 = n
      BY <1>1, <2>4
    <3>3. all[n + 1] = IF TransactionIsValid(txs[n + 1], u)
                       THEN Append(all[n], txs[n + 1]) ELSE all[n]
      BY <1>2, <2>1, <3>2
    <3>4. few[n] = all[n + 1]
      BY <2>2, <3>1, <3>2, <3>3
    <3> QED BY <2>4, <3>4
  <2> QED BY <2>3, <2>4
<1>7. M \in T
  <2> HIDE DEF T
  <2>1. 0..M \subseteq T
    BY <1>1, <1>4, <1>6, IntervalInduction
  <2> QED BY <1>1, <2>1
<1>8. few[M] = all[N]
  <2>1. CASE M < k
    <3>1. few[M] = all[M] /\ M = k - 1 /\ k = N
      BY <1>1, <1>7, <2>1
    <3> QED BY <1>5, <3>1
  <2>2. CASE ~(M < k)
    BY <1>1, <1>7, <2>2
  <2> QED BY <2>1, <2>2
<1> QED BY <1>8 DEF all, few, M, N

(* When all are valid all are kept. *)
LEMMA AllOfValid ==
  ASSUME NEW E, NEW txs \in Seq(E), NEW u,
         \A n \in 1..Len(txs) : TransactionIsValid(txs[n], u)
  PROVE  ValidAmong(txs, u)[Len(txs)] = txs
<1> DEFINE N == Len(txs)
           all == ValidAmong(txs, u)
           T == {n \in 0..N : Len(all[n]) = n /\ \A i \in 1..n : all[n][i] = txs[i]}
<1>1. N \in Nat
  OBVIOUS
<1>2. /\ all \in [0..N -> Seq(E)] /\ all[0] = <<>>
      /\ \A n \in 1..N : all[n] = Append(all[n - 1], txs[n])
  <2>1. /\ all \in [0..N -> Seq(E)] /\ all[0] = <<>>
        /\ \A n \in 1..N : all[n] = IF TransactionIsValid(txs[n], u)
                                    THEN Append(all[n - 1], txs[n]) ELSE all[n - 1]
    BY ValidTurns
  <2> HIDE DEF all
  <2> QED BY <2>1
<1> HIDE DEF all
<1>3. 0 \in T
  BY <1>1, <1>2
<1>4. ASSUME NEW n \in 1..N, n - 1 \in T PROVE n \in T
  <2>1. all[n - 1] \in Seq(E) /\ Len(all[n - 1]) = n - 1 /\ txs[n] \in E
        /\ \A i \in 1..(n - 1) : all[n - 1][i] = txs[i]
    <3>1. n - 1 \in 0..N
      BY <1>1
    <3>2. all[n - 1] \in Seq(E)
      <4> HIDE DEF N
      <4> QED BY <1>2, <3>1
    <3>4. txs[n] \in E
      OBVIOUS
    <3>3. Len(all[n - 1]) = n - 1 /\ \A i \in 1..(n - 1) : all[n - 1][i] = txs[i]
      BY <1>4
    <3> QED BY <3>2, <3>3, <3>4
  <2>2. all[n] = Append(all[n - 1], txs[n])
    BY <1>2
  <2>3. Len(all[n]) = n
    BY <2>1, <2>2
  <2>4. ASSUME NEW i \in 1..n PROVE all[n][i] = txs[i]
    <3>1. CASE i = n
      BY <2>1, <2>2, <3>1
    <3>2. CASE i # n
      <4>1. i \in 1..(n - 1)
        BY <3>2
      <4> QED BY <2>1, <2>2, <4>1
    <3> QED BY <3>1, <3>2
  <2> QED BY <1>1, <2>3, <2>4
<1>5. N \in T
  <2> HIDE DEF T
  <2>1. 0..N \subseteq T
    BY <1>1, <1>3, <1>4, IntervalInduction
  <2> QED BY <1>1, <2>1
<1>6. all[N] \in Seq(E) /\ Len(all[N]) = N /\ \A i \in 1..N : all[N][i] = txs[i]
  BY <1>1, <1>2, <1>5
<1>7. all[N] = txs
  BY <1>6
<1> QED BY <1>7 DEF all

(* The purge, which removes the first invalid transaction again and again,  *)
(* keeps exactly the valid ones in their order.                             *)
LEMMA PurgeIsValidAmong ==
  ASSUME NEW E, NEW txs \in Seq(E), NEW u
  PROVE  Purge(txs, u) = ValidAmong(txs, u)[Len(txs)]
<1> DEFINE Valid(s) == ValidAmong(s, u)[Len(s)]
           S == {s \in Seq(E) : Valid(s) = Valid(txs)}
<1>1. S \in SUBSET Seq(E) /\ txs \in S
  OBVIOUS
<1>2. ASSUME NEW s \in S PROVE RemoveInvalid(s, u) \in S
  <2> DEFINE hits == {i \in 1..Len(s) : ~TransactionIsValid(s[i], u)}
             k == First(hits)
  <2>1. s \in Seq(E) /\ Len(s) \in Nat /\ hits \subseteq 1..Len(s)
    OBVIOUS
  <2>2. RemoveInvalid(s, u) \in Seq(E)
    BY <2>1, RemoveNodeType DEF RemoveInvalid
  <2>3. CASE hits = {}
    BY <2>3 DEF RemoveInvalid, RemoveNode
  <2>4. CASE hits # {}
    <3>1. k \in hits
      <4> HIDE DEF hits
      <4> QED BY <2>1, <2>4, FirstHit
    <3>2. k \in 1..Len(s) /\ ~TransactionIsValid(s[k], u)
      BY <3>1
    <3>3. RemoveInvalid(s, u) = WithoutNode(s, k)
      BY <2>4 DEF RemoveInvalid, RemoveNode
    <3> HIDE DEF k, hits
    <3>4. Valid(RemoveInvalid(s, u)) = Valid(s)
      BY <2>1, <3>2, <3>3, ValidOfRest
    <3> QED BY <2>2, <3>4
  <2> QED BY <2>3, <2>4
<1>3. Purge(txs, u) \in S
  <2> HIDE DEF S
  <2> QED BY <1>1, <1>2, PurgeStays
<1>4. Valid(Purge(txs, u)) = Purge(txs, u)
  <2>1. Purge(txs, u) \in Seq(E)
    BY <1>3
  <2> QED BY <2>1, PurgeLeavesValid, AllOfValid
<1> QED BY <1>3, <1>4

(* Checking one by one finds the same transactions valid: the entries that  *)
(* earlier ones refer to are not those that a later one refers to.          *)
LEMMA OneByOneIsValidAmong ==
  ASSUME NEW D, NEW u \in Seq(D), NEW E, NEW txs \in Seq(E), Disjoint(txs),
         \A tx \in E : Len(tx.inputs) \in Nat
  PROVE  OneByOne(txs, u) = ValidAmong(txs, u)[Len(txs)]
<1> DEFINE N == Len(txs)
           S == [kept : Seq(E), unspent : Seq(D)]
           start == [kept |-> <<>>, unspent |-> u]
           Turn(s, n) == IF TransactionIsValid(txs[n], s.unspent)
                         THEN [kept |-> Append(s.kept, txs[n]),
                               unspent |-> RemoveReferenced(s.unspent, txs[n])]
                         ELSE s
           F == [x \in (1..N) \X S |-> Turn(x[2], x[1])]
           Is(r) == r = [n \in 0..N |-> IF n = 0 THEN start ELSE Turn(r[n - 1], n)]
           run == CHOOSE r : Is(r)
<1>1. N \in Nat /\ start \in S /\ \A n \in 1..N : txs[n] \in E
  OBVIOUS
<1>2. \A n \in 1..N, s \in S : F[<<n, s>>] = Turn(s, n)
  <2> HIDE DEF Turn, S, N
  <2> QED OBVIOUS
<1>3. F \in [(1..N) \X S -> S]
  <2>1. ASSUME NEW n \in 1..N, NEW s \in S PROVE Turn(s, n) \in S
    <3>1. /\ s.kept \in Seq(E) /\ s.unspent \in Seq(D)
          /\ txs[n] \in E /\ Len(txs[n].inputs) \in Nat
      BY <1>1
    <3>2. Append(s.kept, txs[n]) \in Seq(E)
      BY <3>1
    <3>3. RemoveReferenced(s.unspent, txs[n]) \in Seq(D)
      BY <3>1, RemovedReferences
    <3> QED BY <3>2, <3>3
  <2> HIDE DEF S, Turn
  <2> QED BY <2>1
<1>4. PICK g \in [0..N -> S] : Solves(g, N, start, F)
  <2> HIDE DEF F, N, S, start
  <2> QED BY <1>1, <1>3, RecursionExists
<1>5. Is(g)
  <2> HIDE DEF S, F, Turn, start
  <2>1. \A n \in 1..N : g[n - 1] \in S
    BY <1>1
  <2>2. \A n \in 1..N : g[n] = Turn(g[n - 1], n)
    BY <1>2, <1>4, <2>1 DEF Solves
  <2>3. g[0] = start
    BY <1>4 DEF Solves
  <2> HIDE DEF N
  <2> QED BY <1>1, <2>2, <2>3
<1>6. Is(run)
  <2> HIDE DEF Is
  <2> QED BY <1>5
<1>7. run[0] = start /\ \A n \in 1..N : run[n] = Turn(run[n - 1], n)
  <2> HIDE DEF run, N, F, S, Turn, start
  <2>1. run = [n \in 0..N |-> IF n = 0 THEN start ELSE Turn(run[n - 1], n)]
    BY <1>6
  <2>2. 0 \in 0..N /\ \A n \in 1..N : n \in 0..N /\ n # 0
    BY <1>1
  <2> HIDE DEF Is
  <2> QED BY <2>1, <2>2
<1>8. \A n \in 0..N : run[n] \in S
  <2> HIDE DEF run, N, F, S, Turn, start
  <2>1. Follows(run, N, S, start, F)
    BY <1>2, <1>7 DEF Follows
  <2> QED BY <1>1, <1>3, <2>1, RecursionValues
<1>9. OneByOne(txs, u) = run[N].kept
  BY DEF OneByOne
<1> HIDE DEF run, F, Is
<1> DEFINE all == ValidAmong(txs, u)
           Earlier(n) == UNION {References(txs[i]) : i \in 1..n}
           T == {n \in 0..N :
                   /\ run[n].kept = all[n]
                   /\ \A in : Reference(in) \notin Earlier(n) =>
                                 SameEntry(in, run[n].unspent, u)}
<1>10. /\ all[0] = <<>>
       /\ \A n \in 1..N : all[n] = IF TransactionIsValid(txs[n], u)
                                   THEN Append(all[n - 1], txs[n]) ELSE all[n - 1]
  BY ValidTurns
<1> HIDE DEF all
<1>11. 0 \in T
  <2>1. run[0].kept = all[0] /\ run[0].unspent = u
    BY <1>7, <1>10
  <2>2. \A in : SameEntry(in, u, u)
    BY DEF SameEntry
  <2> QED BY <1>1, <2>1, <2>2
<1>12. ASSUME NEW n \in 1..N, n - 1 \in T PROVE n \in T
  <2> DEFINE s == run[n - 1]
             tx == txs[n]
  <2>1. /\ s.unspent \in Seq(D) /\ s.kept = all[n - 1]
        /\ tx \in E /\ Len(tx.inputs) \in Nat
        /\ \A in : Reference(in) \notin Earlier(n - 1) => SameEntry(in, s.unspent, u)
    <3>1. n - 1 \in 0..N
      BY <1>1
    <3>2. s \in S
      <4> HIDE DEF S, N
      <4> QED BY <1>8, <3>1
    <3> HIDE DEF Earlier
    <3>3. s.unspent \in Seq(D) /\ tx \in E /\ Len(tx.inputs) \in Nat
      BY <1>1, <3>2
    <3>4. /\ s.kept = all[n - 1]
          /\ \A in : Reference(in) \notin Earlier(n - 1) => SameEntry(in, s.unspent, u)
      BY <1>12
    <3> QED BY <3>3, <3>4
  <2>2. \A m \in 1..Len(tx.inputs) : Reference(tx.inputs[m]) \notin Earlier(n - 1)
    <3> SUFFICES ASSUME NEW m \in 1..Len(tx.inputs), NEW i \in 1..(n - 1),
                        Reference(tx.inputs[m]) \in References(txs[i])
                 PROVE  FALSE
      OBVIOUS
    <3>1. i \in 1..N /\ n \in 1..N /\ i # n
      BY <1>1
    <3> QED BY <3>1 DEF References, Disjoint
  <2>3. TransactionIsValid(tx, s.unspent) <=> TransactionIsValid(tx, u)
    <3> HIDE DEF s, tx, Earlier
    <3>1. Len(u) \in Nat /\ Len(s.unspent) \in Nat
      BY <2>1
    <3>2. \A m \in 1..Len(tx.inputs) : SameEntry(tx.inputs[m], s.unspent, u)
      BY <2>1, <2>2
    <3> QED BY <2>1, <3>1, <3>2, ValidElsewhere
  <2>4. Earlier(n) = Earlier(n - 1) \cup References(tx)
    <3>1. \A i \in 1..n : i \in 1..(n - 1) \/ i = n
      OBVIOUS
    <3>2. \A i \in 1..(n - 1) : i \in 1..n
      OBVIOUS
    <3>3. n \in 1..n
      OBVIOUS
    <3> QED BY <3>1, <3>2, <3>3
  <2>5. run[n] = Turn(s, n)
    BY <1>7
  <2> HIDE DEF s, Earlier
  <2>6. CASE TransactionIsValid(tx, u)
    <3>1. /\ run[n].kept = Append(s.kept, tx)
          /\ run[n].unspent = RemoveReferenced(s.unspent, tx)
      BY <2>3, <2>5, <2>6
    <3>2. run[n].kept = all[n]
      BY <1>10, <2>1, <2>6, <3>1
    <3>3. ASSUME NEW in, Reference(in) \notin Earlier(n)
          PROVE  SameEntry(in, run[n].unspent, u)
      <4>1. SameEntry(in, s.unspent, u)
        BY <2>1, <2>4, <3>3
      <4>2. SameEntry(in, RemoveReferenced(s.unspent, tx), s.unspent)
        <5> HIDE DEF tx
        <5>1. Reference(in) \notin References(tx)
          BY <2>4, <3>3
        <5> QED BY <2>1, <5>1, RemovedReferences
      <4> QED BY <3>1, <4>1, <4>2, SameEntryTwice
    <3> QED BY <1>1, <3>2, <3>3
  <2>7. CASE ~TransactionIsValid(tx, u)
    <3>1. run[n] = s
      BY <2>3, <2>5, <2>7
    <3>2. run[n].kept = all[n]
      BY <1>10, <2>1, <2>7, <3>1
    <3> QED BY <1>1, <2>1, <2>4, <3>1, <3>2
  <2> QED BY <2>6, <2>7
<1>13. N \in T
  <2> HIDE DEF T
  <2>1. 0..N \subseteq T
    BY <1>1, <1>11, <1>12, IntervalInduction
  <2> QED BY <1>1, <2>1
<1> QED BY <1>9, <1>13 DEF all

(* The purge leaves the transactions that the documented procedure keeps:   *)
(* checking them all against the list before the block is as good as        *)
(* removing what each of them spends before the next is checked, because no *)
(* two of them refer to the same output.                                    *)
THEOREM PurgeAlwaysOneByOne == Spec => []PurgeIsOneByOne
<1>1. IInv => PurgeIsOneByOne
  <2> SUFFICES ASSUME IInv PROVE Purge(pool, unspent) = OneByOne(pool, unspent)
    BY DEF PurgeIsOneByOne
  <2> DEFINE E == Members(pool)
             D == Members(unspent)
  <2>1. pool \in Seq(E) /\ unspent \in Seq(D) /\ Disjoint(pool)
    BY SeqOfMembers DEF IInv, TypeOK, IsTransactionList, IsUnspentList, PoolDisjoint
  <2>2. \A tx \in E : Len(tx.inputs) \in Nat
    BY DEF IInv, TypeOK, IsTransactionList, IsTransaction, IsSeq, Members
  <2> HIDE DEF E, D
  <2> QED BY <2>1, <2>2, PurgeIsValidAmong, OneByOneIsValidAmong
<1> QED BY <1>1, Invariant, PTL DEF Spec
-----------------------------------------------------------------------------
(* Retargeting.                                                             *)

Timed(c) ==
    \A b \in 1..Len(c) : /\ c[b].info.timestamp \in 0..(UINT64 - 1)
                         /\ c[b].info.difficulty \in Nat

(* The block one interval back is on the chain. *)
LEMMA IntervalBack ==
  ASSUME NEW c, Len(c) \in Nat, Len(c) > 0, Numbered(c),
         NEW index, index = c[Len(c)].info.index
  PROVE  /\ index \in Nat /\ index <= Len(c) - 1
         /\ index # 0 /\ index % DIFFICULTY_ADJUSTMENT_INTERVAL = 0 =>
              Len(c) - DIFFICULTY_ADJUSTMENT_INTERVAL + 1 \in 2..Len(c)
<1> DEFINE I == DIFFICULTY_ADJUSTMENT_INTERVAL
           N == Len(c)
<1>1. I \in Nat \ {0} /\ UINT32 \in Nat \ {0} /\ N - 1 \in Nat
  BY DifficultyAssumption, AmountAssumption
<1>2. index = (N - 1) % UINT32
  BY DEF Numbered
<1>3. index \in Nat /\ index <= N - 1
  <2>1. (N - 1) % UINT32 \in 0..(UINT32 - 1) /\ (N - 1) % UINT32 <= N - 1
    <3> DEFINE a == N - 1
    <3>1. a \in Nat /\ a \in Int
      BY <1>1
    <3> HIDE DEF a
    <3>2. a % UINT32 \in 0..(UINT32 - 1) /\ a % UINT32 <= a
      BY <1>1, <3>1, Division, RemainderBounds
    <3> QED BY <3>2 DEF a
  <2> QED BY <1>2, <2>1
<1>4. index # 0 /\ index % I = 0 => index >= I
  <2> HIDE DEF I
  <2> QED BY <1>1, <1>3, RemainderBounds
<1>5. index # 0 /\ index % I = 0 => N - I + 1 \in 2..N
  <2> HIDE DEF I
  <2>1. I \in Int /\ I >= 1
    BY <1>1
  <2>2. index >= I => N - I + 1 \in 2..N
    BY <1>3, <2>1
  <2> QED BY <1>4, <2>2
<1> QED BY <1>3, <1>5

(* The difficulty the code computes is at most one step from that of the    *)
(* last block.                                                              *)
LEMMA NextDifficulty ==
  ASSUME NEW c, Len(c) \in Nat, Len(c) > 0, Numbered(c), Timed(c),
         NEW last, last = c[Len(c)].info,
         NEW new, new = BlockchainDifficulty(c)
  PROVE  /\ new \in Nat
         /\ new \in {last.difficulty - 1, last.difficulty, last.difficulty + 1}
         /\ new # last.difficulty =>
              last.index # 0 /\ last.index % DIFFICULTY_ADJUSTMENT_INTERVAL = 0
<1> DEFINE back == Len(c) - DIFFICULTY_ADJUSTMENT_INTERVAL + 1
           time == (last.timestamp - c[back].info.timestamp) % UINT64
<1>1. last.difficulty \in Nat
  BY DEF Timed
<1>2. last.index # 0 /\ last.index % DIFFICULTY_ADJUSTMENT_INTERVAL = 0 => ~(back < 1)
  <2>1. last.index # 0 /\ last.index % DIFFICULTY_ADJUSTMENT_INTERVAL = 0
          => back \in 2..Len(c)
    BY IntervalBack
  <2> QED BY <2>1
<1>3. new = IF last.index = 0 \/ last.index % DIFFICULTY_ADJUSTMENT_INTERVAL # 0
            THEN last.difficulty
            ELSE IF back < 1 THEN 0
            ELSE AdjustedDifficulty(last.difficulty, time)
  BY DEF BlockchainDifficulty
<1> HIDE DEF back, time
<1>4. CASE last.index = 0 \/ last.index % DIFFICULTY_ADJUSTMENT_INTERVAL # 0
  BY <1>1, <1>3, <1>4
<1>5. CASE last.index # 0 /\ last.index % DIFFICULTY_ADJUSTMENT_INTERVAL = 0
  <2>1. new = AdjustedDifficulty(last.difficulty, time)
    BY <1>2, <1>3, <1>5
  <2>2. \/ new = last.difficulty + 1
        \/ new = last.difficulty - 1 /\ last.difficulty > 0
        \/ new = last.difficulty
    BY <2>1 DEF AdjustedDifficulty
  <2> QED BY <1>1, <1>5, <2>2
<1> QED BY <1>4, <1>5

(* What mine appends, in these terms. *)
LEMMA MinedDifficulty ==
  ASSUME IInv, NEW time \in Times, Mine(time)
  PROVE  /\ Len(chain) \in 1..(MaxBlocks - 1)
         /\ Len(chain') = Len(chain) + 1
         /\ \A b \in 1..Len(chain) : chain'[b] = chain[b]
         /\ chain'[Len(chain) + 1].info.difficulty = BlockchainDifficulty(chain)
         /\ chain'[Len(chain) + 1].info.timestamp \in 0..(UINT64 - 1)
<1> DEFINE block == BlockMine(DraftBlock(time))
<1>1. chain' = Append(chain, block) /\ CanMine(time)
  BY DEF Mine
<1>2. block.info.difficulty = BlockchainDifficulty(chain) /\ block.info.timestamp = time
  BY <1>1, MinedWork
<1> HIDE DEF block
<1>3. /\ Len(chain') = Len(chain) + 1
      /\ \A b \in 1..Len(chain) : chain'[b] = chain[b]
      /\ chain'[Len(chain) + 1] = block
  BY <1>1, AppendMembers DEF IInv, TypeOK
<1>4. time \in 0..(UINT64 - 1)
  BY CliAssumption
<1> QED BY <1>1, <1>2, <1>3, <1>4 DEF CanMine

(* mine gives its block a time of the clock. *)
LEMMA MineTimed ==
  ASSUME IInv, Numbered(chain), Timed(chain), NEW time \in Times, Mine(time)
  PROVE  Timed(chain')
<1> DEFINE N == Len(chain)
<1>1. /\ N \in Nat /\ N > 0 /\ Len(chain') = N + 1
      /\ \A b \in 1..N : chain'[b] = chain[b]
      /\ chain'[N + 1].info.difficulty = BlockchainDifficulty(chain)
      /\ chain'[N + 1].info.timestamp \in 0..(UINT64 - 1)
  BY MinedDifficulty DEF IInv, TypeOK, IsSeq
<1>2. BlockchainDifficulty(chain) \in Nat
  BY <1>1, NextDifficulty
<1> HIDE DEF N
<1>3. \A b \in 1..(N + 1) : b \in 1..N \/ b = N + 1
  BY <1>1
<1> QED BY <1>1, <1>2, <1>3 DEF Timed, N

(* mine moves the difficulty by at most one. *)
LEMMA MineMovesByOne ==
  ASSUME IInv, Numbered(chain), Timed(chain), MovesByOne(chain),
         NEW time \in Times, Mine(time)
  PROVE  MovesByOne(chain')
<1> DEFINE N == Len(chain)
           new == chain'[N + 1].info.difficulty
           last == chain[N].info
<1>1. /\ N \in Nat /\ N > 0 /\ Len(chain') = N + 1
      /\ \A b \in 1..N : chain'[b] = chain[b]
      /\ new = BlockchainDifficulty(chain)
  BY MinedDifficulty DEF IInv, TypeOK, IsSeq
<1>2. /\ new \in Nat
      /\ new \in {last.difficulty - 1, last.difficulty, last.difficulty + 1}
      /\ new # last.difficulty =>
            last.index # 0 /\ last.index % DIFFICULTY_ADJUSTMENT_INTERVAL = 0
  BY <1>1, NextDifficulty
<1>3. chain'[N].info = last
  BY <1>1
<1> HIDE DEF new, last
<1>4. ASSUME NEW b \in 2..(N + 1)
      PROVE  /\ chain'[b].info.difficulty \in
                  {chain'[b - 1].info.difficulty - 1, chain'[b - 1].info.difficulty,
                   chain'[b - 1].info.difficulty + 1}
             /\ chain'[b].info.difficulty >= 0
             /\ chain'[b].info.difficulty # chain'[b - 1].info.difficulty =>
                  /\ chain'[b - 1].info.index # 0
                  /\ chain'[b - 1].info.index % DIFFICULTY_ADJUSTMENT_INTERVAL = 0
  <2>1. CASE b = N + 1
    <3>1. chain'[b].info.difficulty = new /\ chain'[b - 1].info = last
      BY <1>1, <1>3, <2>1 DEF new
    <3> QED BY <1>2, <3>1
  <2>2. CASE b \in 2..N
    <3>1. chain'[b] = chain[b] /\ chain'[b - 1] = chain[b - 1]
      BY <1>1, <2>2
    <3> QED BY <2>2, <3>1 DEF MovesByOne
  <2>3. b = N + 1 \/ b \in 2..N
    BY <1>1
  <2> QED BY <2>1, <2>2, <2>3
<1> QED BY <1>1, <1>4 DEF MovesByOne

(* What the next theorem assumes of the files of earlier sessions. *)
MovingFiles(f) ==
    \A path \in Paths : Timed(f[path].chain) /\ MovesByOne(f[path].chain)

(* So does every step. *)
LEMMA MovingStep ==
  ASSUME IInv, Numbered(chain), Timed(chain), MovesByOne(chain), MovingFiles(files),
         [Next]_vars
  PROVE  Timed(chain') /\ MovesByOne(chain') /\ MovingFiles(files')
<1>1. CASE SameFiles /\ SameLedger
  BY <1>1 DEF SameFiles, SameLedger
<1>2. CASE SameFiles /\ \E time \in Times : Mine(time)
  BY <1>2, MineTimed, MineMovesByOne DEF SameFiles
<1>3. CASE SameFiles /\ chain' = chain
  BY <1>3 DEF SameFiles
<1>4. CASE SameLedger /\ \E path \in Paths :
               files' = [files EXCEPT ![path] = ChainFile(chain, unspent)]
  BY <1>4 DEF SameLedger, MovingFiles, ChainFile, IInv, TypeOK, AreFiles
<1>5. CASE SameFiles /\ \E path \in Paths : chain' = files[path].chain
  BY <1>5 DEF SameFiles, MovingFiles
<1>6. CASE SameFiles /\ chain' = <<GenesisBlock>>
  <2>1. Len(chain') = 1 /\ Timed(chain')
    BY <1>6, BlockAssumption DEF GenesisBlock, Timed
  <2>2. MovesByOne(chain')
    BY <2>1 DEF MovesByOne
  <2> QED BY <1>6, <2>1, <2>2 DEF SameFiles
<1> QED BY <1>1, <1>2, <1>3, <1>4, <1>5, <1>6, LedgerStep

(* The difficulty moves by one at most, and only after a block whose index  *)
(* is a multiple of the interval: blockchain_difficulty reads a time that   *)
(* is unsigned, so whatever the clock did, and its search for the block one *)
(* interval back always finds one.                                          *)
THEOREM DifficultyAlwaysMovesByOne ==
  ASSUME \A f \in InitialFiles : NumberedFiles(f) /\ MovingFiles(f)
  PROVE  Spec => []DifficultyMovesByOne
<1> DEFINE Inv == /\ Numbered(chain) /\ NumberedFiles(files)
                  /\ Timed(chain) /\ MovesByOne(chain) /\ MovingFiles(files)
<1>1. Init => Inv
  <2> SUFFICES ASSUME Init PROVE Inv
    OBVIOUS
  <2>1. Len(chain) = 1 /\ chain[1].info.index = 0 /\ 0 % UINT32 = 0 /\ Timed(chain)
    BY AmountAssumption, BlockAssumption DEF Init, GenesisBlock, Timed
  <2> QED BY <2>1 DEF Init, Numbered, MovesByOne
<1>2. IInv /\ Inv /\ [Next]_vars => Inv'
  BY NumberedStep, MovingStep
<1>3. Inv => DifficultyMovesByOne
  BY DEF DifficultyMovesByOne
<1> QED BY <1>1, <1>2, <1>3, Invariant, PTL DEF Spec

(* While the clock goes forward no block is older than an earlier one. *)
LEMMA ForwardTimes ==
  ASSUME NEW c, Len(c) \in Nat, Timed(c), ClockForward(c),
         NEW a \in 1..Len(c), NEW b \in a..Len(c)
  PROVE  c[a].info.timestamp <= c[b].info.timestamp
<1> DEFINE M == Len(c) - a
           T == {n \in 0..M : c[a].info.timestamp <= c[a + n].info.timestamp}
<1>1. M \in Nat /\ \A n \in 0..M : a + n \in 1..Len(c)
  OBVIOUS
<1>2. \A k \in 1..Len(c) : c[k].info.timestamp \in Int
  BY DifficultyAssumption DEF Timed
<1>3. 0 \in T
  <2>1. a + 0 = a
    OBVIOUS
  <2> QED BY <1>1, <1>2, <2>1
<1>4. ASSUME NEW n \in 1..M, n - 1 \in T PROVE n \in T
  <2>1. a + n \in 2..Len(c) /\ (a + n) - 1 = a + (n - 1) /\ a + (n - 1) \in 1..Len(c)
    BY <1>1
  <2>2. c[(a + n) - 1].info.timestamp <= c[a + n].info.timestamp
    BY <2>1 DEF ClockForward
  <2>3. c[a].info.timestamp <= c[a + (n - 1)].info.timestamp
    BY <1>4
  <2>4. c[a].info.timestamp <= c[a + n].info.timestamp
    <3> DEFINE j == a + n
               k == a + (n - 1)
               t(i) == c[i].info.timestamp
    <3>1. t(a) \in Int /\ t(j) \in Int /\ t(k) \in Int
      <4> HIDE DEF j, k
      <4>1. a \in 1..Len(c) /\ j \in 1..Len(c) /\ k \in 1..Len(c)
        BY <2>1 DEF j, k
      <4> QED BY <1>2, <4>1
    <3>2. t(k) <= t(j) /\ t(a) <= t(k)
      BY <2>1, <2>2, <2>3
    <3> HIDE DEF j, k, t
    <3>3. t(a) <= t(j)
      BY <3>1, <3>2
    <3> QED BY <3>3 DEF t, j
  <2> QED BY <1>1, <2>4
<1>5. b - a \in T
  <2> HIDE DEF T
  <2>1. 0..M \subseteq T
    BY <1>1, <1>3, <1>4, IntervalInduction
  <2> QED BY <2>1
<1>6. a + (b - a) = b
  OBVIOUS
<1> QED BY <1>5, <1>6

(* Half of the expected time, in whole seconds. *)
LEMMA HalfRounded ==
  ASSUME NEW expected \in Nat, NEW elapsed \in Nat
  PROVE  /\ elapsed < expected \div 2 => 2 * elapsed < expected
         /\ 2 * elapsed < expected =>
              elapsed < expected \div 2 \/ 2 * elapsed + 1 = expected
         /\ 2 * elapsed + 1 = expected =>
              ~(elapsed < expected \div 2) /\ ~(elapsed > 2 * expected)
  OBVIOUS

(* The difficulty the code computes is the documented one, but for half of  *)
(* an odd expected time.                                                    *)
LEMMA DocumentedNext ==
  ASSUME NEW c, Len(c) \in Nat, Len(c) > 0, Len(c) <= UINT32,
         Numbered(c), Timed(c), ClockForward(c),
         NEW new, new = BlockchainDifficulty(c)
  PROVE  new = IF JustBelowHalf(c, Len(c)) THEN c[Len(c)].info.difficulty
               ELSE DocumentedDifficulty(c, Len(c))
<1> DEFINE I == DIFFICULTY_ADJUSTMENT_INTERVAL
           N == Len(c)
           last == c[N].info
           back == N - I + 1
           elapsed == last.timestamp - c[back].info.timestamp
           time == elapsed % UINT64
           turns == N # 1 /\ (N - 1) % I = 0
<1>1. last.index = N - 1
  <2>1. last.index = (N - 1) % UINT32
    BY DEF Numbered
  <2> QED BY <2>1, AmountAssumption
<1>2. N = 1 <=> last.index = 0
  BY <1>1
<1>3. turns => back \in 2..N
  <2>1. last.index # 0 /\ last.index % I = 0 => back \in 2..N
    BY IntervalBack
  <2> QED BY <1>1, <1>2, <2>1
<1>4. new = IF ~turns THEN last.difficulty
            ELSE IF back < 1 THEN 0
            ELSE AdjustedDifficulty(last.difficulty, time)
  <2>1. new = IF last.index = 0 \/ last.index % I # 0 THEN last.difficulty
              ELSE IF back < 1 THEN 0
              ELSE AdjustedDifficulty(last.difficulty, time)
    BY DEF BlockchainDifficulty
  <2> HIDE DEF last, back, time, I, N
  <2> QED BY <1>1, <1>2, <2>1
<1>5. DocumentedDifficulty(c, N)
        = IF ~turns THEN last.difficulty
          ELSE IF 2 * elapsed < ExpectedTime THEN last.difficulty + 1
          ELSE IF elapsed > 2 * ExpectedTime /\ last.difficulty > 0
          THEN last.difficulty - 1
          ELSE last.difficulty
  <2>1. DocumentedDifficulty(c, N)
        = IF N = 1 \/ (N - 1) % I # 0 THEN last.difficulty
          ELSE IF 2 * elapsed < ExpectedTime THEN last.difficulty + 1
          ELSE IF elapsed > 2 * ExpectedTime /\ last.difficulty > 0
          THEN last.difficulty - 1
          ELSE last.difficulty
    BY DEF DocumentedDifficulty
  <2> HIDE DEF last, elapsed, I, N
  <2> QED BY <2>1
<1>6. CASE ~turns
  <2>1. ~JustBelowHalf(c, N)
    BY <1>6 DEF JustBelowHalf
  <2> HIDE DEF turns, last
  <2> QED BY <1>4, <1>5, <1>6, <2>1
<1>7. CASE turns
  <2>1. back \in 2..N
    BY <1>3, <1>7
  <2>2. elapsed \in 0..(UINT64 - 1)
    <3>1. last.timestamp \in 0..(UINT64 - 1) /\ c[back].info.timestamp \in 0..(UINT64 - 1)
      BY <2>1 DEF Timed
    <3>2. c[back].info.timestamp <= last.timestamp
      <4>1. back \in 1..Len(c) /\ N \in back..Len(c)
        BY <2>1
      <4> HIDE DEF back, N
      <4> QED BY <4>1, ForwardTimes
    <3> HIDE DEF last, back
    <3> QED BY <3>1, <3>2, DifficultyAssumption, SMTT(30)
  <2>3. time = elapsed
    <3> HIDE DEF elapsed
    <3> QED BY <2>2, DifficultyAssumption
  <2>4. ExpectedTime \in Nat
    BY DifficultyAssumption DEF ExpectedTime
  <2>5. JustBelowHalf(c, N) <=> 2 * elapsed + 1 = ExpectedTime
    BY <1>7 DEF JustBelowHalf
  <2> HIDE DEF turns, elapsed, time, back, last
  <2>6. elapsed \in Nat
    BY <2>2, DifficultyAssumption
  <2>7. new = IF elapsed < ExpectedTime \div 2 THEN last.difficulty + 1
              ELSE IF elapsed > ExpectedTime * 2 /\ last.difficulty > 0
              THEN last.difficulty - 1 ELSE last.difficulty
    <3>1. ~(back < 1)
      BY <2>1
    <3> QED BY <1>4, <1>7, <2>3, <3>1 DEF AdjustedDifficulty
  <2>8. ExpectedTime * 2 = 2 * ExpectedTime
    BY <2>4
  <2>9. /\ elapsed < ExpectedTime \div 2 => 2 * elapsed < ExpectedTime
        /\ 2 * elapsed < ExpectedTime =>
              elapsed < ExpectedTime \div 2 \/ 2 * elapsed + 1 = ExpectedTime
        /\ 2 * elapsed + 1 = ExpectedTime =>
              ~(elapsed < ExpectedTime \div 2) /\ ~(elapsed > 2 * ExpectedTime)
    BY <2>4, <2>6, HalfRounded
  <2> QED
    <3> DEFINE below == elapsed < ExpectedTime \div 2
               belowHalf == 2 * elapsed < ExpectedTime
               above == elapsed > 2 * ExpectedTime /\ last.difficulty > 0
               just == 2 * elapsed + 1 = ExpectedTime
    <3>1. new = IF below THEN last.difficulty + 1
                ELSE IF above THEN last.difficulty - 1 ELSE last.difficulty
      BY <2>7, <2>8
    <3>2. DocumentedDifficulty(c, N)
            = IF belowHalf THEN last.difficulty + 1
              ELSE IF above THEN last.difficulty - 1 ELSE last.difficulty
      BY <1>5, <1>7
    <3>3. /\ below => belowHalf
          /\ belowHalf => below \/ just
          /\ just => ~below /\ ~above
      BY <2>9
    <3> HIDE DEF below, belowHalf, above, just
    <3>4. new = IF just THEN last.difficulty ELSE DocumentedDifficulty(c, N)
      BY <3>1, <3>2, <3>3
    <3>5. JustBelowHalf(c, N) <=> just
      BY <2>5 DEF just
    <3> HIDE DEF N
    <3> QED BY <3>4, <3>5 DEF last, N
<1> QED BY <1>6, <1>7

(* The elapsed time is between two blocks of the chain. *)
LEMMA BackOnChain ==
  ASSUME NEW n \in Nat, n # 0, n # 1, (n - 1) % DIFFICULTY_ADJUSTMENT_INTERVAL = 0
  PROVE  n - DIFFICULTY_ADJUSTMENT_INTERVAL + 1 \in 1..n
<1> DEFINE I == DIFFICULTY_ADJUSTMENT_INTERVAL
           a == n - 1
<1>1. I \in Nat \ {0} /\ a \in Nat /\ a # 0 /\ a % I = 0
  BY DifficultyAssumption
<1> HIDE DEF I, a
<1>2. a >= I
  BY <1>1, RemainderBounds
<1>3. a - I + 2 \in 1..(a + 1)
  <2>1. I \in Int /\ I >= 1 /\ a \in Int
    BY <1>1
  <2> QED BY <1>2, <2>1
<1>4. a + 1 = n /\ a - I + 2 = n - I + 1
  <2>1. I \in Int
    BY <1>1
  <2> QED BY <2>1 DEF a
<1> QED BY <1>3, <1>4 DEF I

(* A block keeps its place in the retargeting when the chain grows. *)
LEMMA DocumentedBefore ==
  ASSUME NEW c, Len(c) \in Nat, NEW d, \A b \in 1..Len(c) : d[b] = c[b],
         NEW n \in 1..Len(c)
  PROVE  /\ DocumentedDifficulty(d, n) = DocumentedDifficulty(c, n)
         /\ JustBelowHalf(d, n) <=> JustBelowHalf(c, n)
<1> DEFINE back == n - DIFFICULTY_ADJUSTMENT_INTERVAL + 1
           turns == n # 1 /\ (n - 1) % DIFFICULTY_ADJUSTMENT_INTERVAL = 0
<1>1. d[n] = c[n]
  OBVIOUS
<1>2. turns => d[back] = c[back]
  <2>1. n \in Nat /\ n # 0
    OBVIOUS
  <2>2. turns => back \in 1..n
    BY <2>1, BackOnChain
  <2>3. 1..n \subseteq 1..Len(c)
    OBVIOUS
  <2> HIDE DEF back, turns
  <2> QED BY <2>2, <2>3
<1>3. CASE turns
  BY <1>1, <1>2, <1>3 DEF DocumentedDifficulty, JustBelowHalf
<1>4. CASE ~turns
  <2>1. n = 1 \/ (n - 1) % DIFFICULTY_ADJUSTMENT_INTERVAL # 0
    BY <1>4
  <2> QED BY <1>1, <2>1 DEF DocumentedDifficulty, JustBelowHalf
<1> QED BY <1>3, <1>4

(* mine follows the document as far. *)
LEMMA MineDocumented ==
  ASSUME IInv, Numbered(chain), Timed(chain), Documented(chain),
         MaxBlocks <= UINT32, NEW time \in Times, Mine(time)
  PROVE  Documented(chain')
<1> DEFINE N == Len(chain)
<1>1. /\ N \in Nat /\ N > 0 /\ N <= UINT32 /\ Len(chain') = N + 1
      /\ \A b \in 1..N : chain'[b] = chain[b]
      /\ chain'[N + 1].info.difficulty = BlockchainDifficulty(chain)
  <2>1. N \in 1..(MaxBlocks - 1)
    BY MinedDifficulty
  <2>2. N \in Nat /\ N > 0 /\ N <= UINT32
    BY <2>1, CliAssumption, AmountAssumption
  <2> HIDE DEF N
  <2> QED BY <2>2, MinedDifficulty DEF N
<1> SUFFICES ASSUME ClockForward(chain'), NEW b \in 2..Len(chain')
             PROVE  chain'[b].info.difficulty =
                      IF JustBelowHalf(chain', b - 1) THEN chain'[b - 1].info.difficulty
                      ELSE DocumentedDifficulty(chain', b - 1)
  BY DEF Documented
<1> DEFINE n == b - 1
<1>2. ClockForward(chain)
  <2> SUFFICES ASSUME NEW a \in 2..N
               PROVE  chain[a - 1].info.timestamp <= chain[a].info.timestamp
    BY DEF ClockForward
  <2>1. /\ chain'[a - 1].info.timestamp <= chain'[a].info.timestamp
        /\ chain'[a - 1] = chain[a - 1] /\ chain'[a] = chain[a]
    BY <1>1 DEF ClockForward
  <2> QED BY <2>1
<1>3. n \in 1..N /\ (b = N + 1 \/ b \in 2..N)
  BY <1>1
<1>4. /\ DocumentedDifficulty(chain', n) = DocumentedDifficulty(chain, n)
      /\ JustBelowHalf(chain', n) <=> JustBelowHalf(chain, n)
      /\ chain'[n] = chain[n]
  <2> HIDE DEF n
  <2> QED BY <1>1, <1>3, DocumentedBefore
<1>5. chain'[b].info.difficulty =
        IF JustBelowHalf(chain, n) THEN chain[n].info.difficulty
        ELSE DocumentedDifficulty(chain, n)
  <2>1. CASE b = N + 1
    <3>1. n = N
      BY <1>1, <2>1
    <3> HIDE DEF n
    <3>2. chain'[b].info.difficulty = BlockchainDifficulty(chain)
      BY <1>1, <2>1
    <3>3. BlockchainDifficulty(chain) =
            IF JustBelowHalf(chain, N) THEN chain[N].info.difficulty
            ELSE DocumentedDifficulty(chain, N)
      BY <1>1, <1>2, DocumentedNext
    <3> QED BY <3>1, <3>2, <3>3
  <2>2. CASE b \in 2..N
    <3>1. chain'[b] = chain[b]
      BY <1>1, <2>2
    <3> QED BY <1>2, <2>2, <3>1 DEF Documented
  <2> QED BY <1>3, <2>1, <2>2
<1> HIDE DEF n
<1> QED BY <1>4, <1>5 DEF n

(* The chains of the files followed the document when they were made. *)
DocumentedFiles(f) ==
    \A path \in Paths : Timed(f[path].chain) /\ Documented(f[path].chain)

(* So does every step. *)
LEMMA DocumentedStep ==
  ASSUME IInv, Numbered(chain), Timed(chain), Documented(chain),
         DocumentedFiles(files), MaxBlocks <= UINT32, [Next]_vars
  PROVE  Timed(chain') /\ Documented(chain') /\ DocumentedFiles(files')
<1>1. CASE SameFiles /\ SameLedger
  BY <1>1 DEF SameFiles, SameLedger
<1>2. CASE SameFiles /\ \E time \in Times : Mine(time)
  BY <1>2, MineTimed, MineDocumented DEF SameFiles
<1>3. CASE SameFiles /\ chain' = chain
  BY <1>3 DEF SameFiles
<1>4. CASE SameLedger /\ \E path \in Paths :
               files' = [files EXCEPT ![path] = ChainFile(chain, unspent)]
  BY <1>4 DEF SameLedger, DocumentedFiles, ChainFile, IInv, TypeOK, AreFiles
<1>5. CASE SameFiles /\ \E path \in Paths : chain' = files[path].chain
  BY <1>5 DEF SameFiles, DocumentedFiles
<1>6. CASE SameFiles /\ chain' = <<GenesisBlock>>
  <2>1. Len(chain') = 1 /\ Timed(chain')
    BY <1>6, BlockAssumption DEF GenesisBlock, Timed
  <2>2. Documented(chain')
    BY <2>1 DEF Documented
  <2> QED BY <1>6, <2>1, <2>2 DEF SameFiles
<1> QED BY <1>1, <1>2, <1>3, <1>4, <1>5, <1>6, LedgerStep

(* Every chain in memory follows the document as far, under every clock     *)
(* that goes forward.                                                       *)
LEMMA DocumentedInvariant ==
  ASSUME \A f \in InitialFiles : NumberedFiles(f) /\ DocumentedFiles(f),
         MaxBlocks <= UINT32
  PROVE  Spec => [](IInv /\ Timed(chain) /\ Documented(chain))
<1> DEFINE Inv == /\ Numbered(chain) /\ NumberedFiles(files)
                  /\ Timed(chain) /\ Documented(chain) /\ DocumentedFiles(files)
<1>1. Init => Inv
  <2> SUFFICES ASSUME Init PROVE Inv
    OBVIOUS
  <2>1. Len(chain) = 1 /\ chain[1].info.index = 0 /\ 0 % UINT32 = 0 /\ Timed(chain)
    BY AmountAssumption, BlockAssumption DEF Init, GenesisBlock, Timed
  <2> QED BY <2>1 DEF Init, Numbered, Documented
<1>2. IInv /\ Inv /\ [Next]_vars => Inv'
  BY NumberedStep, DocumentedStep
<1> QED BY <1>1, <1>2, Invariant, PTL DEF Spec

(* While the clock goes forward, every block has the difficulty that        *)
(* README.md of v0.2 gives (blockchain_difficulty), for any interval, time  *)
(* and clock, but for one elapsed time: just below half of an odd expected  *)
(* time the difficulty stays, because the code rounds half down.            *)
THEOREM DifficultyAlwaysDocumented ==
  ASSUME \A f \in InitialFiles : NumberedFiles(f) /\ DocumentedFiles(f),
         MaxBlocks <= UINT32
  PROVE  Spec => []DifficultyDocumented
<1>1. Documented(chain) => DifficultyDocumented
  BY DEF DifficultyDocumented
<1> QED BY <1>1, DocumentedInvariant, PTL

-----------------------------------------------------------------------------
(* The list is not empty after the first block.                             *)

(* What a step does to the pool, and to the ledger along with it. *)
LEMMA MemoryStep ==
  ASSUME [Next]_vars
  PROVE  \/ pool' = pool /\ SameLedger
         \/ \E time \in Times : Mine(time)
         \/ \E time \in Times : MineRejected(time)
         \/ \E amount \in Amounts : \E receiver : Send(amount, receiver)
         \/ pool' = pool /\ chain' = chain /\ unspent' = SortByAmount(unspent)
         \/ \E path \in Paths : /\ files[path].kind = "chain"
                                /\ pool' = pool
                                /\ chain' = files[path].chain
                                /\ unspent' = files[path].unspent
         \/ pool' = <<>> /\ chain' = <<GenesisBlock>> /\ unspent' = <<>> /\ wallet' = NoKey
<1> USE DEF SameLedger
<1>1. CASE \E time \in Times : Mine(time) \/ MineRejected(time)
  BY <1>1
<1>2. CASE List
  BY <1>2 DEF List
<1>3. CASE \E path \in Paths : Save(path)
  BY <1>3 DEF Save, memory
<1>4. CASE \E path \in Paths : Load(path)
  BY <1>4 DEF Load
<1>5. CASE \E how, code : Forgets(how, code)
  BY <1>5 DEF Forgets
<1>6. CASE Fails
  BY <1>6 DEF Fails, memory
<1>7. CASE UNCHANGED vars
  BY <1>7 DEF vars, memory
<1>8. CASE \E amount \in Amounts : \E receiver : Send(amount, receiver)
  BY <1>8
<1>9. CASE Show \/ Launch \/ LaunchCrashes
  BY <1>9 DEF Show, Launch, LaunchCrashes, memory
<1>10. CASE WalletCreate \/ WalletLoadFails \/ \E folder \in Folders :
              WalletLoad(folder) \/ WalletSave(folder) \/ WalletSaveLost(folder)
  BY <1>10 DEF WalletCreate, WalletLoad, WalletLoadFails, WalletSave, WalletSaveLost, memory
<1> QED
  BY <1>1, <1>2, <1>3, <1>4, <1>5, <1>6, <1>7, <1>8, <1>9, <1>10
  DEF Next, WalletSaveFails, WalletSaveCrashes, SendFails, MineCrashes, MineFails,
      ListCrashes, LoadFails, Misused, BlankCrashes, Exit, Crashes, Ends

(* Every transaction has an output. *)
Paying(txs) == \A i \in 1..Len(txs) : Len(txs[i].outputs) > 0

(* A transaction of send has an output. *)
LEMMA SendPays ==
  ASSUME IInv, Paying(pool), NEW amount \in Amounts, NEW receiver, Send(amount, receiver)
  PROVE  Paying(pool')
<1> DEFINE sent == amount % UINT32
           tx == TransactionCreate(wallet, receiver, sent, unspent, pool)
           total == Selection(wallet, sent, unspent, pool).total
           first == TxOutCreate(sent, receiver)
           change == TxOutCreate(total - sent, wallet)
<1>1. pool' = Append(pool, tx)
  BY DEF Send
<1>2. tx.outputs = <<first>> \o (IF total = sent THEN <<>> ELSE <<change>>)
  BY DEF TransactionCreate, SendAmount
<1> HIDE DEF tx, first, change, total, sent
<1>3. Len(tx.outputs) > 0
  <2>1. CASE total = sent
    <3>1. tx.outputs = <<first>> \o <<>>
      BY <1>2, <2>1
    <3> QED BY <3>1
  <2>2. CASE total # sent
    <3>1. tx.outputs = <<first>> \o <<change>>
      BY <1>2, <2>2
    <3> QED BY <3>1
  <2> QED BY <2>1, <2>2
<1>4. /\ Len(pool) \in Nat /\ Len(pool') = Len(pool) + 1
      /\ \A i \in 1..Len(pool) : pool'[i] = pool[i]
      /\ pool'[Len(pool) + 1] = tx
  BY <1>1, AppendMembers DEF IInv, TypeOK, IsTransactionList, IsSeq
<1>5. \A i \in 1..Len(pool') : i \in 1..Len(pool) \/ i = Len(pool) + 1
  BY <1>4
<1> QED BY <1>3, <1>4, <1>5 DEF Paying

(* The purge only keeps transactions of the pool. *)
LEMMA PurgePays ==
  ASSUME NEW txs, IsSeq(txs), Paying(txs), NEW u
  PROVE  Paying(Purge(txs, u))
<1> DEFINE E == {tx \in Members(txs) : Len(tx.outputs) > 0}
<1>1. txs \in Seq(E) /\ Len(txs) \in Nat
  <2>1. txs \in Seq(Members(txs)) /\ Len(txs) \in Nat
    BY SeqOfMembers
  <2>2. \A i \in 1..Len(txs) : txs[i] \in E
    BY <2>1 DEF Paying
  <2> HIDE DEF E
  <2> QED BY <2>1, <2>2
<1>2. \A tx \in E : Len(tx.outputs) > 0
  OBVIOUS
<1> HIDE DEF E
<1>3. PICK run \in [0..Len(txs) -> Seq(E)] :
         /\ run[0] = txs
         /\ \A n \in 1..Len(txs) : run[n] = RemoveInvalid(run[n - 1], u)
         /\ Purge(txs, u) = run[Len(txs)]
  BY <1>1, PurgeTurns, SMTT(30)
<1>4. Purge(txs, u) \in Seq(E)
  BY <1>1, <1>3
<1>5. \A i \in 1..Len(Purge(txs, u)) : Purge(txs, u)[i] \in E
  BY <1>4
<1> QED BY <1>2, <1>5 DEF Paying

(* The list ends with the outputs of the last transaction of the block. *)
LEMMA MineFills ==
  ASSUME IInv, Paying(pool), NEW time, Mine(time)
  PROVE  unspent' # <<>>
<1> DEFINE block == BlockMine(DraftBlock(time))
           txs == block.transactions
           N == Len(txs)
           run == Updating(unspent, txs, block.hash)
<1>1. /\ unspent' = UpdateUnspent(txs, block.hash, unspent)
      /\ IsTransactionList(txs)
      /\ N > 0
  BY MinedBlock
<1>2. Paying(txs)
  <2> DEFINE coinbase == CoinbaseCreate(wallet, block.info.index)
             kept == Purge(pool, unspent)
  <2>1. txs = <<coinbase>> \o kept
    BY MinedFields
  <2>2. Len(coinbase.outputs) > 0
    BY DEF CoinbaseCreate
  <2>3. Paying(kept)
    BY PurgePays DEF IInv, TypeOK, IsTransactionList
  <2>4. kept \in Seq(Members(pool))
    <3>1. pool \in Seq(Members(pool))
      BY SeqOfMembers DEF IInv, TypeOK, IsTransactionList
    <3> QED BY <3>1, PurgeDisjoint DEF IInv, TypeOK, PoolDisjoint
  <2> HIDE DEF coinbase, kept, txs
  <2>5. /\ Len(kept) \in Nat /\ Len(txs) = Len(kept) + 1
        /\ txs[1] = coinbase
        /\ \A i \in 2..Len(txs) : i - 1 \in 1..Len(kept) /\ txs[i] = kept[i - 1]
    BY <2>1, <2>4
  <2>6. \A i \in 1..Len(txs) : i = 1 \/ i \in 2..Len(txs)
    BY <2>5
  <2> QED BY <2>2, <2>3, <2>5, <2>6 DEF Paying
<1> HIDE DEF block
<1>3. PICK E : EntriesIn(E, unspent, txs, block.hash)
  BY <1>1, BlockEntries DEF IInv, TypeOK, IsUnspentList
<1>4. N \in Nat /\ N \in 1..N /\ N - 1 \in 0..N
  BY <1>1 DEF IsTransactionList, IsSeq
<1>5. /\ unspent' = run[N]
      /\ run[N] = ProcessTransaction(run[N - 1], txs[N], block.hash)
      /\ run[N - 1] \in Seq(E)
  <2> DEFINE hash == block.hash
  <2> HIDE DEF txs, hash
  <2>1. /\ UpdateUnspent(txs, hash, unspent) = run[N]
        /\ \A n \in 1..N : run[n] = ProcessTransaction(run[n - 1], txs[n], hash)
        /\ \A n \in 0..N : run[n] \in Seq(E)
    BY <1>3, <1>4, EntryTurns DEF hash
  <2> HIDE DEF run, N
  <2> QED BY <1>1, <1>4, <2>1 DEF hash
<1> DEFINE left == SpendInputs(run[N - 1], txs[N])
           new == NewUnspent(txs[N], block.hash)
<1>6. left \in Seq(E) /\ new \in Seq(E)
  BY <1>3, <1>4, <1>5, SpendInputsType DEF EntriesIn
<1>7. unspent' = left \o new
  BY <1>5 DEF ProcessTransaction
<1>8. Len(new) > 0
  <2>1. Len(txs[N].outputs) > 0 /\ Len(txs[N].outputs) \in Nat
    BY <1>1, <1>2, <1>4 DEF Paying, IsTransactionList, IsTransaction, IsSeq
  <2>2. new = [n \in 1..Len(txs[N].outputs) |->
                 UnspentTxOutCreate(block.hash, txs[N].id, txs[N].outputs[n])]
    BY DEF NewUnspent
  <2> HIDE DEF new
  <2> QED BY <2>1, <2>2
<1> HIDE DEF left, new
<1>9. Len(unspent') = Len(left) + Len(new) /\ Len(left) \in Nat
  BY <1>6, <1>7
<1> QED BY <1>8, <1>9

(* In the files only a genesis block has nothing to list. *)
ListableFiles(f) ==
    \A path \in Paths :
        f[path].kind = "chain" /\ f[path].unspent = <<>> => Len(f[path].chain) <= 1

(* Once a block was mined or loaded there is something to list, and list    *)
(* does not crash (handle_list, llist_sort): every block brings the output  *)
(* of its coinbase, every transaction that send creates has an output, and  *)
(* sorting loses nothing. A file of an earlier session may have no unspent  *)
(* outputs only if it has no block either.                                  *)
THEOREM ListAlwaysNeedsBlock ==
  ASSUME \A f \in InitialFiles : ListableFiles(f)
  PROVE  Spec => []ListNeedsBlock
<1> DEFINE Inv == ListNeedsBlock /\ Paying(pool) /\ ListableFiles(files)
<1>1. Init => Inv
  BY DEF Init, ListNeedsBlock, Paying
<1>2. IInv /\ Inv /\ [Next]_vars => Inv'
  <2> SUFFICES ASSUME IInv, Inv, [Next]_vars PROVE Inv'
    OBVIOUS
  <2>1. Paying(pool')
    <3>1. CASE pool' = pool
      BY <3>1
    <3>2. CASE pool' = <<>>
      BY <3>2 DEF Paying
    <3>3. CASE \E time \in Times : Mine(time)
      BY <3>2, <3>3 DEF Mine
    <3>4. CASE \E time \in Times : MineRejected(time)
      BY <3>4, PurgePays DEF MineRejected, IInv, TypeOK, IsTransactionList
    <3>5. CASE \E amount \in Amounts : \E receiver : Send(amount, receiver)
      BY <3>5, SendPays
    <3> QED BY <3>1, <3>2, <3>3, <3>4, <3>5, MemoryStep
  <2>2. ListNeedsBlock' /\ ListableFiles(files')
    <3> USE DEF ListNeedsBlock
    <3>1. CASE SameFiles /\ SameLedger
      BY <3>1 DEF SameFiles, SameLedger
    <3>2. CASE SameFiles /\ \E time \in Times : Mine(time)
      BY <3>2, MineFills DEF SameFiles
    <3>3. CASE SameFiles /\ chain' = chain /\ unspent' = SortByAmount(unspent)
      <4> DEFINE E == Members(unspent)
      <4>1. unspent \in Seq(E)
        BY SeqOfMembers DEF IInv, TypeOK, IsUnspentList
      <4>2. Len(unspent') = Len(unspent)
        BY <3>3, <4>1, SortPermutes
      <4>3. unspent' = <<>> => unspent = <<>>
        BY <4>1, <4>2
      <4> QED BY <3>3, <4>3 DEF SameFiles
    <3>4. CASE SameLedger /\ \E path \in Paths :
                 files' = [files EXCEPT ![path] = ChainFile(chain, unspent)]
      BY <3>4 DEF SameLedger, ListableFiles, ChainFile, IInv, TypeOK, AreFiles
    <3>5. CASE /\ SameFiles
               /\ \E path \in Paths : /\ files[path].kind = "chain"
                                      /\ chain' = files[path].chain
                                      /\ unspent' = files[path].unspent
      BY <3>5 DEF SameFiles, ListableFiles
    <3>6. CASE SameFiles /\ chain' = <<GenesisBlock>> /\ unspent' = <<>>
      BY <3>6 DEF SameFiles
    <3> QED BY <3>1, <3>2, <3>3, <3>4, <3>5, <3>6, LedgerStep
  <2> QED BY <2>1, <2>2
<1> QED BY <1>1, <1>2, Invariant, PTL DEF Spec

=============================================================================
