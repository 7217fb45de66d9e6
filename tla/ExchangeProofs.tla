--------------------------- MODULE ExchangeProofs ---------------------------
(***************************************************************************)
(* What machines of both byte orders and versions may rely on when they    *)
(* pass chains through a file: of the files at first only that those with  *)
(* a header a machine accepts were written by one of these versions, and   *)
(* of the chains that they have fewer than BYTE * BYTE blocks.             *)
(***************************************************************************)
EXTENDS Exchange, SequenceTheorems, InductionLemmas

(* A block at place b of a chain that began with the genesis block.         *)
IsBlock(block, b) ==
    /\ block = [info |-> block.info, data |-> block.data, hash |-> block.hash]
    /\ block.info.index \in 0..(b - 1)
    /\ block.data \in 0..(UINT32 - 1)

(* A sequence, of whatever set. *)
IsSequence(s) == \E S : s \in Seq(S)

(* Every little-endian machine of the version accepts the blocks.           *)
Accepted(version, order, blocks) ==
    \A m \in Machines :
        Version[m] = version /\ Order[m] = order /\ order = "little" =>
            \A b \in 1..Len(blocks) :
                BlockIsValid(m, blocks[b], blocks[IF b = 1 THEN 1 ELSE b - 1])

(* A chain that programs of the version and byte order make.                *)
IsChain(version, order, c) ==
    /\ c = [status |-> c.status, blocks |-> c.blocks]
    /\ c.status \in {"null", "no_list", "list"}
    /\ IsSequence(c.blocks)
    /\ Len(c.blocks) < BYTE * BYTE
    /\ c.status = "list" <=> Len(c.blocks) > 0
    /\ \A b \in 1..Len(c.blocks) : IsBlock(c.blocks[b], b)
    /\ Accepted(version, order, c.blocks)

(* What such a program writes.                                              *)
Items(version, order, c) ==
    <<"HBLK", version, order, Count(c)>>
       \o [n \in 1..(4 * Len(c.blocks)) |->
             BlockItems(c.blocks[(n + 3) \div 4])[((n - 1) % 4) + 1]]

(* The file holds the beginning of what was written for chain c.            *)
Keeps(version, f, c) ==
    /\ IsChain(version, f.order, c)
    /\ c.status # "null"
    /\ f.items \in Cuts(Items(version, f.order, c))

(* A file whose header a machine accepts was written by such a program.     *)
IsFile(f) ==
    /\ f = [order |-> f.order, items |-> f.items]
    /\ f.order \in {"little", "big"}
    /\ \A m \in Machines : HeaderRead(m, f) =>
           \E version, c : Keeps(version, f, c)

(* What is on the disk at first was written by one of the programs, whole   *)
(* or not.                                                                  *)
FilesWritten == \A f \in FirstFiles : IsFile(f)

-----------------------------------------------------------------------------
(* The bytes of a number that needs two bytes, in the other order, are a    *)
(* larger number; those of the largest are not 0.                           *)
LEMMA ReversedGrows ==
  ASSUME NEW n \in 1..(BYTE * BYTE - 1)
  PROVE  Reversed32(n) \in Nat /\ Reversed32(n) > n
<1> DEFINE B == BYTE
           d0 == n % B
           n1 == n \div B
           n2 == n1 \div B
           n3 == n2 \div B
           d1 == n1 % B
           d2 == n2 % B
           d3 == n3 % B
           x == d0 * B + d1
           y == x * B + d2
<1>1. B \in Nat \ {0} /\ B >= 2
  BY ExchangeAssumption
<1>2. d0 \in 0..(B - 1) /\ n1 \in Int /\ n = B * n1 + d0
  <2> HIDE DEF B
  <2> QED BY <1>1, Division
<1>3. d1 \in 0..(B - 1) /\ n2 \in Int /\ n1 = B * n2 + d1
  <2> HIDE DEF B, n1
  <2> QED BY <1>1, <1>2, Division
<1>4. d2 \in 0..(B - 1) /\ n3 \in Int
  <2> HIDE DEF B, n2
  <2> QED BY <1>1, <1>3, Division
<1>5. d3 \in 0..(B - 1)
  <2> HIDE DEF B, n3
  <2> QED BY <1>1, <1>4, Division
<1>6. Reversed32(n) = y * B + d3
  BY DEF Reversed32
<1>7. n \in Nat /\ n < B * B
  BY <1>1
<1> HIDE DEF B, d0, n1, n2, n3, d1, d2, d3
<1>8. x \in Nat /\ x >= d0 * B /\ x >= d1
  BY <1>1, <1>2, <1>3
<1>9. y \in Nat /\ y >= x * B
  BY <1>1, <1>4, <1>8
<1> HIDE DEF x, y
<1>10. y * B + d3 \in Nat /\ y * B + d3 >= y * B
  BY <1>1, <1>5, <1>9
<1>11. y * B >= (x * B) * B
  BY <1>1, <1>8, <1>9
<1>12. CASE d0 >= 1
  <2>1. x >= B
    BY <1>1, <1>2, <1>8, <1>12
  <2>2. x * B >= B * B
    BY <1>1, <1>8, <2>1
  <2>3. (x * B) * B >= x * B
    BY <1>1, <1>8
  <2> QED BY <1>6, <1>7, <1>10, <1>11, <2>2, <2>3, <1>1, <1>8, <1>9
<1>13. CASE d0 = 0
  <2>1. n = B * n1 /\ x = d1
    BY <1>1, <1>2, <1>3, <1>13 DEF x
  <2>2. n1 >= 1
    BY <1>1, <1>2, <2>1
  <2>3. n1 < B
    BY <1>1, <1>2, <1>7, <2>1
  <2>4. n2 = 0
    <3>1. n1 = B * 0 + n1 /\ n1 \in 0..(B - 1)
      BY <1>1, <1>2, <2>2, <2>3
    <3> QED BY <1>1, <1>3, <3>1, DivisionUnique
  <2>5. x = n1 /\ x >= 1
    BY <2>2, <1>1, <1>3, <2>1, <2>4
  <2>6. (x * B) * B >= (x * B) * 2
    BY <1>1, <1>8
  <2>7. x * B > 0
    BY <1>1, <1>8, <2>5
  <2> QED BY <1>6, <1>7, <1>10, <1>11, <2>1, <2>5, <2>6, <2>7, <1>1, <1>8, <1>9
<1> QED BY <1>2, <1>12, <1>13

(* The timestamp -1 is not 0 in the other byte order either. *)
LEMMA ReversedMinusOne == Reversed32(UINT32 - 1) \in Nat /\ Reversed32(UINT32 - 1) >= 1
<1> DEFINE B == BYTE
           n == UINT32 - 1
           d0 == n % B
           n1 == n \div B
           n2 == n1 \div B
           n3 == n2 \div B
           d1 == n1 % B
           d2 == n2 % B
           d3 == n3 % B
           q == B * B * B - 1
<1>1. B \in Nat \ {0} /\ B >= 2
  BY ExchangeAssumption
<1>2. n = B * q + (B - 1) /\ q \in Int
  BY <1>1 DEF UINT32
<1>3. d0 = B - 1 /\ n1 \in Int
  <2> HIDE DEF q, n
  <2>1. B - 1 \in 0..(B - 1)
    BY <1>1
  <2>2. (B * q + (B - 1)) % B = B - 1
    BY <1>1, <1>2, <2>1, RemainderIs
  <2>3. n \in Int
    BY <1>1, <1>2
  <2> QED BY <1>1, <1>2, <2>2, <2>3, Division
<1>4. d1 \in 0..(B - 1) /\ n2 \in Int
  <2> HIDE DEF B, n1
  <2> QED BY <1>1, <1>3, Division
<1>5. d2 \in 0..(B - 1) /\ n3 \in Int
  <2> HIDE DEF B, n2
  <2> QED BY <1>1, <1>4, Division
<1>6. d3 \in 0..(B - 1)
  <2> HIDE DEF B, n3
  <2> QED BY <1>1, <1>5, Division
<1>7. Reversed32(UINT32 - 1) = ((d0 * B + d1) * B + d2) * B + d3
  BY DEF Reversed32
<1> HIDE DEF B, n, d0, n1, n2, n3, d1, d2, d3, q
<1>8. d0 * B + d1 \in Nat /\ d0 * B + d1 >= 1
  BY <1>1, <1>3, <1>4
<1>9. (d0 * B + d1) * B + d2 \in Nat /\ (d0 * B + d1) * B + d2 >= 1
  BY <1>1, <1>5, <1>8
<1>10. ((d0 * B + d1) * B + d2) * B + d3 \in Nat /\ ((d0 * B + d1) * B + d2) * B + d3 >= 1
  BY <1>1, <1>6, <1>9
<1> QED BY <1>7, <1>10

-----------------------------------------------------------------------------
(* What one machine writes: the header and four items for each block.       *)

LEMMA ItemsAt ==
  ASSUME NEW version, NEW order, NEW c, IsChain(version, order, c)
  PROVE  LET I == Items(version, order, c)
             N == Len(c.blocks)
         IN  /\ N \in Nat
             /\ IsSequence(I) /\ Len(I) = 4 + 4 * N
             /\ I[1] = "HBLK" /\ I[2] = version /\ I[3] = order /\ I[4] = Count(c)
             /\ \A b \in 1..N, k \in 1..4 : I[4 * b + k] = BlockItems(c.blocks[b])[k]
<1> DEFINE N == Len(c.blocks)
           H == <<"HBLK", version, order, Count(c)>>
           at(n) == BlockItems(c.blocks[(n + 3) \div 4])[((n - 1) % 4) + 1]
           L == [n \in 1..(4 * N) |-> at(n)]
           S == {H[k] : k \in 1..4} \cup {at(n) : n \in 1..(4 * N)}
           I == H \o L
<1>1. N \in Nat
  BY DEF IsChain, IsSequence
<1>2. H \in Seq(S) /\ Len(H) = 4
  OBVIOUS
<1>3. L \in Seq(S) /\ Len(L) = 4 * N
  <2>1. \A n \in 1..(4 * N) : at(n) \in S
    OBVIOUS
  <2>2. 4 * N \in Nat
    BY <1>1
  <2> HIDE DEF at, S, N
  <2> QED BY <2>1, <2>2
<1>4. Items(version, order, c) = I
  BY DEF Items
<1>5. H[1] = "HBLK" /\ H[2] = version /\ H[3] = order /\ H[4] = Count(c)
  OBVIOUS
<1>6. \A n \in 1..(4 * N) : L[n] = at(n)
  OBVIOUS
<1> HIDE DEF S, at, N, H, L
<1>0. /\ I \in Seq(S) /\ Len(I) = Len(H) + Len(L)
      /\ \A n \in 1..Len(H) + Len(L) : I[n] = IF n <= Len(H) THEN H[n] ELSE L[n - Len(H)]
  BY <1>2, <1>3, ConcatProperties
<1> HIDE DEF I
<1>7. I \in Seq(S) /\ Len(I) = 4 + 4 * N
  BY <1>0, <1>2, <1>3
<1>8. \A k \in 1..4 : I[k] = H[k]
  BY <1>0, <1>1, <1>2, <1>3
<1>9. \A n \in 1..(4 * N) : I[4 + n] = L[n]
  BY <1>0, <1>1, <1>2, <1>3
<1>10. ASSUME NEW b \in 1..N, NEW k \in 1..4
       PROVE  I[4 * b + k] = BlockItems(c.blocks[b])[k]
  <2> DEFINE n == 4 * (b - 1) + k
  <2>1. n \in 1..(4 * N) /\ 4 * b + k = 4 + n
    BY <1>1
  <2>2. (n + 3) \div 4 = b /\ ((n - 1) % 4) + 1 = k
    BY <1>1
  <2>3. at(n) = BlockItems(c.blocks[b])[k]
    BY <2>2 DEF at
  <2> HIDE DEF n
  <2> QED BY <1>6, <1>9, <2>1, <2>3
<1>11. IsSequence(I)
  BY <1>7 DEF IsSequence
<1>12. I[1] = "HBLK" /\ I[2] = version /\ I[3] = order /\ I[4] = Count(c)
  BY <1>5, <1>8
<1> QED BY <1>1, <1>4, <1>7, <1>10, <1>11, <1>12 DEF N

(* What a machine reads in a file that was written by its version: the      *)
(* header, and of the blocks of one chain those that are there.             *)
Shows(m, f, c) ==
    LET N == Len(c.blocks)
    IN  /\ IsChain(Version[m], f.order, c)
        /\ c.status # "null"
        /\ Len(f.items) \in 4..(4 + 4 * N)
        /\ f.items[3] = f.order
        /\ f.items[4] = Count(c)
        /\ Len(f.items) = 4 + 4 * N =>
               /\ f.items = Items(Version[m], f.order, c)
               /\ \A b \in 1..N, k \in 1..4 :
                      f.items[4 * b + k] = BlockItems(c.blocks[b])[k]

(* A file whose header is read as right shows a chain of the version of the *)
(* reader.                                                                  *)
LEMMA HeaderShows ==
  ASSUME NEW m \in Machines, NEW f, IsFile(f), HeaderRead(m, f)
  PROVE  \E c : Shows(m, f, c)
<1>1. PICK version, c : Keeps(version, f, c)
  BY DEF IsFile
<1> DEFINE I == Items(version, f.order, c)
           N == Len(c.blocks)
<1>2. /\ N \in Nat
      /\ IsSequence(I) /\ Len(I) = 4 + 4 * N
      /\ I[2] = version /\ I[3] = f.order /\ I[4] = Count(c)
      /\ \A b \in 1..N, k \in 1..4 : I[4 * b + k] = BlockItems(c.blocks[b])[k]
  BY <1>1, ItemsAt DEF Keeps
<1>3. PICK n \in 0..Len(I) : f.items = SubSeq(I, 1, n)
  BY <1>1 DEF Keeps, Cuts
<1> HIDE DEF I, N
<1>4. /\ Len(f.items) = n
      /\ \A k \in 1..n : f.items[k] = I[k]
  BY <1>2, <1>3 DEF IsSequence
<1>5. n \in 4..(4 + 4 * N)
  BY <1>2, <1>3, <1>4 DEF HeaderRead
<1>6. f.items[2] = version /\ f.items[3] = f.order /\ f.items[4] = Count(c)
  BY <1>2, <1>4, <1>5
<1>7. version = Version[m]
  BY <1>6 DEF HeaderRead
<1>8. n = 4 + 4 * N => f.items = I
  BY <1>2, <1>3 DEF IsSequence
<1> QED BY <1>1, <1>2, <1>4, <1>5, <1>6, <1>7, <1>8 DEF Shows, Keeps, I, N

(* A machine without a list of blocks satisfies what is said of chains. *)
LEMMA NoChain ==
  ASSUME NEW version, NEW order
  PROVE  IsChain(version, order, NULL) /\ IsChain(version, order, NoList)
<1>1. <<>> \in Seq({}) /\ Len(<<>>) = 0
  OBVIOUS
<1>2. 0 < BYTE * BYTE
  BY ExchangeAssumption
<1> QED BY <1>1, <1>2 DEF IsChain, IsSequence, NULL, NoList, Accepted

(* A machine of the same byte order reads the whole chain back.             *)
LEMMA ReadBack ==
  ASSUME NEW m \in Machines, NEW f, NEW c, HeaderRead(m, f), Shows(m, f, c),
         f.order = Order[m], c.status = "list", Len(f.items) = 4 + 4 * Len(c.blocks)
  PROVE  Deserialize(m, f) = c
<1> DEFINE N == Len(c.blocks)
<1>1. Deserialize(m, f) = Blocks(f.items, N, FALSE)
  BY DEF Deserialize, Shows, Count
<1>2. Blocks(f.items, N, FALSE) = List([b \in 1..N |-> ReadBlock(f.items, b, FALSE)])
  <2>1. N \in Nat
    BY DEF Shows, IsChain, IsSequence
  <2> QED BY <2>1 DEF Blocks
<1>3. ASSUME NEW b \in 1..N PROVE ReadBlock(f.items, b, FALSE) = c.blocks[b]
  <2>1. \A k \in 1..4 : f.items[4 * b + k] = BlockItems(c.blocks[b])[k]
    BY DEF Shows
  <2>2. /\ f.items[4 * b + 1] = c.blocks[b].info
        /\ f.items[4 * b + 2] = c.blocks[b].data
        /\ f.items[4 * b + 4] = c.blocks[b].hash
    BY <2>1 DEF BlockItems
  <2>3. IsBlock(c.blocks[b], b)
    BY DEF Shows, IsChain
  <2> QED BY <2>2, <2>3 DEF ReadBlock, ReadInfo, IsBlock
<1>4. c.blocks = [b \in 1..N |-> c.blocks[b]]
  BY DEF Shows, IsChain, IsSequence
<1>5. [b \in 1..N |-> ReadBlock(f.items, b, FALSE)] = c.blocks
  <2>1. [b \in 1..N |-> ReadBlock(f.items, b, FALSE)] = [b \in 1..N |-> c.blocks[b]]
    BY <1>3
  <2> QED BY <1>4, <2>1
<1>6. c = [status |-> "list", blocks |-> c.blocks]
  BY DEF Shows, IsChain
<1> QED BY <1>1, <1>2, <1>5, <1>6 DEF List

(* What a machine loads is a chain of its own version and byte order, and   *)
(* when it has a list it is all that was written.                           *)
LEMMA LoadsWhole ==
  ASSUME NEW m \in Machines, NEW f, IsFile(f)
  PROVE  LET d == Deserialize(m, f)
         IN  /\ IsChain(Version[m], Order[m], d)
             /\ d.status = "list" => f = [order |-> Order[m], items |-> WholeItems(m, d)]
<1>1. CASE ~HeaderRead(m, f)
  <2>1. Deserialize(m, f) = NULL
    BY <1>1 DEF Deserialize
  <2> QED BY <2>1, NoChain DEF NULL
<1>2. CASE HeaderRead(m, f)
  <2>1. PICK c : Shows(m, f, c)
    BY <1>2, HeaderShows
  <2> DEFINE N == Len(c.blocks)
             size == IF f.order = Order[m] THEN f.items[4] ELSE Reversed32(f.items[4])
  <2>2. N \in 0..(BYTE * BYTE - 1) /\ Len(f.items) \in 4..(4 + 4 * N)
    BY <2>1, ExchangeAssumption, SMTT(30) DEF Shows, IsChain, IsSequence
  <2>3. Deserialize(m, f) = Blocks(f.items, size, f.items[3] # Order[m])
    BY <1>2 DEF Deserialize
  <2>4. ASSUME size \in Nat, size > N \/ Len(f.items) < 4 + 4 * size
        PROVE  Deserialize(m, f) = NoList
    <3>1. ~(Len(f.items) >= 4 + 4 * size)
      BY <2>2, <2>4
    <3> QED BY <2>3, <3>1 DEF Blocks
  <2>5. CASE c.status = "no_list"
    <3>1. N = 0 /\ f.items[4] = UINT32 - 1
      BY <2>1, <2>2, <2>5 DEF Shows, IsChain, Count
    <3>2. UINT32 - 1 \in Nat /\ UINT32 - 1 >= 1
      <4>1. BYTE \in Nat /\ BYTE * BYTE >= 4 /\ BYTE * BYTE \in Nat
        BY ExchangeAssumption
      <4>2. (BYTE * BYTE) * (BYTE * BYTE) >= 4
        BY <4>1
      <4>3. UINT32 = (BYTE * BYTE) * (BYTE * BYTE)
        BY <4>1 DEF UINT32
      <4> QED BY <4>1, <4>2, <4>3
    <3>3. size \in Nat /\ size >= 1
      BY <3>1, <3>2, ReversedMinusOne
    <3>4. Deserialize(m, f) = NoList
      BY <2>4, <3>1, <3>3
    <3> QED BY <3>4, NoChain DEF NoList
  <2>6. CASE c.status = "list"
    <3>1. N >= 1 /\ f.items[4] = N
      BY <2>1, <2>2, <2>6 DEF Shows, IsChain, Count
    <3>2. CASE f.order # Order[m]
      <4>1. size = Reversed32(N)
        BY <3>1, <3>2
      <4>2. N \in 1..(BYTE * BYTE - 1)
        BY <2>2, <3>1
      <4>3. Reversed32(N) \in Nat /\ Reversed32(N) > N
        BY <4>2, ReversedGrows
      <4>4. Deserialize(m, f) = NoList
        BY <2>4, <4>1, <4>3
      <4> QED BY <4>4, NoChain DEF NoList
    <3>3. CASE f.order = Order[m] /\ Len(f.items) = 4 + 4 * N
      <4>1. Deserialize(m, f) = c
        BY <1>2, <2>1, <2>6, <3>3, ReadBack
      <4>2. IsChain(Version[m], Order[m], c) /\ f.items = Items(Version[m], Order[m], c)
        BY <2>1, <3>3 DEF Shows
      <4>3. f = [order |-> Order[m], items |-> f.items]
        BY <3>3 DEF IsFile
      <4>4. WholeItems(m, c) = Items(Version[m], Order[m], c)
        BY DEF WholeItems, Items
      <4> QED BY <4>1, <4>2, <4>3, <4>4
    <3>4. CASE f.order = Order[m] /\ Len(f.items) # 4 + 4 * N
      <4>1. size = N /\ Len(f.items) < 4 + 4 * N
        BY <2>2, <3>1, <3>4
      <4>2. Deserialize(m, f) = NoList
        BY <2>2, <2>4, <4>1
      <4> QED BY <4>2, NoChain DEF NoList
    <3> QED BY <3>2, <3>3, <3>4
  <2> QED BY <2>1, <2>5, <2>6 DEF Shows, IsChain
<1> QED BY <1>1, <1>2

(* A machine loads back the chain it has saved.                             *)
LEMMA SavedIsLoaded ==
  ASSUME NEW m \in Machines, NEW c, IsChain(Version[m], Order[m], c), c.status = "list"
  PROVE  Deserialize(m, [order |-> Order[m], items |-> WholeItems(m, c)]) = c
<1> DEFINE f == [order |-> Order[m], items |-> WholeItems(m, c)]
           N == Len(c.blocks)
<1>1. f.order = Order[m] /\ f.items = Items(Version[m], Order[m], c)
  BY DEF WholeItems, Items
<1>2. /\ N \in Nat
      /\ Len(f.items) = 4 + 4 * N
      /\ f.items[1] = "HBLK" /\ f.items[2] = Version[m] /\ f.items[3] = Order[m]
      /\ f.items[4] = Count(c)
      /\ \A b \in 1..N, k \in 1..4 : f.items[4 * b + k] = BlockItems(c.blocks[b])[k]
  BY <1>1, ItemsAt, SMTT(30)
<1> HIDE DEF f
<1>3. HeaderRead(m, f)
  BY <1>2 DEF HeaderRead
<1>4. Shows(m, f, c)
  <2>1. IsChain(Version[m], f.order, c) /\ c.status # "null"
    BY <1>1
  <2>2. Len(f.items) \in 4..(4 + 4 * N)
    BY <1>2
  <2> QED BY <1>1, <1>2, <2>1, <2>2 DEF Shows
<1>5. Deserialize(m, f) = c
  BY <1>1, <1>2, <1>3, <1>4, ReadBack
<1> QED BY <1>5 DEF f

-----------------------------------------------------------------------------
(* Adding blocks. The block follows prev: everything block_is_valid looks   *)
(* at but the place of prev in its chain.                                   *)
ComesAfter(m, block, prev) ==
    /\ block = [info |-> block.info, data |-> block.data, hash |-> block.hash]
    /\ block.info.index = (prev.info.index + 1) % UINT32
    /\ block.info.prev_hash = prev.hash
    /\ block.hash = BlockHash(Order[m], block)
    /\ block.data \in 0..BLOCKCHAIN_DATA_MAX
    /\ Version[m] = "0.2" => HashMatchesDifficulty(block.hash, block.info.difficulty)

(* A number of 16 bits fits in 32. *)
LEMMA Words == BYTE * BYTE \in Nat /\ UINT32 \in Nat /\ BYTE * BYTE >= 4 /\ UINT32 >= BYTE * BYTE
<1>1. BYTE \in Nat /\ BYTE * BYTE >= 4 /\ BYTE * BYTE \in Nat
  BY ExchangeAssumption
<1>2. UINT32 = (BYTE * BYTE) * (BYTE * BYTE)
  BY <1>1 DEF UINT32
<1> DEFINE W == BYTE * BYTE
<1> HIDE DEF W
<1>3. W \in Nat /\ W >= 4 /\ UINT32 = W * W
  BY <1>1, <1>2 DEF W
<1>4. W * W \in Nat /\ W * W >= W
  BY <1>3
<1> QED BY <1>1, <1>3, <1>4 DEF W

(* A block that follows the last one is valid there.                        *)
LEMMA FollowerValid ==
  ASSUME NEW m \in Machines, NEW c, IsChain(Version[m], Order[m], c), c.status = "list",
         NEW block, ComesAfter(m, block, c.blocks[Len(c.blocks)])
  PROVE  /\ block.info.index \in 1..Len(c.blocks)
         /\ block.data \in 0..(UINT32 - 1)
         /\ Order[m] = "little" => BlockIsValid(m, block, c.blocks[Len(c.blocks)])
<1> DEFINE N == Len(c.blocks)
           prev == c.blocks[N]
<1>1. N \in 1..(BYTE * BYTE - 1) /\ IsBlock(prev, N)
  BY Words DEF IsChain, IsSequence
<1>2. block.info.index = prev.info.index + 1
  <2>1. prev.info.index + 1 \in 1..(UINT32 - 1)
    BY <1>1, Words DEF IsBlock
  <2>2. (prev.info.index + 1) % UINT32 = prev.info.index + 1
    BY <2>1, Words, SMTT(30)
  <2> QED BY <2>2 DEF ComesAfter
<1>3. block.info.index \in 1..N
  BY <1>1, <1>2 DEF IsBlock
<1>4. block.data \in 0..(UINT32 - 1)
  BY ExchangeAssumption, Words DEF ComesAfter, UINT32
<1>5. ASSUME Order[m] = "little" PROVE BlockIsValid(m, block, prev)
  <2>1. BlockIsValid(m, prev, c.blocks[IF N = 1 THEN 1 ELSE N - 1])
    <3>1. \A b \in 1..N : BlockIsValid(m, c.blocks[b], c.blocks[IF b = 1 THEN 1 ELSE b - 1])
      BY <1>5 DEF IsChain, Accepted
    <3>2. N \in 1..N
      BY <1>1, Words
    <3> HIDE DEF N
    <3> QED BY <3>1, <3>2
  <2>2. BlockHash(Order[m], prev) = prev.hash
    <3>1. CASE prev = GenesisBlock
      BY <1>5, <3>1 DEF GenesisBlock, BlockHash
    <3>2. CASE prev.info.index # 0
      BY <2>1, <3>2 DEF BlockIsValid
    <3> QED BY <2>1, <3>1, <3>2 DEF BlockIsValid
  <2>3. block.info.index # 0
    BY <1>3
  <2>4. block.data <= BLOCKCHAIN_DATA_MAX
    BY ExchangeAssumption DEF ComesAfter
  <2> QED BY <2>2, <2>3, <2>4 DEF BlockIsValid, ComesAfter
<1> QED BY <1>3, <1>4, <1>5

(* A block that comes after the last one extends a chain. *)
LEMMA ChainExtended ==
  ASSUME NEW m \in Machines, NEW c, IsChain(Version[m], Order[m], c), c.status = "list",
         Len(c.blocks) + 1 < BYTE * BYTE,
         NEW block, ComesAfter(m, block, c.blocks[Len(c.blocks)])
  PROVE  IsChain(Version[m], Order[m], [c EXCEPT !.blocks = Append(@, block)])
<1> DEFINE N == Len(c.blocks)
           B == Append(c.blocks, block)
           d == [c EXCEPT !.blocks = B]
<1>1. PICK S : c.blocks \in Seq(S)
  BY DEF IsChain, IsSequence
<1>2. N \in Nat /\ N > 0
  BY <1>1 DEF IsChain
<1>3. c.blocks \in Seq(S \cup {block})
  BY <1>1
<1>4. /\ B \in Seq(S \cup {block}) /\ Len(B) = N + 1
      /\ B[N + 1] = block /\ \A b \in 1..N : B[b] = c.blocks[b]
  BY <1>2, <1>3
<1>5. d = [status |-> "list", blocks |-> B]
  BY DEF IsChain
<1> HIDE DEF B, d
<1>6. block = [info |-> block.info, data |-> block.data, hash |-> block.hash]
  BY DEF ComesAfter
<1>7. ASSUME NEW b \in 1..(N + 1) PROVE IsBlock(B[b], b)
  <2>1. CASE b = N + 1
    <3>1. block.info.index \in 0..N /\ block.data \in 0..(UINT32 - 1)
      BY <1>2, FollowerValid
    <3> QED BY <1>2, <1>4, <1>6, <2>1, <3>1 DEF IsBlock
  <2>2. CASE b \in 1..N
    BY <1>4, <2>2 DEF IsChain
  <2> QED BY <1>2, <2>1, <2>2
<1>8. Accepted(Version[m], Order[m], B)
  <2> SUFFICES ASSUME NEW w \in Machines, Version[w] = Version[m], Order[w] = Order[m],
                      Order[m] = "little", NEW b \in 1..(N + 1)
               PROVE  BlockIsValid(w, B[b], B[IF b = 1 THEN 1 ELSE b - 1])
    BY <1>4 DEF Accepted
  <2>1. CASE b = N + 1
    <3>1. BlockIsValid(m, block, c.blocks[N])
      BY FollowerValid
    <3>2. B[b] = block /\ B[IF b = 1 THEN 1 ELSE b - 1] = c.blocks[N]
      BY <1>2, <1>4, <2>1
    <3> QED BY <3>1, <3>2 DEF BlockIsValid
  <2>2. CASE b \in 1..N
    <3>1. BlockIsValid(w, c.blocks[b], c.blocks[IF b = 1 THEN 1 ELSE b - 1])
      BY <2>2 DEF IsChain, Accepted
    <3>2. B[b] = c.blocks[b] /\ B[IF b = 1 THEN 1 ELSE b - 1] = c.blocks[IF b = 1 THEN 1 ELSE b - 1]
      BY <1>2, <1>4, <2>2
    <3> QED BY <3>1, <3>2
  <2> QED BY <1>2, <2>1, <2>2
<1>9. IsSequence(B)
  BY <1>4 DEF IsSequence
<1>10. IsChain(Version[m], Order[m], d)
  BY <1>2, <1>4, <1>5, <1>7, <1>8, <1>9 DEF IsChain
<1> QED BY <1>10 DEF d, B

(* The new chain of the genesis block alone.                                *)
LEMMA GenesisChain ==
  ASSUME NEW version, NEW order
  PROVE  IsChain(version, order, List(<<GenesisBlock>>))
<1> DEFINE L == <<GenesisBlock>>
<1>1. L \in Seq({GenesisBlock}) /\ Len(L) = 1 /\ L[1] = GenesisBlock
  OBVIOUS
<1>2. IsBlock(GenesisBlock, 1)
  BY ExchangeAssumption, Words DEF IsBlock, GenesisBlock, UINT32
<1>3. Accepted(version, order, L)
  BY <1>1 DEF Accepted, BlockIsValid, GenesisBlock
<1> HIDE DEF L
<1>4. IsSequence(L)
  BY <1>1 DEF IsSequence
<1>5. IsChain(version, order, List(L))
  <2>1. List(L).status = "list" /\ List(L).blocks = L
        /\ List(L) = [status |-> List(L).status, blocks |-> List(L).blocks]
    BY DEF List
  <2>2. \A b \in 1..Len(L) : IsBlock(L[b], b)
    BY <1>1, <1>2
  <2>3. Len(L) < BYTE * BYTE /\ Len(L) > 0
    BY <1>1, Words
  <2> HIDE DEF List
  <2> QED BY <1>3, <1>4, <2>1, <2>2, <2>3 DEF IsChain
<1> QED BY <1>5 DEF L

(* The block that version 0.1 adds, and the one that version 0.2 mines.     *)
LEMMA CreatedFollows ==
  ASSUME NEW m \in Machines, Version[m] = "0.1", NEW prev, NEW length \in Lengths, NEW time
  PROVE  LET draft == BlockCreate(prev, length, time)
         IN  ComesAfter(m, [info |-> draft.info, data |-> draft.data,
                         hash |-> BlockHash(Order[m], draft)], prev)
  BY ExchangeAssumption DEF ComesAfter, BlockCreate, BlockHash

(* The least nonce that matches is one that matches. *)
LEMMA LeastMatch ==
  ASSUME NEW order, NEW block, MatchingNonces(order, block) # {}
  PROVE  Min(MatchingNonces(order, block)) \in MatchingNonces(order, block)
<1> DEFINE M == MatchingNonces(order, block)
<1>1. M \subseteq Nat
  BY ExchangeAssumption DEF MatchingNonces
<1> HIDE DEF M
<1>2. \E x \in M : \A y \in M : x <= y
  BY <1>1, LeastElement DEF M
<1>3. Min(M) \in M
  BY <1>2 DEF Min
<1> QED BY <1>3 DEF M

(* A block that was mined comes after the one before it. *)
LEMMA MinedFollows ==
  ASSUME NEW m \in Machines, NEW prev, NEW length \in Lengths, NEW time, NEW difficulty,
         NEW draft, draft = [BlockCreate(prev, length, time) EXCEPT !.info.difficulty = difficulty],
         MatchingNonces(Order[m], draft) # {}
  PROVE  ComesAfter(m, BlockMine(Order[m], draft), prev)
<1> DEFINE M == MatchingNonces(Order[m], draft)
           nonce == Min(M)
           found == [draft EXCEPT !.info.nonce = nonce]
           block == [info |-> found.info, data |-> found.data, hash |-> BlockHash(Order[m], found)]
<1>1. nonce \in M
  BY LeastMatch
<1>2. HashMatchesDifficulty(BlockHash(Order[m], found), draft.info.difficulty)
  BY <1>1 DEF MatchingNonces
<1> HIDE DEF nonce, M
<1>3. /\ draft.info = [index |-> (prev.info.index + 1) % UINT32, difficulty |-> difficulty,
                       nonce |-> 0, timestamp |-> time, prev_hash |-> prev.hash]
      /\ draft.data \in 0..BLOCKCHAIN_DATA_MAX
      /\ draft = [info |-> draft.info, data |-> draft.data]
  BY ExchangeAssumption DEF BlockCreate
<1>4. /\ found.info = [index |-> (prev.info.index + 1) % UINT32, difficulty |-> difficulty,
                       nonce |-> nonce, timestamp |-> time, prev_hash |-> prev.hash]
      /\ found.data = draft.data
  BY <1>3
<1>5. BlockMine(Order[m], draft) = block
  BY DEF BlockMine, nonce, M
<1> HIDE DEF found
<1>6. block.info = found.info /\ block.data = found.data /\ block.hash = BlockHash(Order[m], found)
  OBVIOUS
<1>7. BlockHash(Order[m], block) = block.hash
  BY <1>6 DEF BlockHash
<1> QED BY <1>2, <1>3, <1>4, <1>5, <1>6, <1>7 DEF ComesAfter

-----------------------------------------------------------------------------
(* The inductive invariant: every machine has a chain that programs of its  *)
(* version and byte order make, and the file is one such programs wrote.    *)
ExchangeInv ==
    /\ chain = [m \in Machines |-> chain[m]]
    /\ \A m \in Machines : IsChain(Version[m], Order[m], chain[m])
    /\ IsFile(file)

(* A step that changes the chain of one machine and no file. *)
LEMMA ChainKept ==
  ASSUME ExchangeInv, NEW m \in Machines, NEW c, IsChain(Version[m], Order[m], c),
         chain' = [chain EXCEPT ![m] = c], file' = file
  PROVE  ExchangeInv'
<1>1. chain' = [w \in Machines |-> chain'[w]] /\ \A w \in Machines : chain'[w] = IF w = m THEN c ELSE chain[w]
  BY DEF ExchangeInv
<1>2. \A w \in Machines : IsChain(Version[w], Order[w], chain'[w])
  BY <1>1 DEF ExchangeInv
<1> QED BY <1>1, <1>2 DEF ExchangeInv

(* The invariant is inductive: one step per function of the library. *)
LEMMA ExchangeStep ==
  ASSUME MaxBlocks < BYTE * BYTE, ExchangeInv, [Next]_vars
  PROVE  ExchangeInv'
<1>1. ASSUME NEW m \in Machines, BlockchainCreate(m) PROVE ExchangeInv'
  <2>1. IsChain(Version[m], Order[m], List(<<GenesisBlock>>))
    BY GenesisChain
  <2> QED BY <1>1, <2>1, ChainKept DEF BlockchainCreate
<1>2. ASSUME NEW m \in Machines, NEW block, Extensible(m), ComesAfter(m, block, Last(m)),
             chain' = [chain EXCEPT ![m].blocks = Append(@, block)], file' = file
      PROVE  ExchangeInv'
  <2> DEFINE c == chain[m]
             d == [c EXCEPT !.blocks = Append(@, block)]
  <2>1. IsChain(Version[m], Order[m], c) /\ c.status = "list"
    BY <1>2 DEF ExchangeInv, Extensible
  <2>2. Len(c.blocks) + 1 < BYTE * BYTE
    <3> DEFINE W == BYTE * BYTE
    <3>1. MaxBlocks \in Nat
      BY ExchangeAssumption
    <3>2. W \in Nat /\ MaxBlocks < W
      BY Words
    <3>3. Len(c.blocks) \in 1..(MaxBlocks - 1)
      BY <1>2 DEF Extensible
    <3> HIDE DEF W, c
    <3>4. Len(c.blocks) + 1 < W
      BY <3>1, <3>2, <3>3
    <3> QED BY <3>4 DEF W
  <2>3. ComesAfter(m, block, c.blocks[Len(c.blocks)])
    BY <1>2 DEF Last
  <2>4. chain' = [chain EXCEPT ![m] = d]
    BY <1>2
  <2> HIDE DEF c
  <2>5. IsChain(Version[m], Order[m], d)
    BY <2>1, <2>2, <2>3, ChainExtended
  <2> HIDE DEF d
  <2> QED BY <1>2, <2>4, <2>5, ChainKept
<1>3. ASSUME NEW m \in Machines, NEW length \in Lengths, NEW time \in Times, AddBlock(m, length, time)
      PROVE  ExchangeInv'
  <2> DEFINE draft == BlockCreate(Last(m), length, time)
             block == [info |-> draft.info, data |-> draft.data, hash |-> BlockHash(Order[m], draft)]
  <2>1. /\ Extensible(m) /\ Version[m] = "0.1" /\ file' = file
        /\ chain' = [chain EXCEPT ![m].blocks = Append(@, block)]
    BY <1>3 DEF AddBlock
  <2>2. ComesAfter(m, block, Last(m))
    BY <2>1, CreatedFollows
  <2> HIDE DEF block
  <2> QED BY <1>2, <2>1, <2>2
<1>4. ASSUME NEW m \in Machines, NEW length \in Lengths, NEW time \in Times, MineBlock(m, length, time)
      PROVE  ExchangeInv'
  <2> DEFINE draft == Draft(m, length, time)
             block == BlockMine(Order[m], draft)
  <2>1. /\ Extensible(m) /\ MatchingNonces(Order[m], draft) # {} /\ file' = file
        /\ chain' = [chain EXCEPT ![m].blocks = Append(@, block)]
    BY <1>4 DEF MineBlock, CanMine
  <2>2. draft = [BlockCreate(Last(m), length, time)
                    EXCEPT !.info.difficulty = BlockchainDifficulty(chain[m].blocks)]
    BY DEF Draft
  <2> HIDE DEF draft
  <2>3. ComesAfter(m, block, Last(m))
    BY <2>1, <2>2, MinedFollows
  <2> HIDE DEF block
  <2> QED BY <1>2, <2>1, <2>3
<1>5. ASSUME NEW m \in Machines, BlockchainSerialize(m) PROVE ExchangeInv'
  <2> DEFINE c == chain[m]
             I == WholeItems(m, c)
  <2>1. /\ c.status # "null" /\ chain' = chain
        /\ file' = [order |-> file'.order, items |-> file'.items]
        /\ file'.order = Order[m] /\ file'.items \in {I} \cup Cuts(I)
    BY <1>5 DEF BlockchainSerialize
  <2>2. IsChain(Version[m], Order[m], c)
    BY DEF ExchangeInv
  <2>3. I = Items(Version[m], Order[m], c)
    BY DEF WholeItems, Items
  <2> HIDE DEF c, I
  <2>4. IsSequence(I) /\ Len(I) \in Nat
    <3>1. IsSequence(I)
      BY <2>2, <2>3, ItemsAt
    <3> QED BY <3>1 DEF IsSequence
  <2>5. I = SubSeq(I, 1, Len(I)) /\ Len(I) \in 0..Len(I)
    BY <2>4 DEF IsSequence
  <2>6. I \in Cuts(I)
    BY <2>5 DEF Cuts
  <2>7. Keeps(Version[m], file', c)
    BY <2>1, <2>2, <2>3, <2>6 DEF Keeps
  <2>8. Order[m] \in {"little", "big"}
    BY ExchangeAssumption
  <2>9. IsFile(file')
    BY <2>1, <2>7, <2>8 DEF IsFile
  <2> QED BY <2>1, <2>9 DEF ExchangeInv
<1>6. ASSUME NEW m \in Machines, BlockchainDeserialize(m) PROVE ExchangeInv'
  <2>1. IsChain(Version[m], Order[m], Deserialize(m, file))
    BY LoadsWhole DEF ExchangeInv
  <2> HIDE DEF Deserialize
  <2> QED BY <1>6, <2>1, ChainKept DEF BlockchainDeserialize
<1>7. CASE UNCHANGED vars
  BY <1>7 DEF vars, ExchangeInv
<1> QED BY <1>1, <1>3, <1>4, <1>5, <1>6, <1>7 DEF Next

(* The invariant holds in every state. *)
LEMMA ExchangeInvariant ==
  ASSUME FilesWritten, MaxBlocks < BYTE * BYTE
  PROVE  Spec => []ExchangeInv
<1>1. Init => ExchangeInv
  <2> SUFFICES ASSUME Init PROVE ExchangeInv
    OBVIOUS
  <2>1. \A m \in Machines : chain[m] = NULL
    BY DEF Init
  <2>2. \A m \in Machines : IsChain(Version[m], Order[m], chain[m])
    BY <2>1, NoChain
  <2> QED BY <2>2 DEF Init, ExchangeInv, FilesWritten
<1>2. ExchangeInv /\ [Next]_vars => ExchangeInv'
  BY ExchangeStep
<1> QED BY <1>1, <1>2, PTL DEF Spec

(* The status, the indices and lengths of every block in memory are         *)
(* uint32_t, whatever machines exchanged the file (block_create,            *)
(* blockchain_deserialize).                                                 *)
THEOREM ExchangeTypeCorrect ==
  ASSUME FilesWritten, MaxBlocks < BYTE * BYTE
  PROVE  Spec => []TypeOK
<1>1. ExchangeInv => TypeOK
  <2> SUFFICES ASSUME ExchangeInv, NEW m \in Machines
      PROVE /\ chain[m].status \in {"null", "no_list", "list"}
            /\ chain[m].status = "list" <=> Len(chain[m].blocks) > 0
            /\ \A b \in 1..Len(chain[m].blocks) :
                   /\ chain[m].blocks[b].info.index \in 0..(UINT32 - 1)
                   /\ chain[m].blocks[b].data \in 0..(UINT32 - 1)
    BY DEF TypeOK, ExchangeInv, IsFile
  <2> DEFINE c == chain[m]
  <2>1. IsChain(Version[m], Order[m], c)
    BY DEF ExchangeInv
  <2> HIDE DEF c
  <2>2. ASSUME NEW b \in 1..Len(c.blocks)
        PROVE  c.blocks[b].info.index \in 0..(UINT32 - 1) /\ c.blocks[b].data \in 0..(UINT32 - 1)
    <3>1. IsBlock(c.blocks[b], b) /\ Len(c.blocks) \in Nat /\ Len(c.blocks) < BYTE * BYTE
      BY <2>1 DEF IsChain, IsSequence
    <3> QED BY <3>1, Words DEF IsBlock
  <2> QED BY <2>1, <2>2 DEF IsChain, c
<1> QED BY <1>1, ExchangeInvariant, PTL

(* Every chain that has blocks comes back unchanged from a file that was    *)
(* written whole (blockchain_serialize, blockchain_deserialize).            *)
THEOREM EveryChainComesBack ==
  ASSUME FilesWritten, MaxBlocks < BYTE * BYTE
  PROVE  Spec => []RoundTrip
<1>1. ExchangeInv => RoundTrip
  BY SavedIsLoaded DEF ExchangeInv, RoundTrip
<1> QED BY <1>1, ExchangeInvariant, PTL

(* A load that gives a list gives all that one program wrote, of the same   *)
(* version and byte order; the disk may have been full and the file may be  *)
(* of the other order, whose number of blocks is read larger than it is.    *)
THEOREM OnlyWholeChainsLoaded ==
  ASSUME FilesWritten, MaxBlocks < BYTE * BYTE
  PROVE  Spec => LoadedIsWhole
<1>1. ExchangeInv /\ [Next]_vars =>
        [\A m \in Machines :
          BlockchainDeserialize(m) /\ chain'[m].status = "list" =>
              file = [order |-> Order[m], items |-> WholeItems(m, chain'[m])]]_vars
  <2> SUFFICES ASSUME ExchangeInv, NEW m \in Machines, BlockchainDeserialize(m), chain'[m].status = "list"
               PROVE  file = [order |-> Order[m], items |-> WholeItems(m, chain'[m])]
    OBVIOUS
  <2>1. chain'[m] = Deserialize(m, file)
    BY DEF BlockchainDeserialize, ExchangeInv
  <2> QED BY <2>1, LoadsWhole DEF ExchangeInv
<1> QED BY <1>1, ExchangeInvariant, PTL DEF Spec, LoadedIsWhole

(* block_is_valid accepts every block a little-endian machine has, also     *)
(* when other machines made it and it passed through files.                 *)
THEOREM ChainsStayValid ==
  ASSUME FilesWritten, MaxBlocks < BYTE * BYTE
  PROVE  Spec => []ChainsValid
<1>1. ExchangeInv => ChainsValid
  BY DEF ExchangeInv, ChainsValid, IsChain, Accepted
<1> QED BY <1>1, ExchangeInvariant, PTL

(* The block version 0.2 mines is valid, whatever the difficulty its chain  *)
(* was given (block_mine, block_is_valid).                                  *)
THEOREM MinedStaysValid ==
  ASSUME FilesWritten, MaxBlocks < BYTE * BYTE
  PROVE  Spec => []MinedIsValid
<1>1. ExchangeInv => MinedIsValid
  <2> SUFFICES ASSUME ExchangeInv, NEW m \in Machines, NEW length \in Lengths, NEW time \in Times,
                      Order[m] = "little", CanMine(m, length, time)
               PROVE  BlockIsValid(m, BlockMine(Order[m], Draft(m, length, time)), Last(m))
    BY DEF MinedIsValid
  <2> DEFINE draft == Draft(m, length, time)
             block == BlockMine(Order[m], draft)
             c == chain[m]
  <2>1. draft = [BlockCreate(Last(m), length, time)
                    EXCEPT !.info.difficulty = BlockchainDifficulty(chain[m].blocks)]
    BY DEF Draft
  <2>2. MatchingNonces(Order[m], draft) # {} /\ c.status = "list"
    BY DEF CanMine, Extensible
  <2> HIDE DEF draft
  <2>3. ComesAfter(m, block, Last(m))
    BY <2>1, <2>2, MinedFollows
  <2> HIDE DEF block
  <2>4. IsChain(Version[m], Order[m], c) /\ Last(m) = c.blocks[Len(c.blocks)]
    BY DEF ExchangeInv, Last
  <2>5. BlockIsValid(m, block, c.blocks[Len(c.blocks)])
    BY <2>2, <2>3, <2>4, FollowerValid
  <2> QED BY <2>4, <2>5 DEF block, draft
<1> QED BY <1>1, ExchangeInvariant, PTL

=============================================================================
