---------------------------- MODULE XfsReadProofs ----------------------------
(* Proofs about XfsRead, for every block size, extent list, leaf size and   *)
(* request, every content of freed memory, and devices that fail: of the    *)
(* buffer and the list for every number of threads, corrupt leaves          *)
(* included; of the answers for one thread and a sound btree.               *)
EXTENDS XfsRead, SequenceTheorems, FiniteSetTheorems, TLAPS

(* A thread that works on a request reads inside the file. *)
Requested(t) ==
  /\ offset[t] \in Nat /\ len[t] \in Nat
  /\ pc[t] \notin {"idle", "returned"} =>
       /\ offset[t] + len[t] <= Size /\ len[t] > 0
       /\ \E n \in Nat : DOMAIN buffer[t] = 0 .. n - 1 /\ len[t] <= n

(* copy_extent_to_buffer: the place in the buffer belongs to the block, and *)
(* every block up to the last overlaps the request.                         *)
At(cell, block) == (cell.br_startoff + block) * BlockSize
InBuffer(a, o) == IF a >= o THEN a - o ELSE 0
Placed(c, o, n) ==
  /\ c.end <= c.rec.br_blockcount
  /\ \A k \in Nat : k < c.end => At(c.rec, k) < o + n
  /\ c.block < c.end =>
       /\ At(c.rec, c.block) + BlockSize > o
       /\ c.ptr = InBuffer(At(c.rec, c.block), o)
Copying(t) ==
  pc[t] = "copy" => extent[t] <= nextents /\ Placed(copying[t], offset[t], len[t])

(* A list that is not empty has a record for each extent. *)
Listing == if_extents = <<>> \/ Len(if_extents) = nextents

(* A pointer into the list points to one of its records. *)
Pointing(t) ==
  /\ pc[t] \in {"words", "l0", "l1"} => ep[t] # "none" /\ extent[t] <= nextents
  /\ ep[t] = "current" => memory = "ok" /\ if_extents # <<>>

Pieces == [rec : Cells, block : Nat, end : Int, ptr : Int]
Types ==
  /\ if_extents \in Seq(Cells) /\ loaded \in BOOLEAN
  /\ memory \in {"ok", "freed", "raced"}
  /\ pc \in [Threads -> Labels]
  /\ offset \in [Threads -> Nat] /\ len \in [Threads -> Nat]
  /\ buffer = [t \in Threads |-> buffer[t]]
  /\ i \in [Threads -> 0 .. nextents] /\ room \in [Threads -> Nat]
  /\ extent \in [Threads -> 1 .. nextents + 1]
  /\ ep \in [Threads -> {"none", "current", "leaked", "freed"}]
  /\ rec \in [Threads -> Cells]
  /\ copying \in [Threads -> Pieces]

Putting(t) == pc[t] \in {"put0", "put1"} => i[t] < nextents

(* Unless they raced, one load runs at a time, and what it frees it clears. *)
OneLoad ==
  memory # "raced" =>
    /\ \A t, u \in Threads : Loading(t) /\ Loading(u) => t = u
    /\ \A t \in Threads : pc[t] = "clear" => memory = "freed"

IInv ==
  /\ Types /\ Listing /\ OneLoad
  /\ \A t \in Threads : Requested(t) /\ Copying(t) /\ Pointing(t) /\ Putting(t)

-----------------------------------------------------------------------------
(* Arithmetic of blocks *)

LEMMA Sizes == BlockSize \in Nat /\ BlockSize > 0 /\ Size \in Nat
BY ReadAssumption

(* XFS_FSB_TO_B; a name keeps the products away from the provers. *)
Bytes(a) == a * BlockSize

LEMMA Times ==
  ASSUME NEW a \in Int
  PROVE  Bytes(a) \in Int /\ (a >= 0 => Bytes(a) >= 0)
BY Sizes DEF Bytes

LEMMA Distributes ==
  ASSUME NEW a \in Int, NEW b \in Int, NEW sum \in Int, sum = a + b
  PROVE  Bytes(sum) = Bytes(a) + Bytes(b)
BY Sizes DEF Bytes

LEMMA NextBlock ==
  ASSUME NEW a \in Int
  PROVE  Bytes(a + 1) = Bytes(a) + BlockSize
BY Sizes DEF Bytes

LEMMA Monotone ==
  ASSUME NEW a \in Int, NEW b \in Int, a <= b
  PROVE  Bytes(a) <= Bytes(b)
<1>1. b - a \in Int /\ b - a >= 0 /\ a + (b - a) = b
  OBVIOUS
<1>2. Bytes(a + (b - a)) = Bytes(a) + Bytes(b - a)
  BY <1>1, Distributes
<1>3. Bytes(a) \in Int /\ Bytes(b - a) \in Int /\ Bytes(b - a) >= 0
  BY <1>1, Times
<1> QED  BY <1>1, <1>2, <1>3

LEMMA Division ==
  ASSUME NEW x \in Int, NEW k \in Int
  PROVE  /\ k <= x \div BlockSize <=> Bytes(k) <= x
         /\ (x \div BlockSize) \in Int
         /\ Bytes(x \div BlockSize) <= x
         /\ x < Bytes(x \div BlockSize) + BlockSize
<1> DEFINE q == x \div BlockSize
           r1 == x % BlockSize
<1>1. BlockSize \in Nat /\ BlockSize > 0
  BY Sizes
<1>2. q \in Int /\ r1 \in 0 .. BlockSize - 1 /\ x = BlockSize * q + r1
  BY <1>1
<1>3. Bytes(q) \in Int /\ Bytes(q) = BlockSize * q
  BY <1>1, <1>2 DEF Bytes
<1> HIDE DEF q, r1
<1>4. Bytes(q) <= x /\ x < Bytes(q) + BlockSize
  BY <1>1, <1>2, <1>3
<1>5. k <= q => Bytes(k) <= Bytes(q)
  BY <1>2, Monotone
<1>6. k > q => Bytes(q) + BlockSize <= Bytes(k)
  <2> SUFFICES ASSUME k > q  PROVE Bytes(q + 1) <= Bytes(k)
    BY <1>2, NextBlock
  <2>1. q + 1 <= k /\ q + 1 \in Int
    BY <1>2
  <2> QED  BY <2>1, Monotone
<1>7. k <= q <=> Bytes(k) <= x
  BY <1>1, <1>2, <1>3, <1>4, <1>5, <1>6, Times
<1> QED  BY <1>2, <1>4, <1>7 DEF q

LEMMA Extents ==
  /\ nextents \in Nat
  /\ \A cell \in Items : /\ cell.br_startoff \in Nat /\ cell.br_startblock \in Nat \ {0}
                         /\ cell.br_blockcount \in Nat \ {0}
  /\ \A n \in 1 .. nextents : Records[n] \in Items
  /\ Items \subseteq Cells /\ Blank \in Cells
<1>1. nextents \in Nat /\ DOMAIN Records = 1 .. nextents
  BY ReadAssumption DEF nextents
<1>2. \A n \in 1 .. nextents : Records[n] \in [br_startoff : Nat, br_startblock : Nat \ {0},
                                                br_blockcount : Nat \ {0}]
  <2> DEFINE R == [br_startoff : Nat, br_startblock : Nat \ {0}, br_blockcount : Nat \ {0}]
  <2>1. Records \in Seq(R)
    BY ReadAssumption
  <2> HIDE DEF R
  <2>2. \A n \in 1 .. nextents : Records[n] \in R
    BY <2>1, ElementOfSeq DEF nextents
  <2> QED  BY <2>2 DEF R
<1>3. \A n \in 1 .. nextents : Records[n] \in Items
  BY <1>1 DEF Items
<1>4. \A cell \in Items : \E n \in 1 .. nextents : cell = Records[n]
  BY <1>1 DEF Items
<1>5. \A cell \in Items : /\ cell.br_startoff \in Nat /\ cell.br_startblock \in Nat \ {0}
                          /\ cell.br_blockcount \in Nat \ {0}
  BY <1>2, <1>4
<1>6. Items \subseteq Cells
  BY <1>2, <1>4 DEF Cells
<1>7. Blank \in Cells
  BY DEF Blank, Cells
<1> QED  BY <1>1, <1>3, <1>5, <1>6, <1>7

LEMMA CellFields ==
  ASSUME NEW cell \in Cells
  PROVE  /\ cell.br_startoff \in Nat /\ cell.br_startblock \in Nat
         /\ cell.br_blockcount \in Nat
BY DEF Cells

LEMMA Words ==
  ASSUME NEW cell \in Cells, NEW word \in Cells
  PROVE  WithL0(cell, word) \in Cells /\ WithL1(cell, word) \in Cells
BY DEF Cells, WithL0, WithL1

(* No two extents hold the same byte of the file. *)
LEMMA OneHolder ==
  ASSUME NEW a \in Items, NEW b \in Items, NEW p \in Nat, Holds(a, p), Holds(b, p)
  PROVE  a = b
<1>1. PICK m \in DOMAIN Records : a = Records[m]
  BY DEF Items
<1>2. PICK n \in DOMAIN Records : b = Records[n]
  BY DEF Items
<1>3. ASSUME NEW c \in Items, NEW d \in Items, c.br_startoff + c.br_blockcount <= d.br_startoff
      PROVE  ~(Holds(c, p) /\ Holds(d, p))
  <2>1. c.br_startoff + c.br_blockcount \in Int /\ d.br_startoff \in Int
    BY Extents
  <2>2. Bytes(c.br_startoff + c.br_blockcount) <= Bytes(d.br_startoff)
    BY <1>3, <2>1, Monotone
  <2>3. Bytes(c.br_startoff + c.br_blockcount) \in Int /\ Bytes(d.br_startoff) \in Int
    BY <2>1, Times
  <2>4. Holds(c, p) => p < Bytes(c.br_startoff + c.br_blockcount)
    BY DEF Holds, Bytes
  <2>5. Holds(d, p) => Bytes(d.br_startoff) <= p
    BY DEF Holds, Bytes
  <2> QED  BY <2>2, <2>3, <2>4, <2>5
<1>4. m \in Int /\ n \in Int /\ ~(m < n) /\ ~(n < m)
  BY <1>1, <1>2, <1>3, ReadAssumption
<1> QED  BY <1>1, <1>2, <1>4

LEMMA ByteOf ==
  ASSUME Unwritten = {}, NEW cell \in Items, NEW p \in Nat, Holds(cell, p), p < Size
  PROVE  FileByte(p) = cell.br_startblock * BlockSize + (p - cell.br_startoff * BlockSize)
<1>1. OnDisk = Items
  BY DEF OnDisk, Items
<1>2. Mapped(p)
  BY <1>1 DEF Mapped
<1>3. (CHOOSE r1 \in OnDisk : Holds(r1, p)) = cell
  BY <1>1, OneHolder
<1> QED  BY <1>2, <1>3 DEF FileByte

(* One block, of whatever record: it stays in the buffer. *)
LEMMA PieceInside ==
  ASSUME NEW c \in Pieces, NEW o \in Nat, NEW n \in Nat, o + n <= Size, n > 0,
         Placed(c, o, n), c.block < c.end
  PROVE  LET piece == Piece(c, o, n) IN
         /\ piece.copylen \in Nat \ {0} /\ c.ptr \in Nat /\ c.ptr + piece.copylen <= n
         /\ piece.src \in Nat /\ piece.src + piece.copylen <= BlockSize
         /\ o + c.ptr = At(c.rec, c.block) + piece.src
         /\ At(c.rec, c.block) \in Nat
         /\ At(c.rec, c.block) = Bytes(c.rec.br_startoff) + Bytes(c.block)
         /\ Bytes(c.rec.br_startoff + (c.block + 1)) = At(c.rec, c.block) + BlockSize
         /\ Placed([c EXCEPT !.block = @ + 1, !.ptr = @ + piece.copylen], o, n)
<1> DEFINE piece == Piece(c, o, n)
           bs == At(c.rec, c.block)
<1>1. BlockSize \in Nat /\ BlockSize > 0 /\ Size \in Nat
  BY Sizes
<1>2. /\ c.block \in Nat /\ c.end \in Int /\ c.end <= c.rec.br_blockcount
      /\ c.rec \in Cells
  BY DEF Pieces, Placed
<1>4. /\ c.rec.br_startoff \in Nat /\ c.rec.br_startblock \in Nat
      /\ c.rec.br_blockcount \in Nat
  BY <1>2, CellFields
<1>5. /\ bs = Bytes(c.rec.br_startoff + c.block) /\ bs \in Nat
      /\ bs = Bytes(c.rec.br_startoff) + Bytes(c.block)
      /\ At(c.rec, c.block + 1) = bs + BlockSize
      /\ Bytes(c.rec.br_startoff + (c.block + 1)) = bs + BlockSize
  <2>1. bs = Bytes(c.rec.br_startoff + c.block)
        /\ At(c.rec, c.block + 1) = Bytes(c.rec.br_startoff + (c.block + 1))
    BY DEF At, Bytes
  <2>2. /\ c.rec.br_startoff + c.block \in Int /\ c.rec.br_startoff + c.block >= 0
        /\ c.rec.br_startoff + (c.block + 1) = (c.rec.br_startoff + c.block) + 1
    BY <1>2, <1>4
  <2>3. Bytes((c.rec.br_startoff + c.block) + 1) = Bytes(c.rec.br_startoff + c.block) + BlockSize
    BY <2>2, NextBlock
  <2>4. Bytes(c.rec.br_startoff + c.block) = Bytes(c.rec.br_startoff) + Bytes(c.block)
    <3>1. c.rec.br_startoff \in Int /\ c.block \in Int
          /\ c.rec.br_startoff + c.block \in Int
      BY <1>2, <1>4
    <3> QED  BY <3>1, Distributes, Zenon
  <2> HIDE DEF bs
  <2> QED  BY <2>1, <2>2, <2>3, <2>4, Times
<1>6. bs < o + n /\ bs + BlockSize > o /\ c.ptr = IF bs >= o THEN bs - o ELSE 0
  BY <1>2 DEF Placed, InBuffer, bs
<1>7. /\ piece.src = IF bs < o THEN o - bs ELSE 0
      /\ piece.copylen = IF bs + BlockSize > o + n THEN o + n - (bs + piece.src)
                         ELSE BlockSize - piece.src
  BY DEF Piece, At
<1> HIDE DEF piece, bs
<1>8. piece.copylen \in Nat \ {0} /\ c.ptr \in Nat /\ c.ptr + piece.copylen <= n
      /\ piece.src \in Nat /\ piece.src + piece.copylen <= BlockSize
      /\ o + c.ptr = bs + piece.src
      /\ (bs + BlockSize <= o + n => o + c.ptr + piece.copylen = bs + BlockSize)
  <2>1. bs \in Nat
    BY <1>5
  <2>2. piece.src = (IF bs < o THEN o - bs ELSE 0) /\ piece.src \in Nat
    BY <1>7, <2>1
  <2>3. CASE bs + BlockSize > o + n
    <3>1. piece.copylen = o + n - (bs + piece.src)
      BY <1>7, <2>3
    <3> QED  BY <1>1, <1>6, <2>1, <2>2, <2>3, <3>1
  <2>4. CASE ~(bs + BlockSize > o + n)
    <3>1. piece.copylen = BlockSize - piece.src
      BY <1>7, <2>4
    <3> QED  BY <1>1, <1>6, <2>1, <2>2, <2>4, <3>1
  <2> QED  BY <2>3, <2>4
<1>10. Placed([c EXCEPT !.block = @ + 1, !.ptr = @ + piece.copylen], o, n)
  <2> DEFINE d == [c EXCEPT !.block = @ + 1, !.ptr = @ + piece.copylen]
  <2>1. /\ d.rec = c.rec /\ d.block = c.block + 1 /\ d.end = c.end
        /\ d.ptr = c.ptr + piece.copylen
    BY DEF Pieces
  <2> HIDE DEF d
  <2>2. c.block + 1 < c.end => bs + BlockSize < o + n
    BY <1>2, <1>5 DEF Placed
  <2>3. c.block + 1 < c.end =>
          /\ bs + BlockSize + BlockSize > o
          /\ c.ptr + piece.copylen = InBuffer(bs + BlockSize, o)
    BY <1>1, <1>5, <1>6, <1>8, <2>2 DEF InBuffer
  <2>4. /\ d.end <= d.rec.br_blockcount /\ \A k \in Nat : k < d.end => At(d.rec, k) < o + n
    BY <2>1 DEF Placed
  <2>5. d.block < d.end =>
          /\ At(d.rec, d.block) + BlockSize > o
          /\ d.ptr = InBuffer(At(d.rec, d.block), o)
    <3>1. At(d.rec, d.block) = bs + BlockSize
      BY <1>5, <2>1, Zenon
    <3> QED  BY <2>1, <2>3, <3>1, Zenon
  <2>6. Placed(d, o, n)
    BY <2>4, <2>5 DEF Placed
  <2> QED  BY <2>6 DEF d
<1> QED  BY <1>5, <1>8, <1>10 DEF piece, bs

(* What is copied of a block of an extent of the file is the file's. *)
LEMMA PieceRight ==
  ASSUME Unwritten = {}, NEW c \in Pieces, c.rec \in Items,
         NEW o \in Nat, NEW n \in Nat, o + n <= Size, n > 0,
         Placed(c, o, n), c.block < c.end,
         NEW p \in c.ptr .. c.ptr + Piece(c, o, n).copylen - 1
  PROVE  /\ Holds(c.rec, o + p)
         /\ (c.rec.br_startblock + c.block) * BlockSize + Piece(c, o, n).src + (p - c.ptr)
              = FileByte(o + p)
<1> DEFINE piece == Piece(c, o, n)
           bs == At(c.rec, c.block)
<1>1. BlockSize \in Nat /\ BlockSize > 0 /\ Size \in Nat
  BY Sizes
<1>2. c.block \in Nat /\ c.end \in Int /\ c.end <= c.rec.br_blockcount
  BY DEF Pieces, Placed
<1>3. /\ c.rec.br_startoff \in Nat /\ c.rec.br_startblock \in Nat
      /\ c.rec.br_blockcount \in Nat
  BY Extents
<1>4. /\ piece.copylen \in Nat \ {0} /\ c.ptr \in Nat /\ c.ptr + piece.copylen <= n
      /\ piece.src \in Nat /\ piece.src + piece.copylen <= BlockSize
      /\ o + c.ptr = bs + piece.src /\ bs \in Nat
      /\ bs = Bytes(c.rec.br_startoff) + Bytes(c.block)
      /\ Bytes(c.rec.br_startoff + (c.block + 1)) = bs + BlockSize
  BY PieceInside, Zenon
<1>5. p \in c.ptr .. c.ptr + piece.copylen - 1
  OBVIOUS
<1> HIDE DEF piece, bs
<1>6. /\ o + p \in Nat /\ bs <= o + p /\ o + p < bs + BlockSize /\ o + p < Size
      /\ p \in Int
  BY <1>1, <1>4, <1>5
<1>7. Holds(c.rec, o + p)
  <2>1. Bytes(c.rec.br_startoff) <= bs
    <3>1. Bytes(c.block) \in Int /\ Bytes(c.block) >= 0 /\ Bytes(c.rec.br_startoff) \in Int
      BY <1>2, <1>3, Times
    <3> QED  BY <1>4, <3>1
  <2>2. bs + BlockSize <= Bytes(c.rec.br_startoff + c.rec.br_blockcount)
    <3>1. c.rec.br_startoff + (c.block + 1) <= c.rec.br_startoff + c.rec.br_blockcount
          /\ c.rec.br_startoff + (c.block + 1) \in Int
          /\ c.rec.br_startoff + c.rec.br_blockcount \in Int
      BY <1>2, <1>3
    <3> QED  BY <1>4, <3>1, Monotone
  <2>3. Bytes(c.rec.br_startoff + c.rec.br_blockcount) \in Int
        /\ Bytes(c.rec.br_startoff) \in Int
    BY <1>3, Times
  <2>4. Bytes(c.rec.br_startoff) <= o + p
        /\ o + p < Bytes(c.rec.br_startoff + c.rec.br_blockcount)
    BY <1>1, <1>4, <1>6, <2>1, <2>2, <2>3
  <2> QED  BY <2>4 DEF Holds, Bytes
<1>8. /\ Bytes(c.rec.br_startblock) \in Int /\ Bytes(c.block) \in Int
      /\ Bytes(c.rec.br_startoff) \in Int
  BY <1>2, <1>3, Times
<1>9. FileByte(o + p) = Bytes(c.rec.br_startblock) + (o + p - Bytes(c.rec.br_startoff))
  <2>1. PICK at \in Nat : at = o + p
    BY <1>6
  <2>2. Holds(c.rec, at) /\ at < Size
    BY <1>6, <1>7, <2>1, Zenon
  <2>3. FileByte(at) = c.rec.br_startblock * BlockSize
                         + (at - c.rec.br_startoff * BlockSize)
    BY <2>2, ByteOf, Zenon
  <2>4. FileByte(o + p) = FileByte(at)
    BY <2>1, Zenon
  <2>5. FileByte(at) = Bytes(c.rec.br_startblock) + (at - Bytes(c.rec.br_startoff))
    BY <2>3, Zenon DEF Bytes
  <2> QED  BY <1>6, <1>8, <2>1, <2>4, <2>5
<1>10. (c.rec.br_startblock + c.block) * BlockSize = Bytes(c.rec.br_startblock) + Bytes(c.block)
  <2>1. /\ c.rec.br_startblock \in Int /\ c.block \in Int
        /\ c.rec.br_startblock + c.block \in Int
    BY <1>2, <1>3
  <2>2. Bytes(c.rec.br_startblock + c.block) = Bytes(c.rec.br_startblock) + Bytes(c.block)
    BY <2>1, Distributes, Zenon
  <2> QED  BY <2>2, Zenon DEF Bytes
<1>11. (c.rec.br_startblock + c.block) * BlockSize + piece.src + (p - c.ptr) = FileByte(o + p)
  BY <1>4, <1>6, <1>8, <1>9, <1>10
<1> QED  BY <1>7, <1>11 DEF piece

-----------------------------------------------------------------------------
(* The list of extents *)

(* One word of one record is written. *)
LEMMA PutTyped ==
  ASSUME NEW list \in Seq(Cells), NEW k \in 1 .. nextents,
         NEW new \in {[list EXCEPT ![k] = WithL0(@, Records[k])],
                      [list EXCEPT ![k] = WithL1(@, Records[k])]}
  PROVE  /\ new \in Seq(Cells) /\ Len(new) = Len(list)
         /\ \A n \in 1 .. Len(list) : n # k => new[n] = list[n]
<1>1. Records[k] \in Cells
  BY Extents
<1>2. ASSUME NEW n \in 1 .. Len(list)  PROVE new[n] \in Cells /\ (n # k => new[n] = list[n])
  <2>1. list[n] \in Cells
    BY ElementOfSeq
  <2>2. WithL0(list[n], Records[k]) \in Cells /\ WithL1(list[n], Records[k]) \in Cells
    BY <1>1, <2>1, Words
  <2> QED  BY <2>1, <2>2
<1>3. new = [n \in 1 .. Len(list) |-> new[n]] /\ Len(list) \in Nat
  OBVIOUS
<1> QED  BY <1>2, <1>3

LEMMA ListKept ==
  ASSUME Types, Listing, NEW t \in Threads, Putting(t), Step(t)
  PROVE  if_extents' \in Seq(Cells) /\ Listing'
<1>1. if_extents \in Seq(Cells) /\ nextents \in Nat
  BY Extents DEF Types
<1>2. CASE UNCHANGED if_extents
  BY <1>1, <1>2 DEF Listing
<1>3. CASE if_extents' = <<>>
  <2>1. <<>> \in Seq(Cells)
    BY EmptySeq
  <2> QED  BY <1>3, <2>1 DEF Listing
<1>4. CASE if_extents' = NewRecords
  <2>1. NewRecords \in Seq(Cells) /\ Len(NewRecords) = nextents
    BY <1>1, Extents DEF NewRecords
  <2> QED  BY <1>4, <2>1 DEF Listing
<1>5. CASE PutL0(t) \/ PutL1(t)
  <2>1. PICK k \in 1 .. nextents : k = i[t] + 1
    BY <1>1, <1>5 DEF Types, Putting, PutL0, PutL1
  <2>2. if_extents' \in {[if_extents EXCEPT ![k] = WithL0(@, Records[k])],
                         [if_extents EXCEPT ![k] = WithL1(@, Records[k])]}
    BY <1>5, <2>1 DEF PutL0, PutL1
  <2>3. if_extents' \in Seq(Cells) /\ Len(if_extents') = Len(if_extents)
    BY <1>1, <2>2, PutTyped
  <2>4. CASE if_extents = <<>>
    <3>1. Len(if_extents') = 0
      BY <2>3, <2>4
    <3>2. if_extents' = <<>>
      BY <2>3, <3>1, EmptySeq
    <3> QED  BY <2>3, <3>2 DEF Listing
  <2>5. CASE Len(if_extents) = nextents
    BY <2>3, <2>5 DEF Listing
  <2> QED  BY <2>4, <2>5 DEF Listing
<1> QED  BY <1>2, <1>3, <1>4, <1>5
         DEF Step, fork, Read, Reply, CheckFlag, Reset, LoadRaced, Add, Descend, Leaf, BadLeaf,
             Crash, Loaded, Free, Clear, Unflag, GetExt, BadPointer, FirstWord, SecondWord,
             CopyBlock, Copied, Finish

-----------------------------------------------------------------------------
(* The types *)

(* Where copying starts is a piece of the record that was looked at. *)
LEMMA StartTyped ==
  ASSUME NEW cell \in Cells, NEW o \in Nat, NEW n \in Nat
  PROVE  CopyStart(cell, o, n) \in Pieces
<1> DEFINE es == cell.br_startoff * BlockSize
           last == (o + n - es - 1) \div BlockSize + 1
<1>1. es \in Int /\ cell.br_blockcount \in Nat
  BY CellFields, Times DEF Bytes
<1> HIDE DEF es
<1>2. last \in Int
  <2>1. o + n - es - 1 \in Int
    BY <1>1
  <2> QED  BY <2>1, Division
<1>3. o >= es => ((o - es) \div BlockSize) \in Nat
  <2> SUFFICES ASSUME o >= es  PROVE ((o - es) \div BlockSize) \in Nat
    OBVIOUS
  <2>1. o - es \in Int /\ o - es >= 0 /\ Bytes(0) = 0
    BY <1>1, Sizes DEF Bytes
  <2>2. 0 <= (o - es) \div BlockSize /\ ((o - es) \div BlockSize) \in Int
    BY <2>1, Division
  <2> QED  BY <2>2
<1> HIDE DEF last
<1>4. /\ (IF o >= es THEN (o - es) \div BlockSize ELSE 0) \in Nat
      /\ (IF cell.br_blockcount < last THEN cell.br_blockcount ELSE last) \in Int
      /\ (IF o >= es THEN 0 ELSE es - o) \in Int
  BY <1>1, <1>2, <1>3
<1>5. CopyStart(cell, o, n) =
        [rec   |-> cell,
         block |-> IF o >= es THEN (o - es) \div BlockSize ELSE 0,
         end   |-> IF cell.br_blockcount < last THEN cell.br_blockcount ELSE last,
         ptr   |-> IF o >= es THEN 0 ELSE es - o]
  BY DEF CopyStart, es, last
<1> QED  BY <1>4, <1>5 DEF Pieces

(* A word that is fetched, whatever ep points to. *)
LEMMA FetchedTyped ==
  ASSUME IInv, NEW t \in Threads, pc[t] \in {"words", "l0", "l1"}, NEW word \in Fetched(t)
  PROVE  word \in Cells
<1>1. /\ Types /\ Listing /\ ep[t] \in {"current", "leaked", "freed"}
      /\ extent[t] \in 1 .. nextents /\ nextents \in Nat
  BY Extents DEF IInv, Types, Pointing
<1>2. CASE ep[t] = "current"
  <2>1. word = if_extents[extent[t]]
    BY <1>2 DEF Fetched
  <2>2. if_extents # <<>>
    BY <1>2 DEF IInv, Pointing
  <2>3. extent[t] \in 1 .. Len(if_extents)
    BY <1>1, <2>2 DEF Listing
  <2> QED  BY <1>1, <2>1, <2>3, ElementOfSeq DEF Types
<1>3. CASE ep[t] = "leaked"
  BY <1>1, <1>3, Extents DEF Fetched
<1>4. CASE ep[t] = "freed"
  BY <1>4, ReadAssumption DEF Fetched
<1> QED  BY <1>1, <1>2, <1>3, <1>4

LEMMA TypesKept ==
  ASSUME IInv, NEW t \in Threads, Step(t)
  PROVE  Types'
<1>1. Types /\ Listing
  BY DEF IInv
<1>2. if_extents' \in Seq(Cells)
  BY <1>1, ListKept DEF IInv
<1>3. loaded' \in BOOLEAN /\ memory' \in {"ok", "freed", "raced"}
  BY <1>1 DEF Types, Step, fork, Read, Reply, CheckFlag, Reset, LoadRaced, Add, Descend, Leaf,
              BadLeaf, PutL0, PutL1, Crash, Loaded, Free, Clear, Unflag, GetExt, BadPointer,
              FirstWord, SecondWord, CopyBlock, Copied, Finish
<1>4. pc' \in [Threads -> Labels]
  <2>1. pc' = pc \/ \E label \in Labels : pc' = [pc EXCEPT ![t] = label]
    BY DEF Labels, Step, Read, Reply, CheckFlag, Reset, LoadRaced, Add, Descend, Leaf, BadLeaf,
           PutL0, PutL1, Crash, Loaded, Free, Clear, Unflag, GetExt, BadPointer, FirstWord,
           SecondWord, CopyBlock, Copied, Finish, Return, Goto
  <2> QED  BY <1>1, <2>1 DEF Types
<1>5. ep' \in [Threads -> {"none", "current", "leaked", "freed"}]
  BY <1>1 DEF Types, NowPoint, fetch, Step, Read, Reply, CheckFlag, Reset, LoadRaced, Add,
              Descend, Leaf, BadLeaf, PutL0, PutL1, Crash, Loaded, Free, Clear, Unflag, GetExt,
              BadPointer, FirstWord, SecondWord, CopyBlock, Copied, Finish
<1>6. rec' \in [Threads -> Cells]
  <2>1. CASE Reply(t) \/ SecondWord(t)
    BY <1>1, <2>1, Extents DEF Types, Reply, SecondWord
  <2>2. CASE FirstWord(t)
    <3>1. PICK word \in Fetched(t) : \/ rec' = [rec EXCEPT ![t] = WithL0(@, word)]
                                     \/ rec' = [rec EXCEPT ![t] = WithL1(@, word)]
      BY <2>2 DEF FirstWord
    <3>2. word \in Cells /\ rec[t] \in Cells
      BY <1>1, <2>2, <3>1, FetchedTyped DEF FirstWord, Types
    <3>3. WithL0(rec[t], word) \in Cells /\ WithL1(rec[t], word) \in Cells
      BY <3>2, Words
    <3> QED  BY <1>1, <3>1, <3>3 DEF Types
  <2>3. Reply(t) \/ SecondWord(t) \/ FirstWord(t) \/ rec' = rec
    BY DEF fetch, Step, Read, CheckFlag, Reset, LoadRaced, Add, Descend, Leaf, BadLeaf, PutL0,
           PutL1, Crash, Loaded, Free, Clear, Unflag, GetExt, BadPointer, CopyBlock, Copied,
           Finish
  <2> QED  BY <1>1, <2>1, <2>2, <2>3 DEF Types
<1> DEFINE Rest == /\ offset' \in [Threads -> Nat] /\ len' \in [Threads -> Nat]
                   /\ buffer' = [u \in Threads |-> buffer'[u]]
                   /\ i' \in [Threads -> 0 .. nextents] /\ room' \in [Threads -> Nat]
                   /\ extent' \in [Threads -> 1 .. nextents + 1]
                   /\ copying' \in [Threads -> Pieces]
<1>7. ASSUME Read(t)  PROVE Rest
  <2>1. offset' \in [Threads -> Nat] /\ len' \in [Threads -> Nat]
    <3>1. PICK request \in Requests :
            /\ offset' = [offset EXCEPT ![t] = request[1]]
            /\ \/ PastEnd(request[1]) /\ len' = len
               \/ /\ ~PastEnd(request[1])
                  /\ len' = [len EXCEPT ![t] = Truncated(request[1], request[2])]
      BY <1>7 DEF Read
    <3>2. request[1] \in Nat /\ request[2] \in Nat
      BY ReadAssumption
    <3>3. ~PastEnd(request[1]) => Truncated(request[1], request[2]) \in Nat
      BY <3>2, Sizes DEF PastEnd, Truncated
    <3> QED  BY <1>1, <3>1, <3>2, <3>3 DEF Types
  <2>2. buffer' = [u \in Threads |-> buffer'[u]]
    BY <1>1, <1>7 DEF Read, Types
  <2> QED  BY <1>1, <1>7, <2>1, <2>2 DEF Read, Types, load, fetch
<1>8. ASSUME Reply(t)  PROVE Rest
  <2>1. Nothing \in Pieces
    BY Extents DEF Nothing, Pieces
  <2>2. 1 \in 1 .. nextents + 1 /\ 0 \in 0 .. nextents
    BY Extents
  <2> QED  BY <1>1, <1>8, <2>1, <2>2 DEF Reply, Types
<1>9. ASSUME \/ CheckFlag(t) \/ Reset(t) \/ LoadRaced(t) \/ Add(t) \/ Leaf(t) \/ BadLeaf(t)
           \/ PutL0(t) \/ Loaded(t) \/ Free(t) \/ Clear(t) \/ Unflag(t) \/ GetExt(t)
           \/ BadPointer(t) \/ FirstWord(t) \/ Finish(t)  PROVE Rest
  <2>1. UNCHANGED <<offset, len, buffer, i, room, extent, copying>>
    BY <1>9 DEF CheckFlag, Reset, LoadRaced, Add, Leaf, BadLeaf, PutL0, Loaded, Free, Clear,
                Unflag, GetExt, BadPointer, FirstWord, Finish, Crash, call, load, fetch
  <2> QED  BY <1>1, <2>1 DEF Types
<1>10. ASSUME Descend(t)  PROVE Rest
  <2>1. Len(if_extents) \in Nat /\ 0 \in 0 .. nextents
    BY <1>1, LenProperties, Extents DEF Types
  <2>2. \/ i' = i /\ room' = room
        \/ i' = [i EXCEPT ![t] = 0] /\ room' = [room EXCEPT ![t] = Len(if_extents)]
    BY <1>10 DEF Descend, load
  <2> QED  BY <1>1, <1>10, <2>1, <2>2 DEF Descend, Types, call, fetch
<1>11. ASSUME PutL1(t)  PROVE Rest
  <2>1. i[t] + 1 \in 0 .. nextents
    BY <1>1, <1>11, Extents DEF IInv, Putting, PutL1, Types
  <2> QED  BY <1>1, <1>11, <2>1 DEF PutL1, Types, call, fetch
<1>12. ASSUME SecondWord(t)  PROVE Rest
  <2>1. PICK word \in Fetched(t) :
          LET cell == IF pc[t] = "l0" THEN WithL0(rec[t], word) ELSE WithL1(rec[t], word)
          IN \/ /\ copying' = [copying EXCEPT ![t] = CopyStart(cell, offset[t], len[t])]
                /\ UNCHANGED extent
             \/ extent' = [extent EXCEPT ![t] = @ + 1] /\ UNCHANGED copying
    BY <1>12 DEF SecondWord
  <2> DEFINE cell == IF pc[t] = "l0" THEN WithL0(rec[t], word) ELSE WithL1(rec[t], word)
  <2>2. word \in Cells /\ rec[t] \in Cells
    BY <1>1, <1>12, <2>1, FetchedTyped DEF SecondWord, Types
  <2>3. cell \in Cells
    BY <2>2, Words
  <2>4. \/ /\ copying' = [copying EXCEPT ![t] = CopyStart(cell, offset[t], len[t])]
           /\ UNCHANGED extent
        \/ extent' = [extent EXCEPT ![t] = @ + 1] /\ UNCHANGED copying
    BY <2>1
  <2> HIDE DEF cell
  <2>5. CopyStart(cell, offset[t], len[t]) \in Pieces
    BY <1>1, <2>3, StartTyped DEF Types
  <2>6. extent[t] + 1 \in 1 .. nextents + 1
    BY <1>1, <1>12, Extents DEF IInv, Pointing, SecondWord, Types
  <2>7. UNCHANGED <<offset, len, buffer, i, room>>
    BY <1>12 DEF SecondWord, call, load
  <2> QED  BY <1>1, <2>4, <2>5, <2>6, <2>7 DEF Types
<1>13. ASSUME CopyBlock(t)  PROVE Rest
  <2>1. buffer' = [u \in Threads |-> buffer'[u]]
    BY <1>1, <1>13 DEF CopyBlock, Types
  <2>2. copying' \in [Threads -> Pieces]
    <3> DEFINE piece == Piece(copying[t], offset[t], len[t])
               add == IF piece.copylen > 0 THEN piece.copylen ELSE 0
    <3>1. Placed(copying[t], offset[t], len[t]) /\ copying[t] \in Pieces
          /\ offset[t] \in Nat /\ len[t] \in Nat /\ len[t] > 0 /\ offset[t] + len[t] <= Size
          /\ copying[t].block < copying[t].end
      BY <1>1, <1>13 DEF IInv, Copying, Requested, CopyBlock, Types
    <3>2. piece.copylen \in Nat
      BY <3>1, PieceInside
    <3> HIDE DEF piece
    <3>3. add \in Nat
      BY <3>2
    <3> HIDE DEF add
    <3>4. copying[t].block + 1 \in Nat /\ copying[t].ptr + add \in Int
      BY <3>1, <3>3 DEF Pieces
    <3>5. [copying[t] EXCEPT !.block = @ + 1, !.ptr = @ + add] \in Pieces
      BY <3>1, <3>4 DEF Pieces
    <3>6. \/ copying' = [copying EXCEPT ![t] =
                           [copying[t] EXCEPT !.block = @ + 1, !.ptr = @ + add]]
          \/ copying' = copying
      BY <1>13 DEF CopyBlock, piece, add
    <3> QED  BY <1>1, <3>5, <3>6 DEF Types
  <2> QED  BY <1>1, <1>13, <2>1, <2>2 DEF CopyBlock, Types, load, fetch
<1>14. ASSUME Copied(t)  PROVE Rest
  <2>1. Nothing \in Pieces
    BY Extents DEF Nothing, Pieces
  <2>2. extent[t] + 1 \in 1 .. nextents + 1
    BY <1>1, <1>14, Extents DEF IInv, Copying, Copied, Types
  <2> QED  BY <1>1, <1>14, <2>1, <2>2 DEF Copied, Types, call, load
<1> HIDE DEF Rest
<1>15. Rest
  BY <1>7, <1>8, <1>9, <1>10, <1>11, <1>12, <1>13, <1>14 DEF Step
<1> QED  BY <1>2, <1>3, <1>4, <1>5, <1>6, <1>15 DEF Types, Rest

-----------------------------------------------------------------------------
(* Every thread stays inside its request *)

Sound(t) == Requested(t) /\ Copying(t) /\ Pointing(t) /\ Putting(t)

LEMMA OneLoadKept ==
  ASSUME IInv, NEW t \in Threads, Step(t)
  PROVE  OneLoad'
<1>1. Types /\ OneLoad
  BY DEF IInv
<1>2. \A u \in Threads \ {t} : pc'[u] = pc[u]
  BY <1>1 DEF Types, Step, Read, Reply, CheckFlag, Reset, LoadRaced, Add, Descend, Leaf, BadLeaf,
              PutL0, PutL1, Crash, Loaded, Free, Clear, Unflag, GetExt, BadPointer, FirstWord,
              SecondWord, CopyBlock, Copied, Finish, Return, Goto
<1>3. CASE Reset(t)
  <2> SUFFICES ASSUME memory' # "raced"  PROVE OneLoad'
    BY DEF OneLoad
  <2>1. pc'[t] = "add" /\ (\A u \in Threads : ~Loading(u)) /\ UNCHANGED memory
    BY <1>1, <1>3 DEF Reset, Goto, Types
  <2>2. \A u \in Threads : Loading(u)' => u = t
    BY <1>2, <2>1 DEF Loading
  <2>3. \A u \in Threads : pc'[u] # "clear"
    BY <1>2, <2>1 DEF Loading
  <2> QED  BY <2>2, <2>3 DEF OneLoad
<1>4. CASE Free(t)
  <2>1. memory # "raced" /\ pc[t] = "destroy" /\ memory' = "freed" /\ pc'[t] = "clear"
    BY <1>1, <1>4 DEF Free, Goto, Types
  <2>2. \A u \in Threads : Loading(u)' => Loading(u)
    BY <1>2, <2>1 DEF Loading
  <2> QED  BY <1>1, <2>1, <2>2 DEF OneLoad
<1>5. CASE Clear(t)
  <2>1. memory # "raced" /\ pc[t] = "clear" /\ pc'[t] = "unflag"
    BY <1>1, <1>5 DEF Clear, Goto, Types
  <2>2. \A u \in Threads : Loading(u)' => Loading(u)
    BY <1>2, <2>1 DEF Loading
  <2>3. \A u \in Threads : pc'[u] # "clear"
    <3> SUFFICES ASSUME NEW u \in Threads, pc'[u] = "clear"  PROVE FALSE
      OBVIOUS
    <3>1. u # t /\ pc[u] = "clear"
      BY <1>2, <2>1
    <3> QED  BY <1>1, <2>1, <3>1 DEF OneLoad, Loading
  <2> QED  BY <1>1, <2>1, <2>2, <2>3 DEF OneLoad
<1>6. CASE /\ UNCHANGED memory /\ (pc'[t] = "clear" => pc[t] = "clear")
           /\ (Loading(t)' => Loading(t))
  <2>1. \A u \in Threads : Loading(u)' => Loading(u)
    BY <1>2, <1>6 DEF Loading
  <2> QED  BY <1>1, <1>2, <1>6, <2>1 DEF OneLoad
<1>7. \/ Reset(t) \/ Free(t) \/ Clear(t)
      \/ /\ UNCHANGED memory /\ (pc'[t] = "clear" => pc[t] = "clear")
         /\ (Loading(t)' => Loading(t))
  <2>1. CASE Read(t) \/ Reply(t) \/ CheckFlag(t) \/ LoadRaced(t) \/ Add(t) \/ Descend(t)
             \/ Leaf(t) \/ BadLeaf(t)
    BY <1>1, <2>1 DEF Loading, Types, fork, Read, Reply, CheckFlag, LoadRaced, Add, Descend,
                      Leaf, BadLeaf, Crash, Return, Goto
  <2>2. CASE PutL0(t) \/ PutL1(t) \/ Loaded(t) \/ Unflag(t) \/ GetExt(t) \/ BadPointer(t)
    BY <1>1, <2>2 DEF Loading, Types, fork, PutL0, PutL1, Loaded, Unflag, GetExt, BadPointer,
                      Crash, Return, Goto
  <2>3. CASE FirstWord(t) \/ SecondWord(t) \/ CopyBlock(t) \/ Copied(t) \/ Finish(t)
    BY <1>1, <2>3 DEF Loading, Types, fork, FirstWord, SecondWord, CopyBlock, Copied, Finish,
                      Return, Goto
  <2> QED  BY <2>1, <2>2, <2>3 DEF Step
<1> QED  BY <1>3, <1>4, <1>5, <1>6, <1>7

(* A pointer points where it did, or no longer into the list. *)
LEMMA PointerKept ==
  ASSUME IInv, NEW t \in Threads, Step(t), NEW u \in Threads
  PROVE  /\ u # t => \/ ep'[u] = ep[u]
                     \/ ep[u] = "current" /\ ep'[u] \in {"leaked", "freed"}
         /\ ep'[u] = "current" => memory' = "ok" /\ if_extents' # <<>>
<1>1. /\ Types /\ Pointing(u) /\ Pointing(t) /\ Listing /\ OneLoad
  BY DEF IInv
<1>2. CASE Reset(t) \/ Free(t)
  <2>1. ep'[u] = (IF ep[u] = "current" THEN "leaked" ELSE ep[u])
        \/ ep'[u] = (IF ep[u] = "current" THEN "freed" ELSE ep[u])
    BY <1>1, <1>2 DEF Reset, Free, NowPoint, Types
  <2> QED  BY <1>1, <2>1 DEF Types
<1>3. CASE GetExt(t) \/ Reply(t) \/ SecondWord(t)
  <2>1. UNCHANGED <<memory, if_extents>>
    BY <1>3 DEF GetExt, Reply, SecondWord, Crash, fork
  <2>2. /\ ep'[u] = ep[u] \/ u = t
        /\ ep'[t] = "current" => memory = "ok" /\ if_extents # <<>>
    BY <1>1, <1>3 DEF GetExt, Reply, SecondWord, Crash, Types, Pointing, fetch
  <2> QED  BY <1>1, <2>1, <2>2 DEF Pointing
<1>4. CASE PutL0(t) \/ PutL1(t)
  <2>1. UNCHANGED <<memory, ep>>
    BY <1>4 DEF PutL0, PutL1, fetch
  <2>2. if_extents # <<>> => if_extents' # <<>>
    <3>1. DOMAIN if_extents' = DOMAIN if_extents
      BY <1>4 DEF PutL0, PutL1
    <3>2. Len(if_extents') = Len(if_extents)
      <4>1. if_extents \in Seq(Cells) /\ if_extents' \in Seq(Cells)
        BY <1>1, ListKept DEF IInv, Types
      <4> QED  BY <3>1, <4>1
    <3> QED  BY <1>1, <3>2, ListKept, EmptySeq DEF Types, IInv
  <2> QED  BY <1>1, <2>1, <2>2 DEF Pointing
<1>5. CASE Add(t) \/ Clear(t)
  <2>1. ep' = ep /\ memory' \in {memory, "ok"}
    BY <1>5 DEF Add, Clear, fetch
  <2>2. CASE Add(t)
    <3>1. if_extents' = NewRecords /\ UNCHANGED memory
      BY <2>2 DEF Add
    <3>2. if_extents # <<>> => nextents # 0
      BY <1>1, EmptySeq, LenProperties DEF Types, Listing
    <3>3. nextents # 0 => NewRecords # <<>>
      <4>1. Len(NewRecords) = nextents
        BY Extents DEF NewRecords
      <4> QED  BY <4>1
    <3> QED  BY <1>1, <2>1, <3>1, <3>2, <3>3 DEF Pointing
  <2>3. CASE Clear(t)
    BY <1>1, <2>1, <2>3 DEF Pointing, Clear, OneLoad
  <2> QED  BY <1>5, <2>2, <2>3
<1>6. CASE UNCHANGED <<memory, if_extents, ep>>
  BY <1>1, <1>6 DEF Pointing
<1> QED  BY <1>2, <1>3, <1>4, <1>5, <1>6
         DEF Step, fork, fetch, Read, CheckFlag, LoadRaced, Descend, Leaf, BadLeaf, Crash, Loaded,
             Unflag, BadPointer, FirstWord, CopyBlock, Copied, Finish

LEMMA OthersSound ==
  ASSUME IInv, NEW t \in Threads, Step(t), NEW u \in Threads \ {t}
  PROVE  Sound(u)'
<1>1. /\ offset'[u] = offset[u] /\ len'[u] = len[u] /\ pc'[u] = pc[u] /\ i'[u] = i[u]
      /\ buffer'[u] = buffer[u] /\ copying'[u] = copying[u] /\ extent'[u] = extent[u]
  BY DEF IInv, Types, Step, Read, Reply, CheckFlag, Reset, LoadRaced, Add, Descend, Leaf, BadLeaf,
         PutL0, PutL1, Crash, Loaded, Free, Clear, Unflag, GetExt, BadPointer, FirstWord,
         SecondWord, CopyBlock, Copied, Finish, Return, Goto, call, load, fetch
<1>2. Requested(u) /\ Copying(u) /\ Pointing(u) /\ Putting(u)
  BY DEF IInv
<1>3. Pointing(u)'
  BY <1>1, <1>2, PointerKept DEF Pointing
<1> QED  BY <1>1, <1>2, <1>3 DEF Sound, Requested, Copying, Putting

(* A step that only moves on keeps what holds of the request. *)
LEMMA MovesOn ==
  ASSUME IInv, NEW t \in Threads, UNCHANGED <<offset, len, buffer>>,
         pc[t] \notin {"idle", "returned"} \/ pc'[t] \in {"idle", "returned"},
         pc'[t] # "copy" \/ UNCHANGED <<pc, copying, extent>>
  PROVE  Requested(t)' /\ Copying(t)'
<1>1. Requested(t) /\ Copying(t)
  BY DEF IInv
<1>2. Requested(t)'
  BY <1>1 DEF Requested
<1>3. Copying(t)'
  BY <1>1 DEF Copying
<1> QED  BY <1>2, <1>3

LEMMA StartPlaced ==
  ASSUME NEW cell \in Cells, NEW o \in Nat, NEW n \in Nat, Overlaps(cell, o, n)
  PROVE  Placed(CopyStart(cell, o, n), o, n)
<1> DEFINE es == cell.br_startoff * BlockSize
           x == o + n - es - 1
           c == CopyStart(cell, o, n)
<1>1. es = Bytes(cell.br_startoff) /\ es \in Int /\ cell.br_startoff \in Nat
      /\ cell.br_blockcount \in Nat
  BY CellFields, Times DEF Bytes
<1>2. /\ c.rec = cell
      /\ c.block = IF o >= es THEN (o - es) \div BlockSize ELSE 0
      /\ c.end = IF cell.br_blockcount < x \div BlockSize + 1 THEN cell.br_blockcount
                 ELSE x \div BlockSize + 1
      /\ c.ptr = IF o >= es THEN 0 ELSE es - o
  BY DEF CopyStart
<1> HIDE DEF es, c
<1>3. x \in Int /\ (x \div BlockSize) \in Int
  <2>1. x \in Int
    BY <1>1
  <2> HIDE DEF x
  <2> QED  BY <2>1, Division
<1>4. ASSUME NEW k \in Nat  PROVE At(cell, k) = es + Bytes(k) /\ Bytes(k) \in Int
  <2>1. PICK sum \in Int : sum = cell.br_startoff + k
    BY <1>1
  <2>2. Bytes(sum) = Bytes(cell.br_startoff) + Bytes(k)
    <3>1. PICK a \in Int : a = cell.br_startoff
      BY <1>1
    <3>2. k \in Int /\ sum = a + k
      BY <2>1, <3>1
    <3>3. Bytes(sum) = Bytes(a) + Bytes(k)
      BY <3>2, Distributes
    <3> QED  BY <3>1, <3>3, Zenon
  <2>3. At(cell, k) = Bytes(sum)
    BY <2>1, Zenon DEF At, Bytes
  <2> QED  BY <1>1, <2>2, <2>3, Times
<1>5. c.end <= c.rec.br_blockcount /\ c.end <= x \div BlockSize + 1
  BY <1>1, <1>2, <1>3
<1>6. ASSUME NEW k \in Nat, k < c.end  PROVE At(c.rec, k) < o + n
  <2>1. k <= x \div BlockSize
    <3> HIDE DEF x
    <3> QED  BY <1>2, <1>3, <1>5, <1>6, <1>1
  <2>2. Bytes(k) <= x
    <3> HIDE DEF x
    <3> QED  BY <1>3, <2>1, Division
  <2>3. At(c.rec, k) = At(cell, k)
    BY <1>2, Zenon
  <2>4. At(cell, k) = es + Bytes(k) /\ Bytes(k) \in Int
    BY <1>4
  <2> QED  BY <1>1, <2>2, <2>3, <2>4
<1>7. /\ At(c.rec, c.block) + BlockSize > o
      /\ c.ptr = InBuffer(At(c.rec, c.block), o)
  <2>1. CASE o >= es
    <3>1. PICK y \in Int : y = o - es /\ y >= 0
      BY <1>1, <2>1
    <3>2. c.block = y \div BlockSize
      BY <1>2, <2>1, <3>1
    <3>3. /\ Bytes(c.block) <= y /\ y < Bytes(c.block) + BlockSize
          /\ c.block \in Int /\ Bytes(0) = 0
      BY <3>1, <3>2, Division, Sizes DEF Bytes
    <3>4. c.block \in Nat
      <4>1. 0 <= y \div BlockSize
        BY <3>1, <3>3, Division
      <4> QED  BY <3>2, <3>3, <4>1
    <3>5. At(c.rec, c.block) = es + Bytes(c.block) /\ Bytes(c.block) \in Int
      <4>1. PICK k \in Nat : k = c.block
        BY <3>4
      <4>2. At(cell, k) = es + Bytes(k) /\ Bytes(k) \in Int
        BY <1>4
      <4> QED  BY <1>2, <4>1, <4>2, Zenon
    <3>6. At(c.rec, c.block) \in Int /\ At(c.rec, c.block) <= o
          /\ At(c.rec, c.block) + BlockSize > o
      BY <1>1, <3>1, <3>3, <3>5, Sizes
    <3>7. c.ptr = 0
      BY <1>2, <2>1
    <3> QED  BY <3>6, <3>7 DEF InBuffer
  <2>2. CASE ~(o >= es)
    <3>1. c.block = 0 /\ c.ptr = es - o /\ c.rec = cell
      BY <1>2, <2>2
    <3>2. At(cell, 0) = es
      BY <1>1, <1>4, Sizes DEF Bytes
    <3> QED  BY <1>1, <2>2, <3>1, <3>2, Sizes DEF InBuffer
  <2> QED  BY <2>1, <2>2
<1>8. Placed(c, o, n)
  BY <1>5, <1>6, <1>7 DEF Placed
<1> QED  BY <1>8 DEF c

LEMMA ReadSound ==
  ASSUME IInv, NEW t \in Threads, Read(t)
  PROVE  Sound(t)'
<1>1. PICK request \in Requests :
        /\ offset' = [offset EXCEPT ![t] = request[1]]
        /\ buffer' = [buffer EXCEPT ![t] = [p \in 0 .. request[2] - 1 |-> 0]]
        /\ \/ PastEnd(request[1]) /\ Goto(t, "returned") /\ len' = len
           \/ /\ ~PastEnd(request[1])
              /\ len' = [len EXCEPT ![t] = Truncated(request[1], request[2])]
              /\ \/ Goto(t, "check")
                 \/ Goto(t, "extent")
  BY DEF Read, Return
<1>2. request[1] \in Nat /\ request[2] \in Nat \ {0} /\ Size \in Nat
  BY ReadAssumption
<1>3. PICK o \in Nat, n \in Nat \ {0} : o = request[1] /\ n = request[2]
  BY <1>2
<1>4. Types
  BY DEF IInv
<1>5. offset'[t] = o /\ buffer'[t] = [p \in 0 .. n - 1 |-> 0]
  BY <1>1, <1>3, <1>4 DEF Types
<1>6. Pointing(t)' /\ Putting(t)'
  <2>1. pc'[t] \in {"returned", "check", "extent"}
    BY <1>1, <1>4 DEF Goto, Types
  <2>2. ep' = ep /\ memory' = memory /\ if_extents' = if_extents
    BY DEF Read, fetch, fork
  <2> QED  BY <2>1, <2>2 DEF IInv, Pointing, Putting
<1>7. pc'[t] \in {"returned", "check", "extent"}
  BY <1>1, <1>4 DEF Goto, Types
<1>8. Copying(t)'
  BY <1>7 DEF Copying
<1>9. CASE PastEnd(o) /\ pc'[t] = "returned" /\ len' = len
  <2>1. len'[t] \in Nat
    BY <1>4, <1>9 DEF Types
  <2>2. Requested(t)'
    BY <1>5, <1>9, <2>1 DEF Requested
  <2> QED  BY <1>6, <1>8, <2>2 DEF Sound
<1>10. CASE ~PastEnd(o) /\ len'[t] = Truncated(o, n)
  <2>1. len'[t] \in Nat \ {0} /\ len'[t] <= n /\ o + len'[t] <= Size
    BY <1>2, <1>10 DEF PastEnd, Truncated
  <2>2. DOMAIN buffer'[t] = 0 .. n - 1
    BY <1>5
  <2>3. Requested(t)'
    BY <1>5, <2>1, <2>2 DEF Requested
  <2> QED  BY <1>6, <1>8, <2>3 DEF Sound
<1>11. \/ PastEnd(o) /\ pc'[t] = "returned" /\ len' = len
       \/ ~PastEnd(o) /\ len'[t] = Truncated(o, n)
  BY <1>1, <1>3, <1>4 DEF Goto, Types
<1> QED  BY <1>9, <1>10, <1>11

LEMMA ReplySound ==
  ASSUME IInv, NEW t \in Threads, Reply(t)
  PROVE  Sound(t)'
<1>1. /\ offset'[t] = 0 /\ len'[t] = 0 /\ pc'[t] = "idle" /\ buffer'[t] = <<>>
  BY DEF IInv, Types, Reply, Goto
<1>2. Requested(t)' /\ Copying(t)'
  BY <1>1 DEF Requested, Copying
<1>3. Pointing(t)' /\ Putting(t)'
  <2>1. ep'[t] = "none"
    BY DEF IInv, Types, Reply
  <2> QED  BY <1>1, <2>1 DEF Pointing, Putting
<1> QED  BY <1>2, <1>3 DEF Sound

LEMMA SecondWordSound ==
  ASSUME IInv, NEW t \in Threads, SecondWord(t)
  PROVE  Requested(t)' /\ Copying(t)'
<1>1. /\ Types /\ Requested(t) /\ pc[t] \in {"l0", "l1"} /\ extent[t] <= nextents
      /\ UNCHANGED <<offset, len, buffer>>
  BY DEF IInv, Pointing, SecondWord, call
<1>2. PICK word \in Fetched(t) :
        LET cell == IF pc[t] = "l0" THEN WithL0(rec[t], word) ELSE WithL1(rec[t], word)
        IN \/ /\ Overlaps(cell, offset[t], len[t])
              /\ copying' = [copying EXCEPT ![t] = CopyStart(cell, offset[t], len[t])]
              /\ Goto(t, "copy") /\ UNCHANGED extent
           \/ Goto(t, "extent")
  BY DEF SecondWord
<1> DEFINE cell == IF pc[t] = "l0" THEN WithL0(rec[t], word) ELSE WithL1(rec[t], word)
<1>3. cell \in Cells
  <2>1. word \in Cells /\ rec[t] \in Cells
    BY <1>1, <1>2, FetchedTyped DEF Types
  <2> QED  BY <2>1, Words
<1>4. \/ /\ Overlaps(cell, offset[t], len[t])
         /\ copying' = [copying EXCEPT ![t] = CopyStart(cell, offset[t], len[t])]
         /\ Goto(t, "copy") /\ UNCHANGED extent
      \/ Goto(t, "extent")
  BY <1>2
<1> HIDE DEF cell
<1>5. CASE Goto(t, "extent")
  <2>1. pc'[t] = "extent"
    BY <1>1, <1>5 DEF Goto, Types
  <2> QED  BY <1>1, <2>1, MovesOn
<1>6. CASE /\ Overlaps(cell, offset[t], len[t])
           /\ copying' = [copying EXCEPT ![t] = CopyStart(cell, offset[t], len[t])]
           /\ Goto(t, "copy") /\ UNCHANGED extent
  <2>1. offset[t] \in Nat /\ len[t] \in Nat
    BY <1>1 DEF Types
  <2>2. Placed(CopyStart(cell, offset[t], len[t]), offset[t], len[t])
    BY <1>3, <1>6, <2>1, StartPlaced
  <2>3. /\ copying'[t] = CopyStart(cell, offset[t], len[t]) /\ pc'[t] = "copy"
        /\ offset'[t] = offset[t] /\ len'[t] = len[t] /\ extent'[t] = extent[t]
        /\ buffer'[t] = buffer[t]
    BY <1>1, <1>6 DEF Types, Goto
  <2>4. Placed(copying'[t], offset'[t], len'[t])
    BY <2>2, <2>3, Zenon
  <2>5. Copying(t)'
    BY <1>1, <2>3, <2>4 DEF Copying
  <2>6. Requested(t)'
    BY <1>1, <2>3 DEF Requested
  <2> QED  BY <2>5, <2>6
<1> QED  BY <1>4, <1>5, <1>6

(* The buffer keeps its length: NoOverrun is this fact. *)
LEMMA CopySound ==
  ASSUME IInv, NEW t \in Threads, CopyBlock(t)
  PROVE  Requested(t)' /\ Copying(t)' /\ DOMAIN buffer'[t] = DOMAIN buffer[t]
<1> DEFINE c == copying[t]
           o == offset[t]
           n == len[t]
           piece == Piece(c, o, n)
           from == (c.rec.br_startblock + c.block) * BlockSize + piece.src
           d == [c EXCEPT !.block = @ + 1, !.ptr = @ + piece.copylen]
<1>1. /\ Types /\ Requested(t) /\ Copying(t) /\ pc[t] = "copy"
      /\ c.block < c.end
  BY DEF IInv, CopyBlock
<1>2. /\ c \in Pieces /\ o \in Nat /\ n \in Nat /\ o + n <= Size /\ n > 0
      /\ Placed(c, o, n) /\ extent[t] <= nextents
  BY <1>1 DEF Types, Requested, Copying
<1>3. PICK m \in Nat : DOMAIN buffer[t] = 0 .. m - 1 /\ n <= m
  BY <1>1 DEF Requested
<1>4. /\ piece.copylen \in Nat \ {0} /\ c.ptr \in Nat /\ c.ptr + piece.copylen <= n
      /\ Placed(d, o, n)
  <2>1. c.block < c.end
    BY <1>1
  <2> HIDE DEF c, o, n
  <2>2. /\ Piece(c, o, n).copylen \in Nat \ {0} /\ c.ptr \in Nat
        /\ c.ptr + Piece(c, o, n).copylen <= n
        /\ Placed([c EXCEPT !.block = @ + 1, !.ptr = @ + Piece(c, o, n).copylen], o, n)
    BY <1>2, <2>1, PieceInside, Zenon
  <2> QED  BY <2>2, Zenon
<1> HIDE DEF from, piece, d
<1>5. CASE /\ buffer' = [buffer EXCEPT ![t] = Written(@, c.ptr, from, piece.copylen)]
           /\ copying' = [copying EXCEPT ![t] = d]
           /\ UNCHANGED <<pc, offset, len, extent>>
  <2>1. /\ buffer'[t] = Written(buffer[t], c.ptr, from, piece.copylen)
        /\ copying'[t] = d /\ offset'[t] = o /\ len'[t] = n
        /\ pc'[t] = pc[t] /\ extent'[t] = extent[t]
    BY <1>1, <1>5 DEF Types
  <2>2. DOMAIN buffer'[t] = DOMAIN buffer[t]
    <3>1. c.ptr .. c.ptr + piece.copylen - 1 \subseteq 0 .. m - 1
      BY <1>2, <1>3, <1>4
    <3> QED  BY <1>3, <2>1, <3>1 DEF Written
  <2>3. Placed(copying'[t], offset'[t], len'[t])
    BY <1>4, <2>1, Zenon
  <2>4. Copying(t)'
    BY <1>2, <2>1, <2>3 DEF Copying
  <2>5. Requested(t)'
    BY <1>1, <2>1, <2>2 DEF Requested
  <2> QED  BY <2>2, <2>4, <2>5
<1>6. CASE Goto(t, "returned") /\ UNCHANGED <<buffer, offset, len>>
  <2>1. pc'[t] = "returned"
    BY <1>1, <1>6 DEF Goto, Types
  <2>2. Requested(t)' /\ Copying(t)'
    BY <1>6, <2>1, MovesOn
  <2> QED  BY <1>6, <2>2
<1>7. d = [c EXCEPT !.block = @ + 1,
                    !.ptr = @ + IF piece.copylen > 0 THEN piece.copylen ELSE 0]
  <2>1. (IF piece.copylen > 0 THEN piece.copylen ELSE 0) = piece.copylen
    BY <1>4
  <2> QED  BY <2>1, Zenon DEF d
<1>8. \/ /\ buffer' = [buffer EXCEPT ![t] = Written(@, c.ptr, from, piece.copylen)]
         /\ copying' = [copying EXCEPT ![t] =
              [c EXCEPT !.block = @ + 1,
                        !.ptr = @ + IF piece.copylen > 0 THEN piece.copylen ELSE 0]]
         /\ UNCHANGED <<pc, offset, len, extent>>
      \/ Goto(t, "returned") /\ UNCHANGED <<buffer, offset, len>>
  BY DEF CopyBlock, Return, fetch, from, piece
<1> QED  BY <1>5, <1>6, <1>7, <1>8, Zenon

LEMMA SelfSound ==
  ASSUME IInv, NEW t \in Threads, Step(t)
  PROVE  Sound(t)'
<1>1. Types /\ Pointing(t) /\ Putting(t)
  BY DEF IInv
<1>2. CASE Read(t) \/ Reply(t)
  BY <1>2, ReadSound, ReplySound
<1>3. CASE ~(Read(t) \/ Reply(t))
  <2>1. Requested(t)' /\ Copying(t)'
    <3>1. CASE SecondWord(t) \/ CopyBlock(t)
      BY <3>1, SecondWordSound, CopySound
    <3>2. CASE ~(SecondWord(t) \/ CopyBlock(t))
      <4>1. UNCHANGED <<offset, len, buffer>> /\ pc[t] \notin {"idle", "returned"}
        BY <1>3, <3>2 DEF Step, CheckFlag, Reset, LoadRaced, Add, Descend, Leaf, BadLeaf, PutL0,
                          PutL1, Crash, Loaded, Free, Clear, Unflag, GetExt, BadPointer,
                          FirstWord, Copied, Finish, call, Loading
      <4>2. pc'[t] # "copy"
        BY <1>1, <1>3, <3>2
           DEF Types, Step, CheckFlag, Reset, LoadRaced, Add, Descend, Leaf, BadLeaf, PutL0,
               PutL1, Crash, Loaded, Free, Clear, Unflag, GetExt, BadPointer, FirstWord, Copied,
               Finish, Return, Goto, Loading
      <4> QED  BY <4>1, <4>2, MovesOn
    <3> QED  BY <3>1, <3>2
  <2>2. Putting(t)'
    <3>1. pc'[t] \in {"put0", "put1"} =>
            \/ i'[t] = i[t] /\ ((Putting(t) /\ pc[t] \in {"put0", "put1"}) \/ Leaf(t))
            \/ PutL1(t)
      BY <1>1, <1>3
         DEF Types, Putting, load, Step, CheckFlag, Reset, LoadRaced, Add, Descend, Leaf, BadLeaf,
             PutL0, PutL1, Crash, Loaded, Free, Clear, Unflag, GetExt, BadPointer, FirstWord,
             SecondWord, CopyBlock, Copied, Finish, Return, Goto
    <3>2. CASE PutL1(t)
      <4>1. i'[t] = i[t] + 1 /\ pc[t] = "put1" /\ i[t] < nextents
        BY <1>1, <3>2 DEF PutL1, Types, Putting
      <4>2. i[t] + 1 = nextents => pc'[t] = "leaf"
        BY <1>1, <3>2 DEF PutL1, Goto, Types
      <4> QED  BY <1>1, <4>1, <4>2, Extents DEF Putting, Types
    <3> QED  BY <3>1, <3>2 DEF Putting, Leaf
  <2>3. Pointing(t)'
    <3>1. CASE GetExt(t)
      <4>1. pc[t] = "extent" /\ extent[t] <= nextents /\ extent' = extent
        BY <3>1 DEF GetExt, Crash, fetch
      <4>2. pc'[t] \in {"words", "l0", "l1"} => ep'[t] \in {"current", "freed"}
        BY <1>1, <3>1, <4>1 DEF GetExt, Crash, Goto, Types
      <4> QED  BY <3>1, <4>1, <4>2, PointerKept DEF Pointing, Step
    <3>2. CASE ~GetExt(t)
      <4>1. pc'[t] \in {"words", "l0", "l1"} =>
              /\ pc[t] \in {"words", "l0", "l1"} /\ extent'[t] = extent[t] /\ ep' = ep
        BY <1>1, <1>3, <3>2
           DEF Types, fetch, Step, CheckFlag, Reset, LoadRaced, Add, Descend, Leaf, BadLeaf, PutL0,
               PutL1, Crash, Loaded, Free, Clear, Unflag, BadPointer, FirstWord, SecondWord,
               CopyBlock, Copied, Finish, Return, Goto, Loading
      <4> QED  BY <1>1, <4>1, PointerKept DEF Pointing
    <3> QED  BY <3>1, <3>2
  <2> QED  BY <2>1, <2>2, <2>3 DEF Sound
<1> QED  BY <1>2, <1>3

LEMMA Initially == Init => IInv
<1> SUFFICES ASSUME Init  PROVE IInv
  OBVIOUS
<1>1. nextents \in Nat /\ \A n \in 1 .. nextents : Records[n] \in Cells
  BY Extents
<1>2. Records = [n \in 1 .. nextents |-> Records[n]] /\ Len(Records) = nextents
  BY ReadAssumption DEF nextents
<1>3. Records \in Seq(Cells) /\ <<>> \in Seq(Cells)
  BY <1>1, <1>2, EmptySeq
<1>4. if_extents \in Seq(Cells) /\ Listing
  BY <1>1, <1>2, <1>3 DEF Init, Listing
<1>5. Nothing \in Pieces /\ 1 \in 1 .. nextents + 1 /\ 0 \in 0 .. nextents /\ Blank \in Cells
  BY <1>1, Extents DEF Nothing, Pieces
<1>6. loaded \in BOOLEAN
  BY ReadAssumption DEF Init
<1>7. Types
  BY <1>4, <1>5, <1>6 DEF Init, Types, Labels
<1>8. ASSUME NEW t \in Threads
      PROVE  Requested(t) /\ Copying(t) /\ Pointing(t) /\ Putting(t) /\ ~Loading(t)
  <2>1. offset[t] = 0 /\ len[t] = 0 /\ pc[t] = "idle" /\ buffer[t] = <<>> /\ ep[t] = "none"
    BY DEF Init
  <2> QED  BY <2>1 DEF Requested, Copying, Pointing, Putting, Loading
<1>9. OneLoad
  BY <1>8 DEF OneLoad, Loading
<1> QED  BY <1>4, <1>7, <1>8, <1>9 DEF IInv

LEMMA Inductive == IInv /\ [Next]_vars => IInv'
<1>1. ASSUME IInv, NEW t \in Threads, Step(t)  PROVE IInv'
  <2>1. Types' /\ Listing' /\ OneLoad'
    BY <1>1, TypesKept, ListKept, OneLoadKept DEF IInv
  <2>2. ASSUME NEW u \in Threads  PROVE Sound(u)'
    BY <1>1, SelfSound, OthersSound
  <2> QED  BY <2>1, <2>2 DEF IInv, Sound
<1>2. ASSUME IInv, UNCHANGED vars  PROVE IInv'
  BY <1>2 DEF IInv, vars, fork, call, load, fetch, Types, Listing, OneLoad, Loading, Requested,
              Copying, Pointing, Putting
<1> QED  BY <1>1, <1>2 DEF Next

(* The invariant the theorems below rest on. *)
THEOREM Invariant == Spec => []IInv
BY Initially, Inductive, PTL DEF Spec

(* Every variable stays in its range: the lengths are never negative, and a *)
(* call returns a number of bytes or one of its two errors.                 *)
THEOREM TypeCorrect == Spec => []TypeOK
<1> DEFINE Values == {-EIO, EFSCORRUPTED} \cup Nat
           Returns == crashed \in BOOLEAN /\ r \in [Threads -> Values]
<1>1. Init => Returns
  <2> SUFFICES ASSUME Init  PROVE Returns
    OBVIOUS
  <2>1. crashed \in BOOLEAN
    BY DEF Init
  <2>2. 0 \in Values
    OBVIOUS
  <2> HIDE DEF Values
  <2>3. r \in [Threads -> Values]
    BY <2>2 DEF Init
  <2> QED  BY <2>1, <2>3
<1>2. ASSUME IInv, Returns, NEW t \in Threads, Step(t)  PROVE Returns'
  <2>1. crashed' \in BOOLEAN
    BY <1>2 DEF Step, Read, Reply, CheckFlag, Reset, LoadRaced, Add, Descend, Leaf, BadLeaf, PutL0,
                PutL1, Crash, Loaded, Free, Clear, Unflag, GetExt, BadPointer, FirstWord,
                SecondWord, CopyBlock, Copied, Finish
  <2>2. len[t] \in Values /\ 0 \in Values /\ -EIO \in Values /\ EFSCORRUPTED \in Values
    BY <1>2 DEF IInv, Types
  <2> HIDE DEF Values
  <2>3. r' = r \/ \E v \in Values : r' = [r EXCEPT ![t] = v]
    BY <1>2, <2>2 DEF Step, Read, Reply, CheckFlag, Reset, LoadRaced, Add, Descend, Leaf, BadLeaf,
                      PutL0, PutL1, Crash, Loaded, Free, Clear, Unflag, GetExt, BadPointer,
                      FirstWord, SecondWord, CopyBlock, Copied, Finish, Return, call
  <2>4. r' \in [Threads -> Values]
    BY <1>2, <2>3
  <2> QED  BY <2>1, <2>4
<1>3. IInv /\ Returns /\ [Next]_vars => Returns'
  <2>1. UNCHANGED vars /\ Returns => Returns'
    BY DEF vars, call
  <2> QED  BY <1>2, <2>1 DEF Next
<1>4. IInv /\ Returns => TypeOK
  <2> SUFFICES ASSUME IInv, Returns  PROVE TypeOK
    OBVIOUS
  <2>1. \A t \in Threads : /\ DOMAIN copying[t] = DOMAIN Nothing
                           /\ copying[t].rec \in Cells
    <3>1. \A t \in Threads : copying[t] \in Pieces
      BY DEF IInv, Types
    <3>2. \A c \in Pieces : DOMAIN c = {"rec", "block", "end", "ptr"} /\ c.rec \in Cells
      BY DEF Pieces
    <3>3. DOMAIN Nothing = {"rec", "block", "end", "ptr"}
      BY DEF Nothing
    <3> QED  BY <3>1, <3>2, <3>3
  <2> QED  BY <2>1 DEF IInv, Types, TypeOK
<1> QED  BY <1>1, <1>3, <1>4, Invariant, PTL DEF Spec

(* The memcpy of copy_extent_to_buffer stays inside the buffer, whatever    *)
(* the request, and whatever record the thread was given: a half loaded     *)
(* one, or the words of memory that is freed or that two loads share.       *)
THEOREM InsideBuffer == Spec => NoOverrun
<1> DEFINE Kept == \A t \in Threads : pc[t] = "copy" => DOMAIN buffer'[t] = DOMAIN buffer[t]
<1>1. ASSUME IInv, NEW u \in Threads, Step(u), NEW t \in Threads, pc[t] = "copy"
      PROVE  DOMAIN buffer'[t] = DOMAIN buffer[t]
  <2>1. CASE CopyBlock(u) /\ u = t
    BY <1>1, <2>1, CopySound
  <2>2. CASE buffer' = buffer
    BY <2>2
  <2>3. CASE u # t /\ (Read(u) \/ Reply(u) \/ CopyBlock(u))
    BY <1>1, <2>3 DEF IInv, Types, Read, Reply, CopyBlock
  <2>4. buffer' = buffer \/ CopyBlock(u) \/ (pc[u] # "copy" /\ (Read(u) \/ Reply(u)))
    BY <1>1 DEF Step, Read, Reply, CheckFlag, Reset, LoadRaced, Add, Descend, Leaf, BadLeaf, PutL0,
                PutL1, Crash, Loaded, Free, Clear, Unflag, GetExt, BadPointer, FirstWord,
                SecondWord, Copied, Finish
  <2> QED  BY <1>1, <2>1, <2>2, <2>3, <2>4
<1>2. IInv /\ [Next]_vars => [Kept]_vars
  BY <1>1 DEF Next
<1> QED  BY <1>2, Invariant, PTL DEF Spec, NoOverrun

-----------------------------------------------------------------------------
(* The list, as long as no two loads raced *)

(* How far the load of the thread got. *)
LoadAt(t) ==
  /\ loaded
  /\ pc[t] \in {"add", "unflag"} => if_extents = <<>>
  /\ pc[t] = "descend" => if_extents = NewRecords
  /\ pc[t] \in {"leaf", "put0", "put1"} =>
       /\ room[t] = nextents /\ Len(if_extents) = nextents
       /\ \A n \in 1 .. i[t] : if_extents[n] = Records[n]
  /\ pc[t] = "put1" => if_extents[i[t] + 1].br_startoff = Records[i[t] + 1].br_startoff

Whole == if_extents = IF loaded THEN Records ELSE <<>>
Listed ==
  memory # "raced" =>
    /\ (\A t \in Threads : ~Loading(t)) => Whole
    /\ \A t \in Threads : Loading(t) => LoadAt(t)

LEMMA SameList ==
  ASSUME if_extents \in Seq(Cells), Len(if_extents) = nextents,
         \A n \in 1 .. nextents : if_extents[n] = Records[n]
  PROVE  if_extents = Records
<1>1. Records = [n \in 1 .. nextents |-> Records[n]]
  BY ReadAssumption DEF nextents
<1>2. if_extents = [n \in 1 .. nextents |-> if_extents[n]]
  OBVIOUS
<1> QED  BY <1>1, <1>2

(* The two words make the record. *)
LEMMA BothWords ==
  ASSUME NEW a \in Cells, NEW b \in Cells
  PROVE  /\ WithL0(a, b).br_startoff = b.br_startoff
         /\ a.br_startoff = b.br_startoff => WithL1(a, b) = b
         /\ a.br_startblock = b.br_startblock /\ a.br_blockcount = b.br_blockcount =>
              WithL0(a, b) = b
BY DEF Cells, WithL0, WithL1

LEMMA PutRight ==
  ASSUME IInv, NEW t \in Threads, LoadAt(t), PutL0(t) \/ PutL1(t)
  PROVE  Loading(t)' /\ LoadAt(t)'
<1>1. /\ if_extents \in Seq(Cells) /\ i \in [Threads -> 0 .. nextents] /\ nextents \in Nat
      /\ pc \in [Threads -> Labels] /\ pc[t] \in {"put0", "put1"} /\ i[t] < nextents
      /\ loaded' /\ UNCHANGED room
  BY Extents DEF IInv, Types, Putting, LoadAt, PutL0, PutL1, load
<1>2. /\ room[t] = nextents /\ Len(if_extents) = nextents
      /\ \A n \in 1 .. i[t] : if_extents[n] = Records[n]
  BY <1>1 DEF LoadAt
<1>3. PICK k \in 1 .. nextents : k = i[t] + 1
  BY <1>1
<1>4. k \in DOMAIN if_extents /\ if_extents[k] \in Cells /\ Records[k] \in Cells
  BY <1>1, <1>2, Extents
<1>5. CASE PutL0(t)
  <2>1. /\ if_extents' = [if_extents EXCEPT ![k] = WithL0(@, Records[k])]
        /\ pc'[t] = "put1" /\ i'[t] = i[t]
    BY <1>1, <1>3, <1>5 DEF PutL0, Goto, load
  <2>2. /\ Len(if_extents') = nextents
        /\ \A n \in 1 .. nextents : n # k => if_extents'[n] = if_extents[n]
    BY <1>1, <1>2, <2>1, PutTyped
  <2>3. if_extents'[k] = WithL0(if_extents[k], Records[k])
    BY <1>4, <2>1
  <2>4. if_extents'[k].br_startoff = Records[k].br_startoff
    BY <1>4, <2>3, BothWords
  <2>5. \A n \in 1 .. i'[t] : if_extents'[n] = Records[n]
    BY <1>1, <1>2, <1>3, <2>1, <2>2
  <2>6. if_extents'[i'[t] + 1].br_startoff = Records[i'[t] + 1].br_startoff
    BY <1>3, <2>1, <2>4
  <2> QED  BY <1>1, <1>2, <2>1, <2>2, <2>5, <2>6 DEF LoadAt, Loading
<1>6. CASE PutL1(t)
  <2>1. /\ if_extents' = [if_extents EXCEPT ![k] = WithL1(@, Records[k])]
        /\ pc'[t] \in {"leaf", "put0"} /\ i'[t] = k
        /\ if_extents[k].br_startoff = Records[k].br_startoff
    BY <1>1, <1>3, <1>6 DEF PutL1, Goto, LoadAt
  <2>2. /\ Len(if_extents') = nextents
        /\ \A n \in 1 .. nextents : n # k => if_extents'[n] = if_extents[n]
    BY <1>1, <1>2, <2>1, PutTyped
  <2>3. if_extents'[k] = WithL1(if_extents[k], Records[k])
    BY <1>4, <2>1
  <2>4. if_extents'[k] = Records[k]
    BY <1>4, <2>1, <2>3, BothWords
  <2>5. \A n \in 1 .. i'[t] : if_extents'[n] = Records[n]
    <3> SUFFICES ASSUME NEW n \in 1 .. k  PROVE if_extents'[n] = Records[n]
      BY <2>1
    <3>1. n = k \/ (n \in 1 .. i[t] /\ n \in 1 .. nextents /\ n # k)
      BY <1>1, <1>3
    <3> QED  BY <1>2, <2>2, <2>4, <3>1
  <2> QED  BY <1>1, <1>2, <2>1, <2>2, <2>5 DEF LoadAt, Loading
<1> QED  BY <1>5, <1>6

LEMMA LoadStep ==
  ASSUME IInv, memory # "raced", NEW t \in Threads, Loading(t), LoadAt(t), Step(t)
  PROVE  IF Loading(t)' THEN LoadAt(t)' ELSE Whole'
<1>1. /\ if_extents \in Seq(Cells) /\ nextents \in Nat /\ loaded
      /\ pc \in [Threads -> Labels] /\ i \in [Threads -> 0 .. nextents]
      /\ room \in [Threads -> Nat]
  BY Extents DEF IInv, Types, LoadAt
<1>2. CASE Add(t)
  <2>1. pc'[t] = "descend" /\ if_extents' = NewRecords /\ loaded'
    BY <1>1, <1>2 DEF Add, Goto
  <2> QED  BY <2>1 DEF Loading, LoadAt, NewRecords
<1>3. CASE Descend(t)
  <2>1. pc[t] = "descend" /\ UNCHANGED fork /\ if_extents = NewRecords
    BY <1>3 DEF Descend, LoadAt
  <2>2. Len(if_extents) = nextents
    BY <1>1, <2>1 DEF NewRecords
  <2>3. \/ pc'[t] = "leaf" /\ room'[t] = nextents /\ i'[t] = 0
        \/ pc'[t] = "destroy"
        \/ UNCHANGED <<pc, load>>
    BY <1>1, <1>3, <2>2 DEF Descend, Goto
  <2> QED  BY <1>1, <2>1, <2>2, <2>3 DEF Loading, LoadAt, fork, load, NewRecords
<1>4. CASE Leaf(t) \/ BadLeaf(t)
  <2>1. /\ UNCHANGED <<if_extents, loaded, room, i>> /\ pc[t] = "leaf"
        /\ pc'[t] \in {"put0", "destroy", "leaf"}
    BY <1>1, <1>4 DEF Leaf, BadLeaf, Crash, Goto, fork, load
  <2> QED  BY <1>1, <2>1 DEF Loading, LoadAt
<1>5. CASE PutL0(t) \/ PutL1(t)
  BY <1>5, PutRight
<1>6. CASE Loaded(t)
  <2>1. pc[t] = "leaf" /\ i[t] = nextents /\ pc'[t] = "extent" /\ UNCHANGED fork
    BY <1>1, <1>6 DEF Loaded, Goto
  <2>2. if_extents = Records
    BY <1>1, <2>1, SameList DEF LoadAt
  <2> QED  BY <1>1, <2>1, <2>2 DEF Loading, Whole, fork
<1>7. CASE Free(t) \/ Clear(t)
  <2>1. /\ UNCHANGED loaded /\ pc'[t] \in {"clear", "unflag"}
        /\ pc'[t] = "unflag" => if_extents' = <<>>
    BY <1>1, <1>7 DEF Free, Clear, Goto
  <2> QED  BY <1>1, <2>1 DEF Loading, LoadAt
<1>8. CASE Unflag(t)
  <2>1. pc[t] = "unflag" /\ pc'[t] = "returned" /\ if_extents' = if_extents /\ loaded' = FALSE
    BY <1>1, <1>8 DEF Unflag, Return, Goto
  <2> QED  BY <2>1 DEF Loading, LoadAt, Whole
<1> QED  BY <1>2, <1>3, <1>4, <1>5, <1>6, <1>7, <1>8
         DEF Step, Loading, Read, Reply, CheckFlag, Reset, LoadRaced, GetExt, BadPointer, FirstWord,
             SecondWord, CopyBlock, Copied, Finish

(* A thread that does not load and does not begin to leaves the fork alone. *)
LEMMA Readers ==
  ASSUME IInv, memory # "raced", NEW t \in Threads, ~Loading(t), ~Reset(t), Step(t)
  PROVE  UNCHANGED fork /\ ~Loading(t)'
<1>1. Types
  BY DEF IInv
<1>2. CASE Read(t) \/ Reply(t) \/ CheckFlag(t) \/ GetExt(t) \/ BadPointer(t)
  BY <1>1, <1>2 DEF Types, Loading, Read, Reply, CheckFlag, GetExt, BadPointer, Crash, Return, Goto
<1>3. CASE FirstWord(t) \/ SecondWord(t) \/ CopyBlock(t) \/ Copied(t) \/ Finish(t)
  BY <1>1, <1>3 DEF Types, Loading, FirstWord, SecondWord, CopyBlock, Copied, Finish, Return, Goto
<1> QED  BY <1>2, <1>3
         DEF Step, Loading, LoadRaced, Add, Descend, Leaf, BadLeaf, PutL0, PutL1, Loaded, Free,
             Clear, Unflag

LEMMA Untouched ==
  ASSUME IInv, NEW t \in Threads, Step(t), NEW u \in Threads \ {t}
  PROVE  pc'[u] = pc[u] /\ i'[u] = i[u] /\ room'[u] = room[u]
BY DEF IInv, Types, Step, Read, Reply, CheckFlag, Reset, LoadRaced, Add, Descend, Leaf, BadLeaf,
       PutL0, PutL1, Crash, Loaded, Free, Clear, Unflag, GetExt, BadPointer, FirstWord,
       SecondWord, CopyBlock, Copied, Finish, Return, Goto, load

LEMMA ListedKept ==
  ASSUME IInv, Listed, NEW t \in Threads, Step(t)
  PROVE  Listed'
<1> SUFFICES ASSUME memory' # "raced"  PROVE Listed'
  BY DEF Listed
<1>1. memory # "raced"
  BY DEF Step, fork, Read, Reply, CheckFlag, Reset, LoadRaced, Add, Descend, Leaf, BadLeaf,
         PutL0, PutL1, Crash, Loaded, Free, Clear, Unflag, GetExt, BadPointer, FirstWord,
         SecondWord, CopyBlock, Copied, Finish
<1>2. \A u \in Threads \ {t} : pc'[u] = pc[u] /\ i'[u] = i[u] /\ room'[u] = room[u]
  BY Untouched
<1>3. CASE Loading(t)
  <2>1. \A u \in Threads \ {t} : ~Loading(u)'
    BY <1>1, <1>2, <1>3 DEF IInv, OneLoad, Loading
  <2>2. IF Loading(t)' THEN LoadAt(t)' ELSE Whole'
    BY <1>1, <1>3, LoadStep DEF Listed
  <2> QED  BY <2>1, <2>2 DEF Listed
<1>4. CASE Reset(t)
  <2>1. /\ pc'[t] = "add" /\ if_extents' = <<>> /\ loaded' = TRUE
        /\ \A u \in Threads : ~Loading(u)
    BY <1>1, <1>4 DEF IInv, Types, Reset, Goto
  <2>2. \A u \in Threads \ {t} : ~Loading(u)'
    BY <1>2, <2>1 DEF Loading
  <2>3. Loading(t)' /\ LoadAt(t)'
    BY <2>1 DEF Loading, LoadAt
  <2> QED  BY <2>2, <2>3 DEF Listed
<1>5. CASE ~Loading(t) /\ ~Reset(t)
  <2>1. UNCHANGED fork /\ ~Loading(t)'
    BY <1>1, <1>5, Readers
  <2>2. \A u \in Threads : Loading(u)' <=> Loading(u)
    BY <1>2, <1>5, <2>1 DEF Loading
  <2>3. ASSUME NEW u \in Threads, Loading(u)  PROVE LoadAt(u)'
    <3>1. u # t
      BY <1>5, <2>3
    <3>2. LoadAt(u) /\ pc'[u] = pc[u] /\ i'[u] = i[u] /\ room'[u] = room[u]
      BY <1>1, <1>2, <2>3, <3>1 DEF Listed
    <3> QED  BY <2>1, <3>2 DEF LoadAt, fork, NewRecords
  <2> QED  BY <1>1, <2>1, <2>2, <2>3 DEF Listed, Whole, fork
<1> QED  BY <1>3, <1>4, <1>5

LEMMA ListedAlways == Spec => []Listed
<1>1. Init => Listed
  <2> SUFFICES ASSUME Init  PROVE Listed
    OBVIOUS
  <2>1. Whole /\ \A t \in Threads : ~Loading(t)
    BY ReadAssumption DEF Init, Whole, Loading
  <2> QED  BY <2>1 DEF Listed
<1>2. IInv /\ Listed /\ [Next]_vars => Listed'
  <2>1. IInv /\ Listed /\ UNCHANGED vars => Listed'
    BY DEF Listed, Loading, LoadAt, Whole, vars, fork, load, NewRecords
  <2> QED  BY <2>1, ListedKept DEF Next
<1> QED  BY <1>1, <1>2, Invariant, PTL DEF Spec

(* XFS_IFEXTENTS is set over the whole list and clear over none whenever    *)
(* nobody loads it: a load that fails is not remembered, one that succeeds  *)
(* is, for any number of threads that read meanwhile, until two load at     *)
(* once.                                                                    *)
THEOREM LoadsRemembered == Spec => []LoadRemembered
<1>1. TypeOK /\ Listed => LoadRemembered
  BY DEF Listed, Whole, LoadRemembered
<1> QED  BY <1>1, ListedAlways, TypeCorrect, PTL

-----------------------------------------------------------------------------
(* Reads nobody disturbs: no other thread runs, or the list was read when   *)
(* the file was opened; no leaf is corrupt.                                 *)
Undisturbed == (\E t \in Threads : Threads = {t}) \/ ~Btree

OverExtents == {"extent", "words", "l0", "l1", "copy"}

(* What a read finds: a list that stays, and in it the record it decodes.   *)
Reading(t) ==
  /\ memory = "ok" /\ pc[t] \notin {"destroy", "clear", "unflag"}
  /\ ~Btree => loaded /\ pc[t] \notin {"check", "reset"} /\ ~Loading(t)
  /\ pc[t] \in OverExtents => loaded
  /\ pc[t] \in {"words", "l0", "l1"} => ep[t] = "current"
  /\ pc[t] = "l1" => rec[t].br_startoff = Records[extent[t]].br_startoff
  /\ pc[t] = "l0" => /\ rec[t].br_startblock = Records[extent[t]].br_startblock
                     /\ rec[t].br_blockcount = Records[extent[t]].br_blockcount

LEMMA RecordAt ==
  ASSUME Undisturbed, IInv, Listed, \A u \in Threads : Reading(u),
         NEW t \in Threads, pc[t] \in OverExtents
  PROVE  /\ if_extents = Records
         /\ extent[t] <= nextents => /\ Records[extent[t]] \in Items
                                     /\ extent[t] \in 1 .. nextents
<1>1. \A u \in Threads : ~Loading(u)
  BY DEF Undisturbed, Reading, Loading, OverExtents
<1>2. if_extents = Records
  BY <1>1 DEF Listed, Whole, Reading
<1> QED  BY <1>2, Extents DEF IInv, Types

LEMMA Decoded ==
  ASSUME Undisturbed, IInv, Listed, \A u \in Threads : Reading(u),
         NEW t \in Threads, pc[t] \in {"words", "l0", "l1"}, NEW word \in Fetched(t)
  PROVE  /\ word = Records[extent[t]] /\ extent[t] \in 1 .. nextents /\ word \in Cells
         /\ pc[t] = "l0" => WithL0(rec[t], word) = word
         /\ pc[t] = "l1" => WithL1(rec[t], word) = word
<1>1. extent[t] <= nextents /\ rec[t] \in Cells /\ Reading(t) /\ pc[t] \in OverExtents
  BY DEF IInv, Types, Pointing, OverExtents
<1>2. if_extents = Records /\ Records[extent[t]] \in Items /\ extent[t] \in 1 .. nextents
  BY <1>1, RecordAt
<1>3. word = Records[extent[t]]
  BY <1>1, <1>2 DEF Reading, Fetched
<1>4. word \in Cells
  BY <1>2, <1>3, Extents
<1> QED  BY <1>1, <1>2, <1>3, <1>4, BothWords DEF Reading

(* A load in an undisturbed read succeeds: the list has room for what the   *)
(* inode says.                                                              *)
LEMMA LoadSucceeds ==
  ASSUME Undisturbed, ~LeafFails, IInv, Listed, \A u \in Threads : Reading(u),
         NEW t \in Threads, Loading(t) \/ Reset(t), Step(t)
  PROVE  Reading(t)'
<1>1. Types /\ Reading(t) /\ Btree
  BY DEF IInv, Reading, Reset
<1>2. CASE Reset(t)
  <2>1. \A u \in Threads : ~Loading(u)
    BY <1>1, <1>2 DEF Undisturbed, Loading, Reset
  <2>2. memory' = "ok" /\ pc'[t] = "add"
    BY <1>1, <1>2, <2>1 DEF Reset, Reading, Goto, Types
  <2> QED  BY <1>1, <2>2 DEF Reading, OverExtents
<1>3. CASE Loading(t)
  <2>1. LoadAt(t) /\ i[t] \in 0 .. nextents /\ nextents \in Nat /\ LeafSize \in Nat
    BY <1>1, <1>3, Extents, ReadAssumption DEF Listed, Reading, Types
  <2>2. ~BadLeaf(t)
    <3> SUFFICES ASSUME pc[t] = "leaf"  PROVE ~(i[t] + num_recs(t) > room[t])
      BY DEF BadLeaf
    <3>1. room[t] = nextents
      BY <2>1 DEF LoadAt
    <3> QED  BY <2>1, <3>1 DEF num_recs
  <2>3. Add(t) \/ Descend(t) \/ Leaf(t) \/ PutL0(t) \/ PutL1(t) \/ Loaded(t)
    BY <1>1, <1>3, <2>2
       DEF Step, Loading, Reading, Read, Reply, CheckFlag, Reset, LoadRaced, Free, Clear, Unflag,
           GetExt, BadPointer, FirstWord, SecondWord, CopyBlock, Copied, Finish
  <2>4. /\ UNCHANGED <<loaded, memory>>
        /\ pc'[t] \in {"add", "descend", "leaf", "put0", "put1", "extent"}
    BY <1>1, <1>3, <2>3
       DEF Types, Reading, Loading, Add, Descend, Leaf, PutL0, PutL1, Loaded, Crash, Goto, fork
  <2> QED  BY <1>1, <2>1, <2>4 DEF Reading, LoadAt, OverExtents
<1> QED  BY <1>2, <1>3

LEMMA ReadingOn ==
  ASSUME Undisturbed, ~LeafFails, IInv, Listed, \A u \in Threads : Reading(u),
         NEW t \in Threads, Step(t)
  PROVE  Reading(t)'
<1>1. Types /\ Reading(t)
  BY DEF IInv
<1>2. CASE Loading(t) \/ Reset(t)
  BY <1>2, LoadSucceeds
<1> SUFFICES ASSUME ~Loading(t), ~Reset(t)  PROVE Reading(t)'
  BY <1>2
<1>3. UNCHANGED fork /\ ~Loading(t)'
  BY <1>1, Readers DEF Reading
<1>4. CASE Read(t)
  <2>1. pc'[t] \in {"returned", "check", "extent"} /\ (pc'[t] = "extent" => ~Btree)
        /\ (pc'[t] = "check" => Btree)
    BY <1>1, <1>4, ReadAssumption DEF Read, Return, Goto, Types
  <2> QED  BY <1>1, <1>3, <2>1 DEF Reading, OverExtents, fork
<1>5. CASE CheckFlag(t)
  <2>1. pc'[t] \in {"extent", "reset"} /\ Btree /\ (pc'[t] = "extent" => loaded)
    BY <1>1, <1>5 DEF CheckFlag, Reading, Goto, Types
  <2> QED  BY <1>1, <1>3, <2>1 DEF Reading, OverExtents, fork
<1>6. CASE GetExt(t)
  <2>1. CASE Crash
    BY <1>1, <1>3, <1>6, <2>1 DEF GetExt, Crash, Reading, OverExtents, fork, fetch
  <2>2. CASE pc'[t] = "words" /\ ep'[t] = "current"
    BY <1>1, <1>3, <1>6, <2>2 DEF GetExt, Reading, OverExtents, fork
  <2> QED  BY <1>1, <1>6, <2>1, <2>2 DEF GetExt, Reading, Goto, Types
<1>7. CASE FirstWord(t)
  <2>1. PICK word \in Fetched(t) :
          \/ rec' = [rec EXCEPT ![t] = WithL0(@, word)] /\ Goto(t, "l1")
          \/ rec' = [rec EXCEPT ![t] = WithL1(@, word)] /\ Goto(t, "l0")
    BY <1>7 DEF FirstWord
  <2>2. pc[t] = "words" /\ extent' = extent /\ ep' = ep
    BY <1>7 DEF FirstWord
  <2>3. word = Records[extent[t]] /\ word \in Cells /\ rec[t] \in Cells
    BY <1>1, <2>2, <2>1, Decoded DEF Types
  <2>4. \/ pc'[t] = "l1" /\ rec'[t] = WithL0(rec[t], word)
        \/ pc'[t] = "l0" /\ rec'[t] = WithL1(rec[t], word)
    BY <1>1, <2>1 DEF Goto, Types
  <2>5. /\ pc'[t] = "l1" => rec'[t].br_startoff = word.br_startoff
        /\ pc'[t] = "l0" => /\ rec'[t].br_startblock = word.br_startblock
                            /\ rec'[t].br_blockcount = word.br_blockcount
    BY <2>3, <2>4 DEF WithL0, WithL1, Cells
  <2> QED  BY <1>1, <1>3, <2>2, <2>3, <2>4, <2>5 DEF Reading, OverExtents, fork
<1>8. CASE SecondWord(t) \/ CopyBlock(t) \/ Copied(t) \/ Finish(t) \/ Reply(t)
  <2>1. \/ pc'[t] \in {"extent", "copy"} /\ pc[t] \in OverExtents
        \/ pc'[t] \in {"returned", "idle"}
    BY <1>1, <1>8 DEF SecondWord, CopyBlock, Copied, Finish, Reply, Return, Goto, Types, OverExtents
  <2> QED  BY <1>1, <1>3, <2>1 DEF Reading, OverExtents, fork
<1> QED
  BY <1>1, <1>4, <1>5, <1>6, <1>7, <1>8
     DEF Step, Reading, Loading, LoadRaced, Add, Descend, Leaf, BadLeaf, PutL0, PutL1, Loaded,
         Free, Clear, Unflag, BadPointer

(* Another thread, where there is one, leaves the fork alone.               *)
LEMMA Aside ==
  ASSUME Undisturbed, IInv, TypeOK, \A u \in Threads : Reading(u),
         NEW t \in Threads, NEW u \in Threads \ {t}, Step(u)
  PROVE  /\ UNCHANGED fork
         /\ pc'[t] = pc[t] /\ offset'[t] = offset[t] /\ len'[t] = len[t] /\ r'[t] = r[t]
         /\ buffer'[t] = buffer[t] /\ extent'[t] = extent[t] /\ ep'[t] = ep[t]
         /\ rec'[t] = rec[t] /\ copying'[t] = copying[t]
<1>1. /\ ~Btree /\ Types /\ memory = "ok" /\ ~Loading(u) /\ pc[u] # "reset"
      /\ r = [x \in Threads |-> r[x]]
  BY DEF Undisturbed, IInv, Reading, TypeOK
<1>2. UNCHANGED fork
  BY <1>1, Readers DEF Reset
<1>3. CASE Read(u) \/ Reply(u)
  BY <1>1, <1>2, <1>3 DEF Read, Reply, Return, Goto, Types, fetch
<1>4. CASE CheckFlag(u) \/ GetExt(u) \/ BadPointer(u)
  BY <1>1, <1>2, <1>4 DEF CheckFlag, GetExt, BadPointer, Crash, Goto, Types, call, fetch
<1>5. CASE FirstWord(u)
  BY <1>1, <1>2, <1>5 DEF FirstWord, Goto, Types, call
<1>6. CASE SecondWord(u)
  BY <1>1, <1>2, <1>6 DEF SecondWord, Goto, Types, call
<1>7. CASE CopyBlock(u) \/ Copied(u) \/ Finish(u)
  BY <1>1, <1>2, <1>7 DEF CopyBlock, Copied, Finish, Return, Goto, Types, call, fetch
<1> QED  BY <1>1, <1>2, <1>3, <1>4, <1>5, <1>6, <1>7
            DEF Step, Loading, Reset, LoadRaced, Add, Descend, Leaf, BadLeaf, PutL0, PutL1, Loaded,
                Free, Clear, Unflag

LEMMA Readings ==
  ASSUME Undisturbed, ~LeafFails
  PROVE  Spec => [](\A t \in Threads : Reading(t))
<1> DEFINE RInv == \A t \in Threads : Reading(t)
<1>1. Init => RInv
  BY ReadAssumption DEF Init, Reading, OverExtents, Loading
<1>2. ASSUME IInv, TypeOK, Listed, RInv, [Next]_vars  PROVE RInv'
  <2>1. CASE UNCHANGED vars
    BY <1>2, <2>1 DEF Reading, Loading, vars, fork, fetch
  <2>2. ASSUME NEW u \in Threads, Step(u), NEW t \in Threads  PROVE Reading(t)'
    <3>1. CASE t = u
      BY <1>2, <2>2, <3>1, ReadingOn
    <3>2. CASE t # u
      <4>1. u \in Threads \ {t} /\ Reading(t)
        BY <1>2, <3>2
      <4>2. /\ UNCHANGED fork /\ pc'[t] = pc[t] /\ extent'[t] = extent[t]
            /\ ep'[t] = ep[t] /\ rec'[t] = rec[t]
        BY <1>2, <2>2, <4>1, Aside
      <4> QED  BY <4>1, <4>2 DEF Reading, Loading, fork
    <3> QED  BY <3>1, <3>2
  <2> QED  BY <1>2, <2>1, <2>2 DEF Next
<1>3. IInv /\ TypeOK /\ Listed /\ RInv /\ [Next]_vars => RInv'
  BY <1>2
<1> QED  BY <1>1, <1>3, Invariant, TypeCorrect, ListedAlways, PTL DEF Spec

-----------------------------------------------------------------------------
(* The bytes *)

(* Placed says that the blocks of an extent up to the last begin in the     *)
(* request; this says that the request has no byte of it beyond the last.   *)
Reaches(c, o, n) == \A p \in Nat : Holds(c.rec, p) /\ p < o + n => p < At(c.rec, c.end)

LEMMA HoldsBytes ==
  ASSUME NEW cell \in Items, NEW p \in Nat
  PROVE  /\ Bytes(cell.br_startoff) \in Nat /\ Bytes(cell.br_blockcount) \in Nat
         /\ Holds(cell, p) <=> /\ Bytes(cell.br_startoff) <= p
                               /\ p < Bytes(cell.br_startoff) + Bytes(cell.br_blockcount)
         /\ \A k \in Int : At(cell, k) = Bytes(cell.br_startoff) + Bytes(k) /\ Bytes(k) \in Int
<1>1. PICK a \in Nat, b \in Nat : a = cell.br_startoff /\ b = cell.br_blockcount
  BY Extents
<1>2. Bytes(a) \in Nat /\ Bytes(b) \in Nat
  BY Times
<1>3. ASSUME NEW k \in Int  PROVE At(cell, k) = Bytes(a) + Bytes(k) /\ Bytes(k) \in Int
  <2>1. PICK sum \in Int : sum = a + k
    OBVIOUS
  <2>2. Bytes(sum) = Bytes(a) + Bytes(k)
    BY <2>1, Distributes
  <2>3. At(cell, k) = Bytes(sum)
    BY <1>1, <2>1, Zenon DEF At, Bytes
  <2> QED  BY <2>2, <2>3, Times
<1>4. Holds(cell, p) <=> Bytes(a) <= p /\ p < Bytes(a) + Bytes(b)
  <2>1. (cell.br_startoff + cell.br_blockcount) * BlockSize = Bytes(a) + Bytes(b)
    <3>1. PICK sum \in Int : sum = a + b
      OBVIOUS
    <3>2. Bytes(sum) = Bytes(a) + Bytes(b)
      BY <3>1, Distributes
    <3> QED  BY <1>1, <3>1, <3>2, Zenon DEF Bytes
  <2>2. cell.br_startoff * BlockSize = Bytes(a)
    BY <1>1, Zenon DEF Bytes
  <2> QED  BY <2>1, <2>2, Zenon DEF Holds
<1> QED  BY <1>1, <1>2, <1>3, <1>4, Zenon

(* extent_overlaps_buffer misses no extent with a byte in the request. *)
LEMMA NoneMissed ==
  ASSUME NEW cell \in Items, NEW o \in Nat, NEW n \in Nat, NEW p \in Nat,
         o <= p, p < o + n, Holds(cell, p)
  PROVE  Overlaps(cell, o, n)
<1>1. PICK es \in Nat, size \in Nat :
        es = Bytes(cell.br_startoff) /\ size = Bytes(cell.br_blockcount)
  BY HoldsBytes
<1>2. es <= p /\ p < es + size
  BY <1>1, HoldsBytes, Zenon
<1>3. Overlaps(cell, o, n) <=> \/ es <= o /\ o < es + size
                               \/ o <= es /\ es < o + n
  BY <1>1, Zenon DEF Overlaps, StartsInside, Bytes
<1> QED  BY <1>2, <1>3

(* Copying starts no later than the first byte of the request the extent    *)
(* has, and goes on to the last.                                            *)
LEMMA StartCovers ==
  ASSUME NEW cell \in Items, NEW o \in Nat, NEW n \in Nat
  PROVE  /\ Reaches(CopyStart(cell, o, n), o, n)
         /\ \A p \in Nat : o <= p /\ Holds(cell, p) => At(cell, CopyStart(cell, o, n).block) <= p
<1> DEFINE c == CopyStart(cell, o, n)
<1>1. PICK es \in Nat, size \in Nat :
        es = Bytes(cell.br_startoff) /\ size = Bytes(cell.br_blockcount)
  BY HoldsBytes
<1>2. PICK x \in Int : x = o + n - es - 1
  OBVIOUS
<1>3. PICK q \in Int : q = x \div BlockSize
  BY Division
<1>4. /\ c.rec = cell
      /\ c.block = IF o >= es THEN (o - es) \div BlockSize ELSE 0
      /\ c.end = IF cell.br_blockcount < q + 1 THEN cell.br_blockcount ELSE q + 1
  <2>1. es = cell.br_startoff * BlockSize
    BY <1>1, Zenon DEF Bytes
  <2> QED  BY <1>2, <1>3, <2>1 DEF CopyStart
<1> HIDE DEF c
<1>5. \A p \in Nat : Holds(cell, p) <=> es <= p /\ p < es + size
  BY <1>1, HoldsBytes
<1>6. \A k \in Int : At(cell, k) = es + Bytes(k) /\ Bytes(k) \in Int
  <2>1. \A k \in Int : At(cell, k) = Bytes(cell.br_startoff) + Bytes(k) /\ Bytes(k) \in Int
    BY HoldsBytes
  <2> QED  BY <1>1, <2>1
<1>7. ASSUME NEW p \in Nat, Holds(cell, p), p < o + n  PROVE p < At(cell, c.end)
  <2>1. CASE cell.br_blockcount < q + 1
    <3>1. PICK b \in Nat : b = cell.br_blockcount
      BY Extents
    <3>2. At(cell, b) = es + Bytes(b) /\ Bytes(b) = size
      BY <1>1, <1>6, <3>1
    <3>3. c.end = b
      BY <1>4, <2>1, <3>1
    <3>4. p < At(cell, b)
      BY <1>5, <1>7, <3>2
    <3> QED  BY <3>3, <3>4, Zenon
  <2>2. CASE ~(cell.br_blockcount < q + 1)
    <3>1. PICK e \in Int : e = q + 1
      OBVIOUS
    <3>2. x < Bytes(q) + BlockSize
      BY <1>3, Division
    <3>3. Bytes(e) = Bytes(q) + BlockSize
      BY <3>1, NextBlock
    <3>4. At(cell, e) = es + Bytes(e) /\ Bytes(e) \in Int
      BY <1>6
    <3>5. p < At(cell, e)
      BY <1>2, <1>7, <3>2, <3>3, <3>4
    <3>6. c.end = e
      BY <1>4, <2>2, <3>1
    <3> QED  BY <3>5, <3>6, Zenon
  <2> QED  BY <2>1, <2>2
<1>8. ASSUME NEW p \in Nat, o <= p, Holds(cell, p)  PROVE At(cell, c.block) <= p
  <2>1. CASE o >= es
    <3>1. PICK y \in Int : y = o - es
      BY <1>1
    <3>2. PICK k \in Int : k = y \div BlockSize
      BY Division
    <3>3. Bytes(k) <= y
      BY <3>2, Division
    <3>4. At(cell, k) = es + Bytes(k) /\ Bytes(k) \in Int
      BY <1>6
    <3>5. At(cell, k) <= p
      BY <1>8, <3>1, <3>3, <3>4
    <3>6. c.block = k
      BY <1>4, <2>1, <3>1, <3>2
    <3> QED  BY <3>5, <3>6, Zenon
  <2>2. CASE ~(o >= es)
    <3>1. At(cell, 0) = es + Bytes(0) /\ Bytes(0) = 0
      BY <1>6, Sizes DEF Bytes
    <3>2. At(cell, 0) <= p
      BY <1>5, <1>8, <3>1
    <3>3. c.block = 0
      BY <1>4, <2>2
    <3> QED  BY <3>2, <3>3, Zenon
  <2> QED  BY <2>1, <2>2
<1>9. Reaches(c, o, n)
  <2>1. \A p \in Nat : Holds(c.rec, p) /\ p < o + n => p < At(c.rec, c.end)
    BY <1>4, <1>7, Zenon
  <2> QED  BY <2>1, Zenon DEF Reaches
<1> QED  BY <1>8, <1>9 DEF c

(* A piece is all of its block that lies in the request. *)
LEMMA PieceWhole ==
  ASSUME NEW c \in Pieces, NEW o \in Nat, NEW n \in Nat, Placed(c, o, n), c.block < c.end,
         NEW bs \in Nat, bs = At(c.rec, c.block),
         NEW p \in Nat, p < n, bs <= o + p, o + p < bs + BlockSize
  PROVE  p \in c.ptr .. c.ptr + Piece(c, o, n).copylen - 1
<1> DEFINE piece == Piece(c, o, n)
<1>1. BlockSize \in Nat /\ BlockSize > 0
  BY Sizes
<1>2. c.ptr = IF bs >= o THEN bs - o ELSE 0
  BY Zenon DEF Placed, InBuffer
<1>3. /\ piece.src = IF bs < o THEN o - bs ELSE 0
      /\ piece.copylen = IF bs + BlockSize > o + n THEN o + n - (bs + piece.src)
                         ELSE BlockSize - piece.src
  BY DEF Piece, At
<1> HIDE DEF piece
<1>4. PICK src \in Nat : src = piece.src
  BY <1>3
<1>5. c.ptr \in Int /\ piece.copylen \in Int /\ c.ptr <= p /\ p <= c.ptr + piece.copylen - 1
  BY <1>1, <1>2, <1>3, <1>4
<1> QED  BY <1>5 DEF piece

-----------------------------------------------------------------------------
(* The progress of a read *)

(* The request is cut at the end of the file and nowhere else. *)
Cut(t) ==
  pc[t] \notin {"idle", "returned"} =>
    /\ offset[t] < Size
    /\ \E n \in Nat \ {0} : /\ DOMAIN buffer[t] = 0 .. n - 1
                            /\ len[t] = Truncated(offset[t], n)

(* Position p of the file belongs to an extent that is done, or to a block *)
(* that is copied, of the one in work.                                     *)
Covered(t, p) ==
  \/ \E n \in 1 .. extent[t] - 1 : Holds(Records[n], p)
  \/ /\ pc[t] = "copy" /\ Holds(copying[t].rec, p)
     /\ p < At(copying[t].rec, copying[t].block)
Filled(t) ==
  \A p \in DOMAIN buffer[t] :
    p < len[t] /\ Covered(t, offset[t] + p) => buffer[t][p] = FileByte(offset[t] + p)

(* What ReadRight says of one thread. *)
Right(t) ==
  LET asked == Cardinality(DOMAIN buffer[t])
      left  == IF offset[t] < Size THEN Size - offset[t] ELSE 0
  IN /\ r[t] = IF asked < left THEN asked ELSE left
     /\ \A p \in DOMAIN buffer[t] : buffer[t][p] = FileByte(offset[t] + p)

(* The extent in work is the one in the list, up to the end of the request. *)
Chosen(t) ==
  copying[t].rec = Records[extent[t]] /\ Reaches(copying[t], offset[t], len[t])

(* What is in the buffer is the file's; where nothing was copied it is 0.   *)
OwnBytes(t) ==
  \A p \in DOMAIN buffer[t] : buffer[t][p] \in {0, FileByte(offset[t] + p)}

Progress(t) ==
  /\ Cut(t) /\ OwnBytes(t)
  /\ pc[t] \notin OverExtents \cup {"returned"} => extent[t] = 1
  /\ pc[t] = "copy" => Chosen(t)
  /\ pc[t] \in OverExtents => Filled(t)
  /\ Answered(t) => Right(t)

LEMMA ReadProgress ==
  ASSUME IInv, IInv', TypeOK, NEW t \in Threads, Progress(t), Read(t)
  PROVE  Progress(t)'
<1>1. Types /\ extent' = extent /\ extent[t] = 1 /\ pc[t] = "idle"
  BY DEF IInv, Progress, OverExtents, Read, fetch
<1>2. PICK request \in Requests :
        /\ offset' = [offset EXCEPT ![t] = request[1]]
        /\ buffer' = [buffer EXCEPT ![t] = [p \in 0 .. request[2] - 1 |-> 0]]
        /\ \/ PastEnd(request[1]) /\ Return(t, 0)
           \/ /\ ~PastEnd(request[1])
              /\ len' = [len EXCEPT ![t] = Truncated(request[1], request[2])]
              /\ Goto(t, "check") \/ Goto(t, "extent")
  BY DEF Read
<1>3. PICK o \in Nat, n \in Nat \ {0} : o = request[1] /\ n = request[2]
  BY ReadAssumption
<1>4. /\ offset'[t] = o /\ buffer'[t] = [p \in 0 .. n - 1 |-> 0] /\ extent'[t] = 1
      /\ OwnBytes(t)'
  <2>1. offset'[t] = o /\ buffer'[t] = [p \in 0 .. n - 1 |-> 0] /\ extent'[t] = 1
    BY <1>1, <1>2, <1>3 DEF Types
  <2> QED  BY <2>1 DEF OwnBytes
<1>5. CASE PastEnd(o) /\ Return(t, 0)
  <2>1. pc'[t] = "returned" /\ r'[t] = 0
    BY <1>1, <1>5 DEF Return, Goto, Types, TypeOK
  <2>2. o >= Size
    BY <1>5 DEF PastEnd
  <2>3. Cardinality(0 .. n - 1) = n
    BY FS_Interval
  <2>4. ASSUME NEW p \in 0 .. n - 1  PROVE FileByte(o + p) = 0
    <3>1. ~(o + p < Size)
      BY <2>2, Sizes
    <3> QED  BY <3>1 DEF FileByte
  <2>5. DOMAIN buffer'[t] = 0 .. n - 1 /\ ~(o < Size)
    BY <1>4, <2>2, Sizes
  <2>6. \A p \in DOMAIN buffer'[t] : buffer'[t][p] = FileByte(offset'[t] + p)
    BY <1>4, <2>4, <2>5
  <2>7. LET left == IF offset'[t] < Size THEN Size - offset'[t] ELSE 0
            asked == Cardinality(DOMAIN buffer'[t])
        IN  r'[t] = IF asked < left THEN asked ELSE left
    BY <1>4, <2>1, <2>3, <2>5
  <2>8. Right(t)'
    BY <2>6, <2>7 DEF Right
  <2> QED  BY <1>4, <2>1, <2>8 DEF Progress, Cut, OverExtents
<1>6. CASE /\ ~PastEnd(o) /\ len' = [len EXCEPT ![t] = Truncated(o, n)]
           /\ Goto(t, "check") \/ Goto(t, "extent")
  <2>1. len'[t] = Truncated(o, n) /\ pc'[t] \in {"check", "extent"} /\ o < Size
    BY <1>1, <1>6, Sizes DEF Goto, Types, PastEnd
  <2>2. Cut(t)'
    BY <1>4, <2>1 DEF Cut
  <2>3. Filled(t)'
    BY <1>4, <2>1 DEF Filled, Covered
  <2> QED  BY <1>4, <2>1, <2>2, <2>3 DEF Progress, Answered, OverExtents
<1> QED  BY <1>2, <1>3, <1>5, <1>6, Zenon

(* Loading the list and fetching a record leave the request alone.         *)
LEMMA StillProgress ==
  ASSUME IInv, NEW t \in Threads, Progress(t), UNCHANGED <<offset, len, buffer, extent>>,
         pc[t] \notin {"idle", "returned", "copy"},
         pc'[t] \notin {"idle", "returned", "copy"},
         pc[t] \in OverExtents => pc'[t] \in OverExtents
  PROVE  Progress(t)'
<1>1. Cut(t)' /\ OwnBytes(t)'
  BY DEF Progress, Cut, OwnBytes
<1>2. pc'[t] \in OverExtents => Filled(t)'
  <2>1. CASE pc[t] \in OverExtents
    BY <2>1 DEF Progress, Filled, Covered
  <2>2. CASE pc[t] \notin OverExtents
    <3>1. extent'[t] = 1 /\ pc'[t] # "copy"
      BY <2>2 DEF Progress
    <3> QED  BY <3>1 DEF Filled, Covered
  <2> QED  BY <2>1, <2>2
<1> QED  BY <1>1, <1>2 DEF Progress, Answered

LEMMA LoadProgress ==
  ASSUME IInv, NEW t \in Threads, Reading(t)', Progress(t),
         \/ CheckFlag(t) \/ Reset(t) \/ Add(t) \/ Descend(t) \/ Leaf(t) \/ PutL0(t)
         \/ PutL1(t) \/ Loaded(t) \/ GetExt(t) \/ FirstWord(t)
  PROVE  Progress(t)'
<1>1. Types
  BY DEF IInv
<1>2. CASE CheckFlag(t) \/ Reset(t) \/ Add(t) \/ Descend(t) \/ Leaf(t)
  BY <1>1, <1>2, StillProgress
     DEF CheckFlag, Reset, Add, Descend, Leaf, Crash, Goto, call, fetch, Types, OverExtents
<1>3. CASE PutL0(t) \/ PutL1(t) \/ Loaded(t) \/ GetExt(t) \/ FirstWord(t)
  BY <1>1, <1>3, StillProgress
     DEF PutL0, PutL1, Loaded, GetExt, FirstWord, Crash, Goto, call, fetch, Types, OverExtents
<1> QED  BY <1>2, <1>3

LEMMA ReplyProgress ==
  ASSUME IInv, NEW t \in Threads, Reply(t)
  PROVE  Progress(t)'
<1>1. pc'[t] = "idle" /\ extent'[t] = 1 /\ buffer'[t] = <<>>
  BY DEF IInv, Reply, Goto, Types
<1> QED  BY <1>1 DEF Progress, Cut, OwnBytes, Answered, OverExtents

LEMMA ExtentProgress ==
  ASSUME Undisturbed, IInv, IInv', Listed, \A u \in Threads : Reading(u),
         NEW t \in Threads, Progress(t), SecondWord(t)
  PROVE  Progress(t)'
<1> DEFINE cell == Records[extent[t]]
<1>1. /\ Types /\ pc[t] \in {"l0", "l1"} /\ extent[t] \in 1 .. nextents
      /\ cell \in Items
      /\ UNCHANGED <<offset, len, buffer>> /\ offset[t] \in Nat /\ len[t] \in Nat
      /\ nextents \in Nat
  BY RecordAt, Extents DEF IInv, Types, Pointing, SecondWord, call, OverExtents
<1>0. \/ /\ Overlaps(cell, offset[t], len[t])
         /\ copying' = [copying EXCEPT ![t] = CopyStart(cell, offset[t], len[t])]
         /\ Goto(t, "copy") /\ UNCHANGED extent
      \/ /\ ~Overlaps(cell, offset[t], len[t])
         /\ extent' = [extent EXCEPT ![t] = @ + 1] /\ Goto(t, "extent") /\ UNCHANGED copying
  <2>1. PICK word \in Fetched(t) :
          LET new == IF pc[t] = "l0" THEN WithL0(rec[t], word) ELSE WithL1(rec[t], word)
          IN IF Overlaps(new, offset[t], len[t])
             THEN /\ copying' = [copying EXCEPT ![t] = CopyStart(new, offset[t], len[t])]
                  /\ Goto(t, "copy") /\ UNCHANGED extent
             ELSE /\ extent' = [extent EXCEPT ![t] = @ + 1]
                  /\ Goto(t, "extent") /\ UNCHANGED copying
    BY DEF SecondWord
  <2>2. (IF pc[t] = "l0" THEN WithL0(rec[t], word) ELSE WithL1(rec[t], word)) = cell
    BY <1>1, <2>1, Decoded
  <2> HIDE DEF cell
  <2> QED  BY <2>1, <2>2
<1> HIDE DEF cell
<1>2. Cut(t) /\ Filled(t) /\ OwnBytes(t)'
  BY <1>1 DEF Progress, OwnBytes, OverExtents
<1>3. offset' = offset /\ len' = len /\ buffer' = buffer
  BY <1>1
<1>8. PICK m \in Nat : DOMAIN buffer[t] = 0 .. m - 1
  BY <1>1 DEF IInv, Requested
<1>5. CASE /\ ~Overlaps(cell, offset[t], len[t])
           /\ extent' = [extent EXCEPT ![t] = @ + 1] /\ Goto(t, "extent") /\ UNCHANGED copying
  <2>1. extent'[t] = extent[t] + 1 /\ pc'[t] = "extent"
    BY <1>1, <1>5 DEF Types, Goto
  <2>2. ASSUME NEW p \in DOMAIN buffer[t], p < len[t], Covered(t, offset[t] + p)'
        PROVE  Covered(t, offset[t] + p)
    <3>1. PICK n \in 1 .. extent[t] : Holds(Records[n], offset[t] + p)
      <4>1. extent'[t] - 1 = extent[t]
        BY <1>1, <2>1
      <4> QED  BY <1>3, <2>1, <2>2, <4>1 DEF Covered
    <3>2. n # extent[t]
      <4>0. p \in Nat /\ offset[t] \in Nat /\ len[t] \in Nat /\ p < len[t]
        BY <1>1, <1>8, <2>2
      <4>1. PICK at \in Nat : at = offset[t] + p /\ offset[t] <= at /\ at < offset[t] + len[t]
        BY <4>0
      <4>2. ~Holds(cell, at)
        BY <1>1, <1>5, <4>1, NoneMissed
      <4> QED  BY <3>1, <4>1, <4>2, Zenon DEF cell
    <3>3. n \in 1 .. extent[t] - 1
      BY <1>1, <3>1, <3>2
    <3> QED  BY <3>1, <3>3 DEF Covered
  <2>3. Filled(t)'
    BY <1>2, <1>3, <2>2 DEF Filled
  <2>4. Cut(t)'
    BY <1>1, <1>2, <1>3, <2>1 DEF Cut
  <2> QED  BY <1>2, <2>1, <2>3, <2>4 DEF Progress, Answered, OverExtents
<1>6. CASE /\ Overlaps(cell, offset[t], len[t])
           /\ copying' = [copying EXCEPT ![t] = CopyStart(cell, offset[t], len[t])]
           /\ Goto(t, "copy") /\ UNCHANGED extent
  <2>1. /\ copying'[t] = CopyStart(cell, offset[t], len[t]) /\ pc'[t] = "copy"
        /\ extent' = extent
    BY <1>1, <1>6 DEF Goto, Types
  <2>2. copying'[t].rec = cell
    BY <2>1 DEF CopyStart
  <2>3. /\ Reaches(copying'[t], offset[t], len[t])
        /\ \A p \in Nat : offset[t] <= p /\ Holds(cell, p) => At(cell, copying'[t].block) <= p
    BY <1>1, <2>1, StartCovers
  <2>4. Chosen(t)'
    BY <1>3, <2>1, <2>2, <2>3 DEF Chosen, cell
  <2>5. ASSUME NEW p \in DOMAIN buffer[t], Covered(t, offset[t] + p)'
        PROVE  Covered(t, offset[t] + p)
    <3>1. PICK at \in Nat : at = offset[t] + p /\ offset[t] <= at
      <4>1. p \in Nat
        BY <1>8, <2>5
      <4>2. offset[t] \in Nat
        BY <1>1
      <4> QED  BY <4>1, <4>2
    <3>2. offset'[t] = offset[t] /\ extent'[t] = extent[t]
      BY <1>3, <2>1
    <3>3. Covered(t, at)'
      BY <2>5, <3>1, <3>2, Zenon
    <3>4. \/ \E n \in 1 .. extent[t] - 1 : Holds(Records[n], at)
          \/ Holds(cell, at) /\ at < At(cell, copying'[t].block)
      BY <2>1, <2>2, <3>2, <3>3, Zenon DEF Covered
    <3>5. ASSUME Holds(cell, at), at < At(cell, copying'[t].block)  PROVE FALSE
      <4>1. At(cell, copying'[t].block) <= at
        BY <2>3, <3>1, <3>5
      <4>2. copying'[t].block \in Int
        BY DEF IInv, Types, Pieces
      <4>3. At(cell, copying'[t].block) \in Int
        BY <1>1, <4>2, <3>1, HoldsBytes
      <4> QED  BY <3>5, <4>1, <4>3
    <3> QED  BY <3>1, <3>4, <3>5, Zenon DEF Covered
  <2>6. Filled(t)'
    BY <1>2, <1>3, <2>5 DEF Filled
  <2>7. Cut(t)'
    BY <1>1, <1>2, <1>3, <2>1 DEF Cut
  <2> QED  BY <1>2, <2>1, <2>4, <2>6, <2>7 DEF Progress, Answered, OverExtents
<1> QED  BY <1>0, <1>5, <1>6

LEMMA BlockProgress ==
  ASSUME Undisturbed, Unwritten = {}, IInv, IInv', TypeOK, Listed,
         \A u \in Threads : Reading(u), NEW t \in Threads, Progress(t), CopyBlock(t)
  PROVE  Progress(t)'
<1> DEFINE c == copying[t]
           o == offset[t]
           n == len[t]
           piece == Piece(c, o, n)
           from == (c.rec.br_startblock + c.block) * BlockSize + piece.src
           d == [c EXCEPT !.block = @ + 1,
                          !.ptr = @ + IF piece.copylen > 0 THEN piece.copylen ELSE 0]
<1>1. /\ Types /\ Requested(t) /\ Copying(t) /\ OwnBytes(t)
      /\ pc[t] = "copy" /\ c.block < c.end /\ offset' = offset /\ len' = len
  BY DEF IInv, CopyBlock, Progress
<1>2. /\ c \in Pieces /\ o \in Nat /\ n \in Nat /\ o + n <= Size /\ n > 0
      /\ Placed(c, o, n) /\ Cut(t) /\ Filled(t) /\ Chosen(t)
      /\ extent[t] <= nextents
  BY <1>1 DEF Types, Requested, Copying, Progress, OverExtents
<1>3. c.rec \in Items /\ c.rec = Records[extent[t]] /\ c.block \in Nat
  BY <1>1, <1>2, RecordAt DEF Chosen, Pieces, OverExtents
<1>4. CASE Return(t, -EIO) /\ UNCHANGED <<buffer, copying, extent>>
  <2>1. pc'[t] = "returned" /\ r'[t] = -EIO /\ OwnBytes(t)'
    BY <1>1, <1>4 DEF Return, Goto, Types, TypeOK, OwnBytes
  <2> QED  BY <2>1 DEF Progress, Cut, Answered, OverExtents, EIO
<1>5. CASE /\ buffer' = [buffer EXCEPT ![t] = Written(@, c.ptr, from, piece.copylen)]
           /\ copying' = [copying EXCEPT ![t] = d]
           /\ UNCHANGED <<pc, r, extent>>
  <2>1. /\ buffer'[t] = Written(buffer[t], c.ptr, from, piece.copylen)
        /\ copying'[t] = d /\ pc'[t] = "copy" /\ extent' = extent
    BY <1>1, <1>5 DEF Types
  <2>2. d.rec = c.rec /\ d.end = c.end /\ d.block = c.block + 1
    BY <1>2 DEF Pieces
  <2>3. DOMAIN buffer'[t] = DOMAIN buffer[t]
    BY CopySound
  <2>4. PICK m \in Nat : DOMAIN buffer[t] = 0 .. m - 1
    BY <1>1 DEF Requested
  <2>5. \A p \in c.ptr .. c.ptr + piece.copylen - 1 : from + (p - c.ptr) = FileByte(o + p)
    <3> HIDE DEF c, o, n
    <3>1. c.block < c.end
      BY <1>1
    <3>2. ASSUME NEW p \in c.ptr .. c.ptr + Piece(c, o, n).copylen - 1
          PROVE  (c.rec.br_startblock + c.block) * BlockSize + Piece(c, o, n).src + (p - c.ptr)
                   = FileByte(o + p)
      BY <1>2, <1>3, <3>1, PieceRight
    <3> QED  BY <3>2, Zenon
  <2>6. PICK bs \in Nat : bs = At(c.rec, c.block) /\ At(c.rec, c.block + 1) = bs + BlockSize
    <3>1. PICK k \in Nat : k = c.block
      BY <1>3, Zenon
    <3>2. PICK k1 \in Nat : k1 = k + 1
      OBVIOUS
    <3>3. k1 = c.block + 1
      BY <3>1, <3>2, Zenon
    <3>4. /\ At(c.rec, k) = Bytes(c.rec.br_startoff) + Bytes(k)
          /\ At(c.rec, k1) = Bytes(c.rec.br_startoff) + Bytes(k1)
          /\ Bytes(c.rec.br_startoff) \in Nat
      BY <1>2, <1>3, HoldsBytes
    <3>5. Bytes(k1) = Bytes(k) + BlockSize /\ Bytes(k) \in Int /\ Bytes(k) >= 0
      BY <3>2, NextBlock, Times
    <3>6. PICK s \in Nat, b \in Nat, b1 \in Nat :
            /\ s = Bytes(c.rec.br_startoff) /\ b = Bytes(k) /\ b1 = Bytes(k1)
            /\ b1 = b + BlockSize
      BY <3>4, <3>5, Sizes
    <3>7. PICK bs \in Nat : bs = s + b /\ s + b1 = bs + BlockSize
      BY <3>6, Sizes
    <3>8. At(c.rec, c.block) = bs /\ At(c.rec, c.block + 1) = s + b1
      BY <3>1, <3>3, <3>4, <3>6, <3>7, Zenon
    <3> QED  BY <3>7, <3>8, Zenon
  <2> HIDE DEF c, o, n, piece, from, d
  <2>7. ASSUME NEW p \in DOMAIN buffer[t], p < n, Covered(t, o + p)'
        PROVE  buffer'[t][p] = FileByte(o + p)
    <3>1. CASE p \in c.ptr .. c.ptr + piece.copylen - 1
      BY <2>1, <2>5, <3>1 DEF Written
    <3>2. CASE p \notin c.ptr .. c.ptr + piece.copylen - 1
      <4>1. buffer'[t][p] = buffer[t][p]
        BY <2>1, <2>7, <3>2 DEF Written
      <4>2. p \in Nat /\ o + p \in Nat
        BY <1>2, <2>4
      <4>3. ~(bs <= o + p /\ o + p < bs + BlockSize)
        <5> SUFFICES ASSUME bs <= o + p, o + p < bs + BlockSize
                     PROVE  p \in c.ptr .. c.ptr + piece.copylen - 1
          BY <3>2
        <5>1. p \in c.ptr .. c.ptr + Piece(c, o, n).copylen - 1
          <6>1. c.block < c.end
            BY <1>1 DEF c
          <6> QED  BY <1>2, <2>6, <2>7, <4>2, <6>1, PieceWhole
        <5> QED  BY <5>1, Zenon DEF piece
      <4>4. \/ \E k \in 1 .. extent[t] - 1 : Holds(Records[k], o + p)
            \/ Holds(c.rec, o + p) /\ o + p < bs + BlockSize
        BY <1>1, <2>1, <2>2, <2>6, <2>7, Zenon DEF Covered, o
      <4>5. o + p < bs + BlockSize => o + p < bs
        BY <2>6, <4>2, <4>3
      <4>6. Covered(t, o + p)
        BY <1>1, <2>6, <4>4, <4>5, Zenon DEF Covered, c
      <4>7. buffer[t][p] = FileByte(o + p)
        BY <1>2, <2>7, <4>6 DEF Filled, o, n
      <4> QED  BY <4>1, <4>7
    <3> QED  BY <3>1, <3>2
  <2>8. Filled(t)'
    BY <1>1, <2>3, <2>7 DEF Filled, o, n
  <2>11. OwnBytes(t)'
    <3> SUFFICES ASSUME NEW p \in DOMAIN buffer[t]
                 PROVE  buffer'[t][p] \in {0, FileByte(o + p)}
      BY <1>1, <2>3 DEF OwnBytes, o
    <3>1. CASE p \in c.ptr .. c.ptr + piece.copylen - 1
      BY <2>1, <2>5, <3>1 DEF Written
    <3>2. CASE p \notin c.ptr .. c.ptr + piece.copylen - 1
      <4>1. buffer'[t][p] = buffer[t][p]
        BY <2>1, <3>2 DEF Written
      <4> QED  BY <1>1, <4>1 DEF OwnBytes, o
    <3> QED  BY <3>1, <3>2
  <2>9. Chosen(t)'
    <3>1. Reaches(d, o, n)
      BY <1>2, <2>2, Zenon DEF Chosen, Reaches, c, o, n
    <3> QED  BY <1>1, <1>3, <2>1, <2>2, <3>1 DEF Chosen, o, n
  <2>10. Cut(t)'
    BY <1>1, <1>2, <2>1, <2>3 DEF Cut
  <2> QED  BY <2>1, <2>8, <2>9, <2>10, <2>11 DEF Progress, Answered, OverExtents
<1> QED  BY <1>4, <1>5 DEF CopyBlock, fetch

LEMMA CopiedProgress ==
  ASSUME Undisturbed, IInv, IInv', Listed, \A u \in Threads : Reading(u),
         NEW t \in Threads, Progress(t), Copied(t)
  PROVE  Progress(t)'
<1> DEFINE c == copying[t]
           cell == Records[extent[t]]
<1>1. /\ Types /\ Requested(t) /\ Copying(t) /\ pc[t] = "copy" /\ c.block >= c.end
      /\ offset' = offset /\ len' = len /\ buffer' = buffer
  BY DEF IInv, Copied, call
<1>0. OwnBytes(t)'
  BY <1>1 DEF Progress, OwnBytes
<1>2. /\ c \in Pieces /\ offset[t] \in Nat /\ len[t] \in Nat /\ Cut(t) /\ Filled(t)
      /\ extent[t] \in 1 .. nextents /\ nextents \in Nat
      /\ c.rec = cell /\ Reaches(c, offset[t], len[t]) /\ cell \in Items
  BY <1>1, RecordAt, Extents DEF Types, Copying, Progress, Chosen, OverExtents
<1>3. extent'[t] = extent[t] + 1 /\ pc'[t] = "extent"
  BY <1>1 DEF Copied, Goto, Types
<1>4. PICK m \in Nat : DOMAIN buffer[t] = 0 .. m - 1
  BY <1>1 DEF Requested
<1>5. PICK e \in Int, k \in Int : e = c.end /\ k = c.block /\ e <= k
  BY <1>1, <1>2 DEF Pieces
<1> HIDE DEF c, cell
<1>6. ASSUME NEW p \in DOMAIN buffer[t], p < len[t], Covered(t, offset[t] + p)'
      PROVE  Covered(t, offset[t] + p)
  <2>1. PICK x \in 1 .. extent[t] : Holds(Records[x], offset[t] + p)
    <3>1. extent'[t] - 1 = extent[t]
      BY <1>2, <1>3
    <3> QED  BY <1>1, <1>3, <1>6, <3>1 DEF Covered
  <2>2. CASE x = extent[t]
    <3>1. PICK at \in Nat : at = offset[t] + p /\ at < offset[t] + len[t]
      BY <1>2, <1>4, <1>6
    <3>2. Holds(cell, at)
      BY <2>1, <2>2, <3>1, Zenon DEF cell
    <3>3. at < At(cell, e)
      BY <1>2, <1>5, <3>1, <3>2, Zenon DEF Reaches
    <3>4. /\ At(cell, e) = Bytes(cell.br_startoff) + Bytes(e)
          /\ At(cell, k) = Bytes(cell.br_startoff) + Bytes(k)
          /\ Bytes(e) \in Int /\ Bytes(k) \in Int /\ Bytes(cell.br_startoff) \in Nat
      BY <1>2, <3>1, HoldsBytes
    <3>5. Bytes(e) <= Bytes(k)
      BY <1>5, Monotone
    <3>6. at < At(cell, k)
      BY <3>1, <3>3, <3>4, <3>5
    <3> QED  BY <1>1, <1>2, <1>5, <3>1, <3>2, <3>6, Zenon DEF Covered, c
  <2>3. CASE x # extent[t]
    <3>1. x \in 1 .. extent[t] - 1
      BY <1>2, <2>3
    <3> QED  BY <2>1, <3>1 DEF Covered
  <2> QED  BY <2>2, <2>3
<1>7. Filled(t)'
  BY <1>1, <1>2, <1>6 DEF Filled
<1> QED  BY <1>0, <1>1, <1>2, <1>3, <1>7 DEF Progress, Cut, Answered, OverExtents

LEMMA FinishProgress ==
  ASSUME Unwritten = {}, IInv, TypeOK, NEW t \in Threads, Progress(t), Finish(t)
  PROVE  Progress(t)'
<1>1. /\ Types /\ OwnBytes(t) /\ Cut(t) /\ Filled(t) /\ pc[t] = "extent"
      /\ extent[t] > nextents /\ UNCHANGED <<offset, len, buffer>>
  BY DEF IInv, Finish, Progress, OverExtents
<1>2. pc'[t] = "returned" /\ r'[t] = len[t]
  BY <1>1 DEF Finish, Return, Goto, Types, TypeOK
<1>3. PICK n \in Nat \ {0}, o \in Nat :
        /\ DOMAIN buffer[t] = 0 .. n - 1 /\ len[t] = Truncated(o, n)
        /\ o = offset[t] /\ o < Size
  BY <1>1 DEF Cut, Types
<1>4. len[t] = (IF n < Size - o THEN n ELSE Size - o) /\ Size \in Nat
  BY <1>3, Sizes DEF Truncated
<1>5. Cardinality(0 .. n - 1) = n
  BY FS_Interval
<1>6. extent[t] - 1 = nextents
  <2>1. nextents \in Nat /\ extent[t] \in 1 .. nextents + 1
    BY <1>1, Extents DEF Types
  <2> QED  BY <1>1, <2>1
<1>7. ASSUME NEW p \in DOMAIN buffer[t]  PROVE buffer[t][p] = FileByte(o + p)
  <2>1. p \in Nat /\ p < n
    BY <1>3
  <2>2. CASE ~(o + p < Size)
    <3>1. FileByte(o + p) = 0
      BY <2>2 DEF FileByte
    <3> QED  BY <1>1, <1>3, <3>1 DEF OwnBytes
  <2>3. CASE ~Mapped(o + p)
    <3>1. FileByte(o + p) = 0
      BY <2>3 DEF FileByte
    <3> QED  BY <1>1, <1>3, <3>1 DEF OwnBytes
  <2>4. CASE o + p < Size /\ Mapped(o + p)
    <3>1. p < len[t]
      BY <1>3, <1>4, <2>1, <2>4
    <3>2. PICK x \in DOMAIN Records : Holds(Records[x], o + p)
      BY <2>4 DEF Mapped, OnDisk
    <3>3. x \in 1 .. nextents
      BY <3>2, ReadAssumption DEF nextents
    <3>4. Covered(t, o + p)
      BY <1>6, <3>2, <3>3 DEF Covered
    <3> QED  BY <1>1, <1>3, <3>1, <3>4 DEF Filled
  <2> QED  BY <2>2, <2>3, <2>4
<1>8. Right(t)'
  BY <1>1, <1>2, <1>3, <1>4, <1>5, <1>7 DEF Right
<1>9. OwnBytes(t)'
  BY <1>1 DEF OwnBytes
<1> QED  BY <1>2, <1>8, <1>9 DEF Progress, Cut, OverExtents

LEMMA Progressing ==
  ASSUME Undisturbed, ~LeafFails, Unwritten = {}
  PROVE  Spec => [](\A t \in Threads : Progress(t))
<1> DEFINE RInv == \A t \in Threads : Reading(t)
           PInv == \A t \in Threads : Progress(t)
<1>1. Init => PInv
  BY DEF Init, Progress, Cut, OwnBytes, Answered, OverExtents
<1>2. ASSUME IInv, IInv', TypeOK, Listed, RInv, RInv', PInv, [Next]_vars  PROVE PInv'
  <2>1. ASSUME NEW t \in Threads, Step(t)  PROVE Progress(t)'
    <3>2. Reading(t) /\ Reading(t)' /\ Progress(t) /\ Types
      BY <1>2 DEF IInv
    <3>3. CASE Read(t)
      BY <1>2, <3>2, <3>3, ReadProgress
    <3>4. CASE \/ CheckFlag(t) \/ Reset(t) \/ Add(t) \/ Descend(t) \/ Leaf(t) \/ PutL0(t)
               \/ PutL1(t) \/ Loaded(t) \/ GetExt(t) \/ FirstWord(t)
      BY <1>2, <3>2, <3>4, LoadProgress
    <3>5. CASE SecondWord(t)
      BY <1>2, <3>2, <3>5, ExtentProgress
    <3>6. CASE CopyBlock(t)
      BY <1>2, <3>2, <3>6, BlockProgress
    <3>7. CASE Copied(t)
      BY <1>2, <3>2, <3>7, CopiedProgress
    <3>8. CASE Finish(t)
      BY <1>2, <3>2, <3>8, FinishProgress
    <3>9. CASE Reply(t)
      BY <1>2, <3>9, ReplyProgress
    <3>10. ~LoadRaced(t) /\ ~BadPointer(t) /\ ~Free(t) /\ ~Clear(t) /\ ~Unflag(t)
      BY <3>2 DEF Reading, LoadRaced, BadPointer, Free, Clear, Unflag
    <3>11. ~BadLeaf(t)
      <4> SUFFICES ASSUME BadLeaf(t)  PROVE FALSE
        OBVIOUS
      <4>1. pc'[t] = "destroy"
        BY <3>2 DEF BadLeaf, Goto, Types
      <4> QED  BY <3>2, <4>1 DEF Reading
    <3> QED
      BY <2>1, <3>3, <3>4, <3>5, <3>6, <3>7, <3>8, <3>9, <3>10, <3>11 DEF Step
  <2>2. ASSUME NEW u \in Threads, Step(u), NEW t \in Threads, t # u  PROVE Progress(t)'
    <3>1. u \in Threads \ {t} /\ Progress(t)
      BY <1>2, <2>2
    <3>2. /\ pc'[t] = pc[t] /\ offset'[t] = offset[t] /\ len'[t] = len[t] /\ r'[t] = r[t]
          /\ buffer'[t] = buffer[t] /\ extent'[t] = extent[t] /\ copying'[t] = copying[t]
      BY <1>2, <2>2, <3>1, Aside
    <3> QED
      BY <3>1, <3>2
         DEF Progress, Cut, OwnBytes, Chosen, Reaches, Filled, Covered, Answered, Right
  <2>3. CASE UNCHANGED vars
    <3> SUFFICES ASSUME NEW t \in Threads  PROVE Progress(t)'
      OBVIOUS
    <3>1. UNCHANGED <<pc, offset, len, r, buffer, extent, copying>> /\ Progress(t)
      BY <1>2, <2>3 DEF vars, call, fetch
    <3> QED
      BY <3>1 DEF Progress, Cut, OwnBytes, Chosen, Reaches, Filled, Covered, Answered, Right
  <2> QED  BY <1>2, <2>1, <2>2, <2>3 DEF Next
<1>3. /\ IInv /\ IInv' /\ TypeOK /\ Listed /\ RInv /\ RInv' /\ PInv /\ [Next]_vars
      => PInv'
  BY <1>2
<1> QED  BY <1>1, <1>3, Invariant, TypeCorrect, ListedAlways, Readings, PTL DEF Spec

(* An answer is exactly the part of the file that was asked for, up to its  *)
(* end, and 0 for the holes, wherever the ends of the request and of the    *)
(* file lie in blocks and extents, and whatever reads of the device failed  *)
(* before: xfs_readfile_extents skips no extent with a byte of it,          *)
(* copy_extent_to_buffer no block, and what it copies of a block is all     *)
(* that is asked for.  So it is for one thread, and for any number if the   *)
(* list was read with the inode (the extents format); not with corrupt      *)
(* leaves (the error is taken for an answer), unwritten extents (their      *)
(* blocks are copied) or two threads over a btree (they load at once).      *)
THEOREM ReadsRight ==
  ASSUME Undisturbed, ~LeafFails, Unwritten = {}  PROVE Spec => []ReadRight
<1>1. (\A t \in Threads : Progress(t)) => ReadRight
  BY DEF Progress, Right, ReadRight
<1> QED  BY <1>1, Progressing, PTL
=============================================================================
