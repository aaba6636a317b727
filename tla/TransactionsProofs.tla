-------------------------- MODULE TransactionsProofs --------------------------
(***************************************************************************)
(* Theorems about Transactions, for a program in which iflush_int does not *)
(* fail (~FlushFails).  The invariant is built in layers, each proved with *)
(* the ones before it:                                                     *)
(*   BInv         the buffer cache as its one user leaves it: where the    *)
(*                call under way is, at most one buffer for a block, and a *)
(*                count of exactly the references the caller holds;        *)
(*   InChunks     the descriptor chunks: no item twice, nothing beyond the *)
(*                unused mark, and free slots that add up;                 *)
(*   Joins        what is joined, held and logged, and the two back        *)
(*                pointers of an item, agree with the descriptors.         *)
(* IInv is these and the types, and is enough for the counts.  What the    *)
(* buffers and the disk contain takes three layers more:                   *)
(*   Invalidated  what the log item of a freed block's buffer says (no     *)
(*                dirty transaction is cancelled);                         *)
(*   UpToDate     a buffer has the last version logged of its block, and   *)
(*                so has the disk unless a buffer is still to write it     *)
(*                (nor does a write fail);                                 *)
(*   Flushed      an inode still to be flushed has fields to flush.        *)
(* The last two split the steps of the system by what they do to contents: *)
(* nothing (Frame), a read, a write, a log, an invalidation or a commit.   *)
(***************************************************************************)
EXTENDS Transactions, FiniteSetTheorems, SequenceTheorems, WellFoundedInduction, TLAPS

-----------------------------------------------------------------------------
(* The inductive invariant *)

Things == Bufs \cup Inodes
Values == Blocks \X (0 .. MaxVersion)
Chunk == [slots : [Slots -> Things \cup {None}], unused : 0 .. NumSlots]
Item == [flags : SUBSET {"HOLD", "DIRTY", "STALE"}, recur : 0 .. MaxRecur]
Ili == [fields : BOOLEAN, hold : BOOLEAN]
Using == {"insert", "lock", "read", "return"}
Calling == {"search", "allocate"} \cup Using

\* The ranges of the variables of BufferCache, for one thread.
BufferTypes ==
  /\ disk \in [Blocks -> Values \cup {None}] /\ version \in [Blocks -> 0 .. MaxVersion]
  /\ chain \subseteq Bufs \X Bufs /\ freelist \subseteq Bufs
  /\ blkno \in [Bufs -> Blocks \cup {None}] /\ data \in [Bufs -> Values \cup {None}]
  /\ flags \in [Bufs -> SUBSET {"UPTODATE", "DIRTY"}] /\ refs \in [Bufs -> Nat]
  /\ lock \in [Bufs -> Threads \cup {None}] /\ held \in [Threads -> SUBSET Bufs]
  /\ pc \in [Threads -> Calling \cup {"idle", "release"}]
  /\ want \in [Threads -> Blocks \cup {None}]
  /\ op \in [Threads -> {"get", "read", "purge", None}]
  /\ cur \in [Threads -> Bufs \cup {None}]
  /\ taken \in [Threads -> SUBSET Bufs] /\ todo \in [Threads -> SUBSET Bufs]

\* The ranges of the variables of Transactions, the chunks aside.
TransTypes ==
  /\ open \in BOOLEAN /\ tdirty \in BOOLEAN /\ trans \in BOOLEAN
  /\ item \in [Bufs -> Item \cup {None}] /\ joined \subseteq Bufs /\ freed \subseteq Blocks
  /\ ili \in [Inodes -> Ili \cup {None}] /\ itransp \subseteq Inodes
  /\ iref \in [Inodes -> Nat] /\ mine \subseteq Things /\ unflushed \subseteq Inodes

\* A call for a block.
Asking == pc[T] \in Calling \/ (pc[T] = "release" /\ op[T] # "purge")
InUse(b) == pc[T] \in Using /\ b = cur[T]

\* Where the call under way is, and what it has in hand there.
Called ==
  /\ Asking =>
       /\ want[T] \in Blocks /\ op[T] \in {"get", "read"} /\ (trans <=> open)
       /\ \A b \in held[T] : blkno[b] # want[T]
  /\ pc[T] \in {"allocate", "insert"} => \A b \in Cached : blkno[b] # want[T]
  /\ pc[T] \in Using => cur[T] \in Bufs /\ blkno[cur[T]] = want[T]
  /\ pc[T] = "insert" =>
       cur[T] \notin Cached \cup freelist /\ flags[cur[T]] = {}
  /\ pc[T] \in {"lock", "read", "return"} => cur[T] \in Cached
  /\ pc[T] = "read" => ~Valid(cur[T])
  /\ pc[T] # "release" => taken[T] = {}
  /\ todo[T] \subseteq taken[T]

\* The hash table has at most one buffer of a block.
Placed ==
  /\ chain \subseteq Cached \X Cached
  /\ \A b, c \in Cached : b # c => (<<b, c>> \in chain <=> <<c, b>> \notin chain)
  /\ Cached \cap freelist = {} /\ Cached \cap taken[T] = {} /\ freelist \cap taken[T] = {}
  /\ \A b \in Cached \cup taken[T] : blkno[b] \in Blocks
  /\ \A b, c \in Cached \cup todo[T] : blkno[b] = blkno[c] => b = c

\* A buffer has a reference while the caller holds it or is being given it.
Counted ==
  /\ held[T] \subseteq Cached
  /\ \A b \in Bufs : refs[b] = IF b \in held[T] \/ InUse(b) THEN 1 ELSE 0

BInv == BufferTypes /\ Called /\ Placed /\ Counted

\* No descriptor stands for the item of another.
Unique == \A d, e \in Descriptors :
  chunks[d[1]].slots[d[2]] = chunks[e[1]].slots[e[2]] => d = e
InChunks ==
  /\ chunks \in Seq(Chunk) /\ chunks # <<>> /\ Unique /\ free \in Int
  /\ \A n \in DOMAIN chunks : \A s \in Slots :
       s > chunks[n].unused => chunks[n].slots[s] = None
  /\ free + Cardinality(Listed) = NumSlots * Len(chunks)

\* An item is marked held exactly when the caller keeps the buffer.
JoinedBuf(b) ==
  IF b \in joined
  THEN item[b] \in Item /\ ("HOLD" \in item[b].flags <=> b \in mine)
  ELSE item[b] # None => "HOLD" \notin item[b].flags
JoinedInode(i) ==
  /\ iref[i] = IF i \in mine \cup itransp THEN 1 ELSE 0
  /\ IF i \in itransp
     THEN ili[i] \in Ili /\ (ili[i].hold <=> i \in mine)
     ELSE ili[i] # None => ~ili[i].hold

\* The transaction, the caller and the items agree on what is joined.
Joins ==
  /\ Listed = joined \cup itransp
  /\ logged \subseteq Listed /\ (logged # {} => tdirty)
  /\ ~open => joined = {} /\ itransp = {} /\ ~tdirty
  /\ held[T] = (mine \cap Bufs) \cup joined
  /\ \A b \in Bufs : JoinedBuf(b)
  /\ \A i \in Inodes : JoinedInode(i)

IInv == BInv /\ TransTypes /\ InChunks /\ Joins

\* What a buffer's log item says of its contents.
Core(b) == IF item[b] = None THEN {} ELSE item[b].flags \cap {"DIRTY", "STALE"}
\* The buffers that answer for a block: the cached ones and those a purge has yet to write.
Live == Cached \cup todo[T]

\* A freed block is written by no item and no cached buffer.
Invalidated ==
  /\ \A b \in Bufs : Core(b) # {} => b \in logged
  /\ \A b \in Bufs : "STALE" \in Core(b) => blkno[b] \in freed /\ "DIRTY" \notin Core(b)
  /\ \A b \in Bufs : "DIRTY" \in Core(b) => blkno[b] \notin freed
  /\ \A b \in Live : blkno[b] \in freed => "DIRTY" \notin flags[b]

ToWriteOut(b) == "DIRTY" \in flags[b] \cup Core(b)
ToBeWritten(k) == \E b \in Live : blkno[b] = k /\ data[b] = Latest(k) /\ ToWriteOut(b)
\* The last version logged of a block is on disk or in a buffer to be written.
UpToDate ==
  /\ \A b \in Live : Valid(b) /\ blkno[b] \notin freed => data[b] = Latest(blkno[b])
  /\ \A b \in Bufs : "DIRTY" \in Core(b) => data[b] = Latest(blkno[b])
  /\ \A k \in Blocks \ freed : disk[k] = Latest(k) \/ ToBeWritten(k)

\* An inode that is still to be flushed is logged and says so.
Flushed ==
  /\ unflushed \subseteq logged
  /\ \A i \in unflushed : ili[i].fields

-----------------------------------------------------------------------------
(* The constants *)

\* There is one thread.
LEMMA OneThread == T \in Threads /\ Threads = {T}
<1>1. PICK t : Threads = {t}
  BY FS_Singleton, BufferAssumption, TransactionAssumption
<1> QED  BY <1>1 DEF T

\* There are n numbers from 1 to n.
LEMMA NumbersTo ==
  ASSUME NEW n \in Nat
  PROVE  IsFiniteSet(1 .. n) /\ Cardinality(1 .. n) = n
<1>1. 1 \in Int /\ n \in Int
  OBVIOUS
<1>2. IsFiniteSet(1 .. n) /\ Cardinality(1 .. n) = IF 1 > n THEN 0 ELSE n - 1 + 1
  BY <1>1, FS_Interval
<1> QED  BY <1>2

\* The slots of a chunk.
LEMMA SlotsFact ==
  /\ IsFiniteSet(Slots) /\ Cardinality(Slots) = NumSlots
  /\ NumSlots \in Nat \ {0} /\ 1 \in Slots /\ Slots \subseteq Nat
BY FS_Interval, TransactionAssumption DEF Slots

\* There are finitely many buffers and inodes.
LEMMA ThingsFact ==
  IsFiniteSet(Things) /\ None \notin Things /\ Bufs \cap Inodes = {}
BY FS_Union, BufferAssumption, TransactionAssumption DEF Things

\* A set of slots, or of chunks, that is not empty has a smallest member.
LEMMA LeastFact ==
  ASSUME NEW S, S \subseteq Nat, S # {}
  PROVE  Least(S) \in S
<1> DEFINE Less == {ss \in Nat \X Nat : ss[1] < ss[2]}
<1>1. IsWellFoundedOn(Less, Nat)
  BY NatLessThanWellFounded DEF OpToRel
<1> HIDE DEF Less
<1>2. PICK b \in S : \A c \in S : ~(<<c, b>> \in Less)
  BY <1>1, WFMin
<1>3. b \in S
  BY <1>2
<1>4. ASSUME NEW c \in S PROVE b <= c
  <2>1. c \in Nat /\ b \in Nat /\ ~(<<c, b>> \in Less)
    BY <1>2, <1>3, <1>4
  <2> QED  BY <2>1 DEF Less
<1> QED  BY <1>3, <1>4 DEF Least

-----------------------------------------------------------------------------
(* The descriptors *)

\* The chunks are records with a slot for each number.
LEMMA ChunkFact ==
  ASSUME chunks \in Seq(Chunk), NEW n \in DOMAIN chunks
  PROVE  /\ n \in Nat \ {0} /\ n <= Len(chunks) /\ chunks[n] \in Chunk
         /\ chunks[n].slots \in [Slots -> Things \cup {None}]
         /\ chunks[n].unused \in 0 .. NumSlots
         /\ FreeSlots(chunks[n]) \subseteq Slots
<1>1. Len(chunks) \in Nat /\ DOMAIN chunks = 1 .. Len(chunks) /\ chunks \in [1 .. Len(chunks) -> Chunk]
  BY LenProperties
<1>2. n \in 1 .. Len(chunks) /\ chunks[n] \in Chunk
  BY <1>1
<1> QED  BY <1>1, <1>2 DEF Chunk, FreeSlots

\* What is listed is in a slot of a chunk.
LEMMA ListedIn ==
  ASSUME NEW x
  PROVE  x \in Listed <=>
           x # None /\ \E n \in DOMAIN chunks : \E s \in Slots : chunks[n].slots[s] = x
<1>1. ASSUME x \in Listed
      PROVE  x # None /\ \E n \in DOMAIN chunks : \E s \in Slots : chunks[n].slots[s] = x
  <2>1. PICK d \in Descriptors : x = chunks[d[1]].slots[d[2]]
    BY <1>1 DEF Listed
  <2>2. d \in (DOMAIN chunks) \X Slots /\ chunks[d[1]].slots[d[2]] # None
    BY <2>1 DEF Descriptors
  <2> QED  BY <2>1, <2>2
<1>2. ASSUME x # None, NEW n \in DOMAIN chunks, NEW s \in Slots, chunks[n].slots[s] = x
      PROVE  x \in Listed
  <2>1. <<n, s>> \in Descriptors
    BY <1>2 DEF Descriptors
  <2>2. x = chunks[<<n, s>>[1]].slots[<<n, s>>[2]]
    BY <1>2
  <2> QED  BY <2>1, <2>2, Zenon DEF Listed
<1> QED  BY <1>1, <1>2

\* The same for the state after a step.
LEMMA ListedNext ==
  ASSUME NEW x
  PROVE  x \in Listed' <=>
           x # None /\ \E n \in DOMAIN chunks' : \E s \in Slots : chunks'[n].slots[s] = x
<1>1. ASSUME x \in Listed'
      PROVE  x # None /\ \E n \in DOMAIN chunks' : \E s \in Slots : chunks'[n].slots[s] = x
  <2>1. PICK d \in Descriptors' : x = chunks'[d[1]].slots[d[2]]
    BY <1>1 DEF Listed
  <2>2. d \in (DOMAIN chunks') \X Slots /\ chunks'[d[1]].slots[d[2]] # None
    BY <2>1 DEF Descriptors
  <2> QED  BY <2>1, <2>2
<1>2. ASSUME x # None, NEW n \in DOMAIN chunks', NEW s \in Slots, chunks'[n].slots[s] = x
      PROVE  x \in Listed'
  <2>1. <<n, s>> \in Descriptors'
    BY <1>2 DEF Descriptors
  <2>2. x = chunks'[<<n, s>>[1]].slots[<<n, s>>[2]]
    BY <1>2
  <2> QED  BY <2>1, <2>2, Zenon DEF Listed
<1> QED  BY <1>1, <1>2

\* Only buffers and inodes are listed.
LEMMA ListedThings ==
  ASSUME chunks \in Seq(Chunk)
  PROVE  Listed \subseteq Things /\ IsFiniteSet(Listed) /\ Cardinality(Listed) \in Nat
<1>1. Listed \subseteq Things
  <2>1. ASSUME NEW x \in Listed PROVE x \in Things
    <3>1. PICK n \in DOMAIN chunks : \E s \in Slots : chunks[n].slots[s] = x
      BY <2>1, ListedIn
    <3>2. n \in DOMAIN chunks
      BY <3>1
    <3>3. chunks[n].slots \in [Slots -> Things \cup {None}]
      BY <3>2, ChunkFact
    <3> QED  BY <2>1, <3>1, <3>3, ListedIn
  <2> QED  BY <2>1
<1>2. IsFiniteSet(Listed)
  BY <1>1, ThingsFact, FS_Subset
<1> QED  BY <1>1, <1>2, FS_CardinalityType

\* Two slots do not hold the same.
LEMMA UniqueSlots ==
  ASSUME Unique, NEW n \in DOMAIN chunks, NEW s \in Slots, NEW m \in DOMAIN chunks,
         NEW r \in Slots, chunks[n].slots[s] = chunks[m].slots[r], chunks[n].slots[s] # None
  PROVE  n = m /\ s = r
<1>1. <<n, s>> \in Descriptors /\ <<m, r>> \in Descriptors
  BY DEF Descriptors
<1>2. chunks[<<n, s>>[1]].slots[<<n, s>>[2]] = chunks[<<m, r>>[1]].slots[<<m, r>>[2]]
  OBVIOUS
<1>3. <<n, s>> = <<m, r>>
  BY <1>1, <1>2, Zenon DEF Unique
<1> QED  BY <1>3

\* There are as many descriptors as things listed.
LEMMA DescriptorCount ==
  ASSUME InChunks
  PROVE  IsFiniteSet(Descriptors) /\ Cardinality(Descriptors) = Cardinality(Listed)
<1> DEFINE f == [d \in Descriptors |-> chunks[d[1]].slots[d[2]]]
<1>1. f \in [Descriptors -> Listed]
  BY DEF Listed
<1>2. ASSUME NEW d \in Descriptors, NEW e \in Descriptors, f[d] = f[e] PROVE d = e
  BY <1>2 DEF InChunks, Unique
<1>3. ASSUME NEW x \in Listed PROVE \E d \in Descriptors : f[d] = x
  BY <1>3 DEF Listed
<1> HIDE DEF f
<1>4. f \in Injection(Descriptors, Listed)
  BY <1>1, <1>2 DEF Injection, IsInjective
<1>5. f \in Surjection(Descriptors, Listed)
  BY <1>1, <1>3 DEF Surjection
<1>6. IsFiniteSet(Listed)
  BY ListedThings DEF InChunks
<1> QED  BY <1>4, <1>5, <1>6, FS_Injection

\* When t_items_free is not zero there is a free slot.
LEMMA Vacancy ==
  ASSUME InChunks, free # 0
  PROVE  \E n \in DOMAIN chunks : FreeSlots(chunks[n]) # {}
<1> SUFFICES ASSUME \A n \in DOMAIN chunks : FreeSlots(chunks[n]) = {} PROVE FALSE
  OBVIOUS
<1>1. DOMAIN chunks = 1 .. Len(chunks) /\ Len(chunks) \in Nat
  BY LenProperties DEF InChunks
<1>2. Descriptors = (DOMAIN chunks) \X Slots
  <2>1. ASSUME NEW d \in (DOMAIN chunks) \X Slots PROVE chunks[d[1]].slots[d[2]] # None
    <3>1. d[1] \in DOMAIN chunks /\ d[2] \in Slots
      BY <2>1
    <3> QED  BY <3>1 DEF FreeSlots
  <2> QED  BY <2>1 DEF Descriptors
<1>3. IsFiniteSet(DOMAIN chunks) /\ Cardinality(DOMAIN chunks) = Len(chunks)
  BY <1>1, NumbersTo
<1>4. Cardinality(Descriptors) = Len(chunks) * NumSlots
  BY <1>2, <1>3, SlotsFact, FS_Product
<1>5. Len(chunks) * NumSlots = NumSlots * Len(chunks) /\ NumSlots * Len(chunks) \in Nat
  BY <1>1, SlotsFact
<1>6. free + Cardinality(Listed) = NumSlots * Len(chunks) /\ free \in Int
  BY DEF InChunks
<1> QED  BY <1>4, <1>5, <1>6, DescriptorCount

\* t_items_free is between none and all of the slots.
LEMMA FreeRange ==
  ASSUME InChunks
  PROVE  free \in 0 .. NumSlots * Len(chunks)
<1>1. DOMAIN chunks = 1 .. Len(chunks) /\ Len(chunks) \in Nat
  BY LenProperties DEF InChunks
<1>2. IsFiniteSet(DOMAIN chunks) /\ Cardinality(DOMAIN chunks) = Len(chunks)
  BY <1>1, NumbersTo
<1>3. /\ IsFiniteSet((DOMAIN chunks) \X Slots)
      /\ Cardinality((DOMAIN chunks) \X Slots) = Len(chunks) * NumSlots
  BY <1>2, SlotsFact, FS_Product
<1>4. Descriptors \subseteq (DOMAIN chunks) \X Slots
  BY DEF Descriptors
<1>5. Cardinality(Descriptors) <= Len(chunks) * NumSlots
  BY <1>3, <1>4, FS_Subset
<1>6. Len(chunks) * NumSlots = NumSlots * Len(chunks) /\ NumSlots * Len(chunks) \in Nat
  BY <1>1, SlotsFact
<1>7. Cardinality(Listed) \in Nat /\ Cardinality(Listed) <= NumSlots * Len(chunks)
  BY <1>5, <1>6, DescriptorCount, ListedThings DEF InChunks
<1>8. free + Cardinality(Listed) = NumSlots * Len(chunks) /\ free \in Int
  BY DEF InChunks
<1> QED  BY <1>6, <1>7, <1>8

\* The chunks may move, slots may be cleared, and one slot may be filled with x.
Moves(back, x, n0, s0) ==
  /\ \A n, m \in DOMAIN chunks' : back[n] = back[m] => n = m
  /\ \A n \in DOMAIN chunks' : \A s \in Slots :
       chunks'[n].slots[s] # None =>
         \/ chunks'[n].slots[s] = x /\ n = n0 /\ s = s0
         \/ /\ back[n] \in DOMAIN chunks
            /\ chunks[back[n]].slots[s] = chunks'[n].slots[s]
            /\ chunks'[n].slots[s] # x

\* Then no two slots hold the same.
LEMMA StillUnique ==
  ASSUME Unique, NEW x, NEW n0, NEW s0, NEW back, Moves(back, x, n0, s0)
  PROVE  Unique'
<1>0. /\ \A n, m \in DOMAIN chunks' : back[n] = back[m] => n = m
      /\ \A n \in DOMAIN chunks' : \A s \in Slots :
           chunks'[n].slots[s] # None =>
             \/ chunks'[n].slots[s] = x /\ n = n0 /\ s = s0
             \/ /\ back[n] \in DOMAIN chunks
                /\ chunks[back[n]].slots[s] = chunks'[n].slots[s]
                /\ chunks'[n].slots[s] # x
  BY DEF Moves
<1>1. ASSUME NEW d \in Descriptors', NEW e \in Descriptors',
             chunks'[d[1]].slots[d[2]] = chunks'[e[1]].slots[e[2]]
      PROVE  d = e
  <2>1. PICK n \in DOMAIN chunks', s \in Slots : d = <<n, s>>
    BY DEF Descriptors
  <2>2. PICK m \in DOMAIN chunks', r \in Slots : e = <<m, r>>
    BY DEF Descriptors
  <2>3. n \in DOMAIN chunks' /\ m \in DOMAIN chunks' /\ s \in Slots /\ r \in Slots
    BY <2>1, <2>2
  <2>4. chunks'[n].slots[s] = chunks'[m].slots[r]
    BY <1>1, <2>1, <2>2
  <2>5. chunks'[n].slots[s] # None
    BY <1>1, <2>1 DEF Descriptors
  <2>6. CASE chunks'[n].slots[s] = x
    <3>1. n = n0 /\ s = s0
      BY <1>0, <2>3, <2>5, <2>6
    <3>2. m = n0 /\ r = s0
      BY <1>0, <2>3, <2>4, <2>5, <2>6
    <3> QED  BY <2>1, <2>2, <3>1, <3>2
  <2>7. CASE chunks'[n].slots[s] # x
    <3>1. back[n] \in DOMAIN chunks /\ chunks[back[n]].slots[s] = chunks'[n].slots[s]
      BY <1>0, <2>3, <2>5, <2>7
    <3>2. back[m] \in DOMAIN chunks /\ chunks[back[m]].slots[r] = chunks'[m].slots[r]
      BY <1>0, <2>3, <2>4, <2>5, <2>7
    <3>3. back[n] = back[m] /\ s = r
      BY <2>3, <2>4, <2>5, <3>1, <3>2, UniqueSlots
    <3>4. n = m
      BY <1>0, <2>3, <3>3
    <3> QED  BY <2>1, <2>2, <3>3, <3>4
  <2> QED  BY <2>6, <2>7
<1> QED  BY <1>1 DEF Unique

\* A slot is claimed.
LEMMA ClaimFact ==
  ASSUME NEW c \in Chunk, NEW s \in Slots, NEW x \in Things
  PROVE  /\ Claim(c, s, x) \in Chunk
         /\ Claim(c, s, x).slots[s] = x
         /\ \A r \in Slots : r # s => Claim(c, s, x).slots[r] = c.slots[r]
         /\ Claim(c, s, x).unused >= s /\ Claim(c, s, x).unused >= c.unused
<1>1. c.slots \in [Slots -> Things \cup {None}] /\ c.unused \in 0 .. NumSlots
  BY DEF Chunk
<1>2. s \in 1 .. NumSlots /\ NumSlots \in Nat
  BY SlotsFact DEF Slots
<1>3. [c.slots EXCEPT ![s] = x] \in [Slots -> Things \cup {None}]
  BY <1>1
<1>4. (IF c.unused < s THEN s ELSE c.unused) \in 0 .. NumSlots
  BY <1>1, <1>2
<1>5. Claim(c, s, x) \in Chunk
  BY <1>3, <1>4 DEF Claim, Chunk
<1> QED  BY <1>1, <1>2, <1>5 DEF Claim

\* An empty chunk is one.
LEMMA EmptyFact ==
  /\ EmptyChunk \in Chunk
  /\ \A s \in Slots : EmptyChunk.slots[s] = None
  /\ EmptyChunk.unused = 0
<1>1. [s \in Slots |-> None] \in [Slots -> Things \cup {None}]
  OBVIOUS
<1>2. 0 \in 0 .. NumSlots
  BY SlotsFact
<1> QED  BY <1>1, <1>2 DEF EmptyChunk, Chunk

\* One thing more is listed.
LEMMA ListedGrows ==
  ASSUME InChunks, NEW x, x \notin Listed, Listed' = Listed \cup {x}
  PROVE  Cardinality(Listed') = Cardinality(Listed) + 1 /\ Cardinality(Listed) \in Nat
BY ListedThings, FS_AddElement DEF InChunks

\* A product, a factor one larger or smaller.
LEMMA OneMore ==
  ASSUME NEW n \in Nat, NEW m \in Nat
  PROVE  n * (m + 1) = n * m + n /\ n * m \in Nat
OBVIOUS

\* A new chunk behind the embedded one.
LEMMA AddChunk ==
  ASSUME InChunks, NEW x \in Things, x \notin Listed, free = 0,
         chunks' = <<Head(chunks), Claim(EmptyChunk, 1, x)>> \o Tail(chunks),
         free' = NumSlots - 1
  PROVE  InChunks' /\ Listed' = Listed \cup {x}
<1> DEFINE c == Claim(EmptyChunk, 1, x)
           L == Len(chunks)
           back == [n \in DOMAIN chunks' |-> IF n = 1 THEN 1 ELSE IF n = 2 THEN 0 ELSE n - 1]
<1>1. chunks \in Seq(Chunk) /\ chunks # <<>> /\ L \in Nat \ {0} /\ DOMAIN chunks = 1 .. L
  BY EmptySeq, LenProperties DEF InChunks
<1>2. c \in Chunk /\ c.slots[1] = x /\ (\A r \in Slots : r # 1 => c.slots[r] = None)
        /\ c.unused >= 1 /\ c.unused \in Nat
  <2>1. c \in Chunk /\ c.slots[1] = x /\ (\A r \in Slots : r # 1 => c.slots[r] = EmptyChunk.slots[r])
          /\ c.unused >= 1
    BY SlotsFact, EmptyFact, ClaimFact
  <2> QED  BY <2>1, EmptyFact DEF Chunk
<1>3. Head(chunks) = chunks[1] /\ Tail(chunks) \in Seq(Chunk) /\ Len(Tail(chunks)) = L - 1
        /\ \A n \in 1 .. L - 1 : Tail(chunks)[n] = chunks[n + 1]
  BY <1>1, HeadTailProperties
<1>4. chunks[1] \in Chunk
  BY <1>1, ElementOfSeq
<1>5. PICK pair : pair = <<Head(chunks), c>>
  OBVIOUS
<1> HIDE DEF c
<1>6. pair \in Seq(Chunk) /\ Len(pair) = 2 /\ pair[1] = chunks[1] /\ pair[2] = c
  BY <1>2, <1>3, <1>4, <1>5
<1>7. chunks' = pair \o Tail(chunks)
  BY <1>5 DEF c
<1>8. chunks' \in Seq(Chunk) /\ Len(chunks') = L + 1
        /\ \A n \in 1 .. L + 1 : chunks'[n] =
             IF n <= 2 THEN pair[n] ELSE Tail(chunks)[n - 2]
  <2>1. PICK tail : tail = Tail(chunks)
    OBVIOUS
  <2>2. tail \in Seq(Chunk) /\ pair \in Seq(Chunk)
    BY <1>3, <1>6, <2>1
  <2>3. /\ pair \o tail \in Seq(Chunk) /\ Len(pair \o tail) = Len(pair) + Len(tail)
        /\ \A n \in 1 .. Len(pair) + Len(tail) : (pair \o tail)[n] =
             IF n <= Len(pair) THEN pair[n] ELSE tail[n - Len(pair)]
    BY <2>2, ConcatProperties
  <2>4. Len(pair) = 2 /\ Len(pair) + Len(tail) = L + 1
    BY <1>1, <1>3, <1>6, <2>1
  <2> QED  BY <1>7, <2>1, <2>3, <2>4
<1>9. DOMAIN chunks' = 1 .. L + 1
  BY <1>1, <1>8, LenProperties
<1>10. chunks'[1] = chunks[1] /\ chunks'[2] = c /\ 2 \in DOMAIN chunks' /\ 1 \in DOMAIN chunks'
  BY <1>1, <1>6, <1>8, <1>9
<1>11. \A n \in DOMAIN chunks' : n # 1 /\ n # 2 =>
         n - 1 \in DOMAIN chunks /\ n - 1 # 1 /\ chunks'[n] = chunks[n - 1]
  BY <1>1, <1>3, <1>8, <1>9
<1>12. \A n \in DOMAIN chunks : n # 1 => n + 1 \in DOMAIN chunks' /\ chunks'[n + 1] = chunks[n]
  <2>1. ASSUME NEW n \in DOMAIN chunks, n # 1
        PROVE  n + 1 \in DOMAIN chunks' /\ chunks'[n + 1] = chunks[n]
    <3>1. n + 1 \in DOMAIN chunks' /\ n + 1 # 1 /\ n + 1 # 2 /\ (n + 1) - 1 = n
      BY <1>1, <1>9, <2>1
    <3> QED  BY <3>1, <1>11
  <2> QED  BY <2>1
<1>13. Listed' = Listed \cup {x}
  <2>1. ASSUME NEW y \in Listed' PROVE y \in Listed \cup {x}
    <3>1. PICK n \in DOMAIN chunks', s \in Slots : y # None /\ chunks'[n].slots[s] = y
      BY <2>1, ListedNext
    <3>2. n \in DOMAIN chunks' /\ s \in Slots
      BY <3>1
    <3>3. CASE n = 1
      BY <1>1, <1>10, <3>1, <3>2, <3>3, ListedIn
    <3>4. CASE n = 2
      BY <1>2, <1>10, <3>1, <3>2, <3>4
    <3>5. CASE n # 1 /\ n # 2
      BY <1>11, <3>1, <3>2, <3>5, ListedIn
    <3> QED  BY <3>3, <3>4, <3>5
  <2>2. ASSUME NEW y \in Listed PROVE y \in Listed'
    <3>1. PICK n \in DOMAIN chunks, s \in Slots : y # None /\ chunks[n].slots[s] = y
      BY <2>2, ListedIn
    <3>2. n \in DOMAIN chunks /\ s \in Slots
      BY <3>1
    <3>3. CASE n = 1
      BY <1>10, <3>1, <3>2, <3>3, ListedNext
    <3>4. CASE n # 1
      BY <1>12, <3>1, <3>2, <3>4, ListedNext
    <3> QED  BY <3>3, <3>4
  <2>3. x \in Listed'
    BY <1>2, <1>10, SlotsFact, ThingsFact, ListedNext
  <2> QED  BY <2>1, <2>2, <2>3
<1>14. Unique'
  <2>1. \A n, m \in DOMAIN chunks' : back[n] = back[m] => n = m
    <3>1. ASSUME NEW n \in DOMAIN chunks', NEW m \in DOMAIN chunks', back[n] = back[m] PROVE n = m
      <4>1. n \in Nat \ {0} /\ m \in Nat \ {0}
        BY <1>1, <1>9
      <4>2. back[n] = (IF n = 1 THEN 1 ELSE IF n = 2 THEN 0 ELSE n - 1)
        OBVIOUS
      <4>3. back[m] = (IF m = 1 THEN 1 ELSE IF m = 2 THEN 0 ELSE m - 1)
        OBVIOUS
      <4> QED  BY <3>1, <4>1, <4>2, <4>3
    <3> QED  BY <3>1, Zenon
  <2>2. ASSUME NEW n \in DOMAIN chunks', NEW s \in Slots, chunks'[n].slots[s] # None
        PROVE  \/ chunks'[n].slots[s] = x /\ n = 2 /\ s = 1
               \/ /\ back[n] \in DOMAIN chunks
                  /\ chunks[back[n]].slots[s] = chunks'[n].slots[s]
                  /\ chunks'[n].slots[s] # x
    <3>1. CASE n = 1
      <4>1. back[n] = 1 /\ 1 \in DOMAIN chunks
        BY <1>1, <3>1
      <4>2. chunks'[n].slots[s] \in Listed
        BY <1>10, <2>2, <3>1, <4>1, ListedIn
      <4> QED  BY <1>10, <3>1, <4>1, <4>2
    <3>2. CASE n = 2
      BY <1>2, <1>10, <2>2, <3>2
    <3>3. CASE n # 1 /\ n # 2
      <4>1. back[n] = n - 1 /\ n - 1 \in DOMAIN chunks /\ chunks'[n] = chunks[n - 1]
        BY <1>11, <3>3
      <4>2. chunks'[n].slots[s] \in Listed
        BY <2>2, <4>1, ListedIn
      <4> QED  BY <4>1, <4>2
    <3> QED  BY <3>1, <3>2, <3>3
  <2>3. Unique
    BY DEF InChunks
  <2>4. \A n \in DOMAIN chunks' : \A s \in Slots :
          chunks'[n].slots[s] # None =>
            \/ chunks'[n].slots[s] = x /\ n = 2 /\ s = 1
            \/ /\ back[n] \in DOMAIN chunks
               /\ chunks[back[n]].slots[s] = chunks'[n].slots[s]
               /\ chunks'[n].slots[s] # x
    BY <2>2
  <2> HIDE DEF back
  <2>5. PICK bk : bk = back
    OBVIOUS
  <2>6. Moves(bk, x, 2, 1)
    BY <2>1, <2>4, <2>5, Zenon DEF Moves
  <2> QED  BY <2>3, <2>6, StillUnique
<1>15. \A n \in DOMAIN chunks' : \A s \in Slots :
         s > chunks'[n].unused => chunks'[n].slots[s] = None
  <2>1. ASSUME NEW n \in DOMAIN chunks', NEW s \in Slots, s > chunks'[n].unused
        PROVE  chunks'[n].slots[s] = None
    <3>1. CASE n = 1
      BY <1>1, <1>10, <2>1, <3>1 DEF InChunks
    <3>2. CASE n = 2
      <4>1. s > c.unused /\ s \in Nat
        BY <1>10, <2>1, <3>2, SlotsFact
      <4>2. s # 1
        BY <1>2, <4>1
      <4> QED  BY <1>2, <1>10, <3>2, <4>2
    <3>3. CASE n # 1 /\ n # 2
      BY <1>11, <2>1, <3>3 DEF InChunks
    <3> QED  BY <3>1, <3>2, <3>3
  <2> QED  BY <2>1
<1>16. free' + Cardinality(Listed') = NumSlots * Len(chunks') /\ free' \in Int
  <2>1. Cardinality(Listed') = Cardinality(Listed) + 1 /\ Cardinality(Listed) \in Nat
    BY <1>13, ListedGrows
  <2>2. NumSlots * (L + 1) = NumSlots * L + NumSlots /\ NumSlots * L \in Nat
    BY <1>1, SlotsFact, OneMore
  <2>3. Cardinality(Listed) = NumSlots * L
    BY <2>1 DEF InChunks
  <2> QED  BY <1>8, <2>1, <2>2, <2>3, SlotsFact
<1>17. chunks' # <<>>
  BY <1>1, <1>8, EmptySeq
<1> QED  BY <1>8, <1>13, <1>14, <1>15, <1>16, <1>17 DEF InChunks

\* One chunk changes.
LEMMA ChunkReplaced ==
  ASSUME InChunks, NEW n \in DOMAIN chunks, NEW c \in Chunk,
         chunks' = [chunks EXCEPT ![n] = c]
  PROVE  /\ chunks' \in Seq(Chunk) /\ chunks' # <<>> /\ Len(chunks') = Len(chunks)
         /\ DOMAIN chunks' = DOMAIN chunks /\ chunks'[n] = c
         /\ \A m \in DOMAIN chunks : m # n => chunks'[m] = chunks[m]
<1>1. chunks \in Seq(Chunk) /\ DOMAIN chunks = 1 .. Len(chunks) /\ n \in 1 .. Len(chunks)
        /\ Len(chunks) \in Nat
  BY LenProperties DEF InChunks
<1>2. chunks' \in Seq(Chunk) /\ Len(chunks') = Len(chunks)
        /\ \A m \in 1 .. Len(chunks) : chunks'[m] = IF m = n THEN c ELSE chunks[m]
  BY <1>1, ExceptSeq
<1>3. DOMAIN chunks' = 1 .. Len(chunks)
  BY <1>1, <1>2, LenProperties
<1>4. chunks' # <<>>
  BY <1>1, <1>2, EmptySeq
<1> QED  BY <1>1, <1>2, <1>3, <1>4

\* A free slot is filled.
LEMMA FillSlot ==
  ASSUME InChunks, NEW x \in Things, x \notin Listed, free # 0,
         NEW n \in DOMAIN chunks, NEW s \in Slots, chunks[n].slots[s] = None,
         chunks' = [chunks EXCEPT ![n] = Claim(chunks[n], s, x)],
         free' = free - 1
  PROVE  InChunks' /\ Listed' = Listed \cup {x}
<1>1. chunks \in Seq(Chunk) /\ Len(chunks) \in Nat
  BY LenProperties DEF InChunks
<1>2. PICK c : c = Claim(chunks[n], s, x)
  OBVIOUS
<1>3. chunks[n] \in Chunk /\ chunks[n].unused \in Nat
  BY <1>1, ChunkFact
<1>4. c \in Chunk /\ c.slots[s] = x /\ (\A r \in Slots : r # s => c.slots[r] = chunks[n].slots[r])
        /\ c.unused >= s /\ c.unused >= chunks[n].unused
  BY <1>2, <1>3, ClaimFact
<1>5. chunks' = [chunks EXCEPT ![n] = c]
  BY <1>2
<1>6. /\ chunks' \in Seq(Chunk) /\ chunks' # <<>> /\ Len(chunks') = Len(chunks)
      /\ DOMAIN chunks' = DOMAIN chunks /\ chunks'[n] = c
      /\ \A m \in DOMAIN chunks : m # n => chunks'[m] = chunks[m]
  BY <1>4, <1>5, ChunkReplaced
<1>7. ASSUME NEW m \in DOMAIN chunks, NEW r \in Slots
      PROVE  chunks'[m].slots[r] = IF m = n /\ r = s THEN x ELSE chunks[m].slots[r]
  BY <1>4, <1>6
<1>8. Listed' = Listed \cup {x}
  <2>1. ASSUME NEW y \in Listed' PROVE y \in Listed \cup {x}
    <3>1. PICK m \in DOMAIN chunks', r \in Slots : y # None /\ chunks'[m].slots[r] = y
      BY <2>1, ListedNext
    <3>2. m \in DOMAIN chunks /\ r \in Slots
      BY <1>6, <3>1
    <3> QED  BY <1>7, <3>1, <3>2, ListedIn
  <2>2. ASSUME NEW y \in Listed PROVE y \in Listed'
    <3>1. PICK m \in DOMAIN chunks, r \in Slots : y # None /\ chunks[m].slots[r] = y
      BY <2>2, ListedIn
    <3>2. m \in DOMAIN chunks /\ r \in Slots
      BY <3>1
    <3> QED  BY <1>6, <1>7, <3>1, <3>2, ListedNext
  <2>3. x \in Listed'
    BY <1>6, <1>7, ThingsFact, ListedNext
  <2> QED  BY <2>1, <2>2, <2>3
<1>9. Unique'
  <2>1. PICK back : back = [m \in DOMAIN chunks |-> m]
    OBVIOUS
  <2>2. ASSUME NEW m \in DOMAIN chunks', NEW r \in Slots, chunks'[m].slots[r] # None
        PROVE  \/ chunks'[m].slots[r] = x /\ m = n /\ r = s
               \/ /\ back[m] \in DOMAIN chunks
                  /\ chunks[back[m]].slots[r] = chunks'[m].slots[r]
                  /\ chunks'[m].slots[r] # x
    <3>1. m \in DOMAIN chunks /\ back[m] = m
      BY <1>6, <2>1
    <3>2. CASE m = n /\ r = s
      BY <1>7, <3>1, <3>2
    <3>3. CASE ~(m = n /\ r = s)
      <4>1. chunks'[m].slots[r] = chunks[m].slots[r]
        BY <1>7, <3>1, <3>3
      <4>2. chunks'[m].slots[r] \in Listed
        BY <2>2, <3>1, <4>1, ListedIn
      <4> QED  BY <3>1, <4>1, <4>2
    <3> QED  BY <3>2, <3>3
  <2>3. \A m, r \in DOMAIN chunks' : back[m] = back[r] => m = r
    BY <1>6, <2>1
  <2>4. Moves(back, x, n, s)
    BY <2>2, <2>3 DEF Moves
  <2>5. Unique
    BY DEF InChunks
  <2> QED  BY <2>4, <2>5, StillUnique
<1>10. ASSUME NEW m \in DOMAIN chunks', NEW r \in Slots, r > chunks'[m].unused
       PROVE  chunks'[m].slots[r] = None
  <2>1. m \in DOMAIN chunks
    BY <1>6
  <2>2. CASE m = n
    <3>1. r \in Nat /\ s \in Nat /\ c.unused \in Nat
      BY <1>4, SlotsFact DEF Chunk
    <3>2. r > c.unused
      BY <1>6, <1>10, <2>2
    <3>3. r # s /\ r > chunks[n].unused
      BY <1>3, <1>4, <3>1, <3>2
    <3> QED  BY <1>7, <2>1, <2>2, <3>3 DEF InChunks
  <2>3. CASE m # n
    BY <1>6, <1>10, <2>1, <2>3 DEF InChunks
  <2> QED  BY <2>2, <2>3
<1>11. free' + Cardinality(Listed') = NumSlots * Len(chunks') /\ free' \in Int
  <2>1. Cardinality(Listed') = Cardinality(Listed) + 1 /\ Cardinality(Listed) \in Nat
    BY <1>8, ListedGrows
  <2>2. free + Cardinality(Listed) = NumSlots * Len(chunks') /\ free \in Int
    BY <1>6 DEF InChunks
  <2> QED  BY <2>1, <2>2
<1> QED  BY <1>6, <1>8, <1>9, <1>10, <1>11 DEF InChunks

\* xfs_trans_add_item finds a free slot, or makes a new chunk.
LEMMA ItemAdded ==
  ASSUME InChunks, NEW x \in Things, x \notin Listed, AddItem(x)
  PROVE  InChunks' /\ Listed' = Listed \cup {x}
<1>1. CASE free = 0
  <2>1. chunks' = <<Head(chunks), Claim(EmptyChunk, 1, x)>> \o Tail(chunks)
          /\ free' = NumSlots - 1
    BY <1>1 DEF AddItem
  <2> QED  BY <1>1, <2>1, AddChunk
<1>2. CASE free # 0
  <2> DEFINE vacant == {m \in DOMAIN chunks : FreeSlots(chunks[m]) # {}}
  <2>1. PICK n : n = Least(vacant)
    OBVIOUS
  <2>2. chunks \in Seq(Chunk) /\ DOMAIN chunks = 1 .. Len(chunks)
    BY LenProperties DEF InChunks
  <2>3. n \in DOMAIN chunks /\ FreeSlots(chunks[n]) # {}
    <3>1. vacant # {} /\ vacant \subseteq Nat
      <4>1. \E m \in DOMAIN chunks : FreeSlots(chunks[m]) # {}
        BY <1>2, Vacancy
      <4>2. DOMAIN chunks \subseteq Nat
        BY <2>2
      <4> QED  BY <4>1, <4>2
    <3>2. n \in vacant
      BY <2>1, <3>1, LeastFact
    <3> QED  BY <3>2
  <2>4. PICK c : c = chunks[n]
    OBVIOUS
  <2>5. c \in Chunk /\ c.unused \in 0 .. NumSlots /\ FreeSlots(c) # {} /\ FreeSlots(c) \subseteq Slots
    BY <2>2, <2>3, <2>4, ChunkFact
  <2>6. PICK s : s = IF c.unused < NumSlots THEN c.unused + 1 ELSE Least(FreeSlots(c))
    OBVIOUS
  <2>7. chunks' = [chunks EXCEPT ![n] = Claim(c, s, x)] /\ free' = free - 1
    BY <1>2, <2>1, <2>4, <2>6 DEF AddItem
  <2>8. s \in Slots /\ c.slots[s] = None
    <3>1. CASE c.unused < NumSlots
      <4>1. s \in Slots /\ s > c.unused
        BY <2>5, <2>6, <3>1, SlotsFact DEF Slots
      <4> QED  BY <2>3, <2>4, <4>1 DEF InChunks
    <3>2. CASE ~(c.unused < NumSlots)
      <4>1. s \in FreeSlots(c)
        BY <2>5, <2>6, <3>2, SlotsFact, LeastFact
      <4> QED  BY <4>1 DEF FreeSlots
    <3> QED  BY <3>1, <3>2
  <2>9. chunks' = [chunks EXCEPT ![n] = Claim(chunks[n], s, x)] /\ chunks[n].slots[s] = None
    BY <2>4, <2>7, <2>8
  <2> QED  BY <1>2, <2>3, <2>7, <2>8, <2>9, FillSlot
<1> QED  BY <1>1, <1>2

\* One thing less is listed.
LEMMA ListedShrinks ==
  ASSUME InChunks, NEW x, x \in Listed, Listed' = Listed \ {x}
  PROVE  /\ Cardinality(Listed') = Cardinality(Listed) - 1
         /\ Cardinality(Listed) \in Nat \ {0}
<1>1. IsFiniteSet(Listed) /\ Cardinality(Listed) \in Nat
  BY ListedThings DEF InChunks
<1>2. Cardinality(Listed) # 0
  BY <1>1, FS_EmptySet
<1> QED  BY <1>1, <1>2, FS_RemoveElement

\* A slot is cleared.
LEMMA ClearSlot ==
  ASSUME InChunks, NEW x, x # None, NEW n \in DOMAIN chunks, NEW s \in Slots,
         chunks[n].slots[s] = x,
         chunks' = [chunks EXCEPT ![n] = [chunks[n] EXCEPT !.slots[s] = None]],
         free' = free + 1
  PROVE  InChunks' /\ Listed' = Listed \ {x}
<1>1. chunks \in Seq(Chunk) /\ Len(chunks) \in Nat
  BY LenProperties DEF InChunks
<1>2. PICK c : c = [chunks[n] EXCEPT !.slots[s] = None]
  OBVIOUS
<1>3. chunks[n] \in Chunk /\ chunks[n].slots \in [Slots -> Things \cup {None}]
  BY <1>1, ChunkFact
<1>4. c \in Chunk /\ c.slots[s] = None /\ (\A r \in Slots : r # s => c.slots[r] = chunks[n].slots[r])
        /\ c.unused = chunks[n].unused
  BY <1>2, <1>3 DEF Chunk
<1>5. chunks' = [chunks EXCEPT ![n] = c]
  BY <1>2
<1>6. /\ chunks' \in Seq(Chunk) /\ chunks' # <<>> /\ Len(chunks') = Len(chunks)
      /\ DOMAIN chunks' = DOMAIN chunks /\ chunks'[n] = c
      /\ \A m \in DOMAIN chunks : m # n => chunks'[m] = chunks[m]
  BY <1>4, <1>5, ChunkReplaced
<1>7. ASSUME NEW m \in DOMAIN chunks, NEW r \in Slots
      PROVE  chunks'[m].slots[r] = IF m = n /\ r = s THEN None ELSE chunks[m].slots[r]
  <2>1. CASE m = n
    BY <1>4, <1>6, <2>1
  <2>2. CASE m # n
    BY <1>6, <2>2
  <2> QED  BY <2>1, <2>2
<1>8. x \in Listed
  BY ListedIn
<1>9. Unique
  BY DEF InChunks
<1>10. ASSUME NEW m \in DOMAIN chunks, NEW r \in Slots, chunks[m].slots[r] = x
       PROVE  m = n /\ r = s
  BY <1>9, <1>10, UniqueSlots
<1>11. Listed' = Listed \ {x}
  <2>1. ASSUME NEW y \in Listed' PROVE y \in Listed \ {x}
    <3>1. PICK m \in DOMAIN chunks', r \in Slots : y # None /\ chunks'[m].slots[r] = y
      BY <2>1, ListedNext
    <3>2. m \in DOMAIN chunks /\ r \in Slots
      BY <1>6, <3>1
    <3>3. ~(m = n /\ r = s) /\ chunks[m].slots[r] = y
      BY <1>7, <3>1, <3>2
    <3> QED  BY <1>10, <3>1, <3>2, <3>3, ListedIn
  <2>2. ASSUME NEW y \in Listed, y # x PROVE y \in Listed'
    <3>1. PICK m \in DOMAIN chunks, r \in Slots : y # None /\ chunks[m].slots[r] = y
      BY <2>2, ListedIn
    <3>2. m \in DOMAIN chunks /\ r \in Slots
      BY <3>1
    <3>3. chunks'[m].slots[r] = y
      BY <1>7, <2>2, <3>1, <3>2
    <3> QED  BY <1>6, <3>1, <3>2, <3>3, ListedNext
  <2> QED  BY <2>1, <2>2
<1>12. Unique'
  <2>1. PICK back : back = [m \in DOMAIN chunks |-> m]
    OBVIOUS
  <2>2. ASSUME NEW m \in DOMAIN chunks', NEW r \in Slots, chunks'[m].slots[r] # None
        PROVE  /\ back[m] \in DOMAIN chunks
               /\ chunks[back[m]].slots[r] = chunks'[m].slots[r]
               /\ chunks'[m].slots[r] # x
    <3>1. m \in DOMAIN chunks /\ back[m] = m
      BY <1>6, <2>1
    <3>2. ~(m = n /\ r = s) /\ chunks'[m].slots[r] = chunks[m].slots[r]
      BY <1>7, <2>2, <3>1
    <3> QED  BY <1>10, <3>1, <3>2
  <2>3. \A m, r \in DOMAIN chunks' : back[m] = back[r] => m = r
    BY <1>6, <2>1
  <2>4. Moves(back, x, n, s)
    BY <2>2, <2>3 DEF Moves
  <2> QED  BY <1>9, <2>4, StillUnique
<1>13. ASSUME NEW m \in DOMAIN chunks', NEW r \in Slots, r > chunks'[m].unused
       PROVE  chunks'[m].slots[r] = None
  <2>1. m \in DOMAIN chunks /\ chunks'[m].unused = chunks[m].unused
    BY <1>4, <1>6
  <2> QED  BY <1>7, <1>13, <2>1 DEF InChunks
<1>14. free' + Cardinality(Listed') = NumSlots * Len(chunks') /\ free' \in Int
  <2>1. Cardinality(Listed') = Cardinality(Listed) - 1 /\ Cardinality(Listed) \in Nat \ {0}
    BY <1>8, <1>11, ListedShrinks
  <2>2. free + Cardinality(Listed) = NumSlots * Len(chunks') /\ free \in Int
    BY <1>6 DEF InChunks
  <2>3. \A f \in Int, k \in Nat \ {0} : f + 1 + (k - 1) = f + k /\ f + 1 \in Int
    OBVIOUS
  <2> QED  BY <2>1, <2>2, <2>3
<1> QED  BY <1>6, <1>11, <1>12, <1>13, <1>14 DEF InChunks

\* Where chunk i was: in front of the one that goes, or one further behind it.
Was(old, i, n, L) ==
  /\ old[i] \in 1 .. L /\ old[i] # n
  /\ i <= n - 1 => i \in 1 .. n - 1 /\ old[i] = i
  /\ ~(i <= n - 1) => i - (n - 1) \in 1 .. L - n /\ old[i] = n + (i - (n - 1))
Onto(old, n, L) == \A m \in 1 .. L : m # n => \E i \in 1 .. L - 1 : old[i] = m
OneToOne(old, S) == \A i, m \in S : old[i] = old[m] => i = m

\* The chunks behind the one that goes move up by one.
LEMMA Renumbered ==
  ASSUME NEW L \in Nat, NEW n \in Nat, 2 <= n, n <= L, NEW old,
         \A i \in 1 .. L - 1 : old[i] = IF i <= n - 1 THEN i ELSE i + 1
  PROVE  /\ \A i \in 1 .. L - 1 : Was(old, i, n, L)
         /\ Onto(old, n, L) /\ OneToOne(old, 1 .. L - 1)
<1>1. \A i \in 1 .. L - 1 : /\ i \in Nat /\ 1 <= i /\ i <= L - 1
                          /\ old[i] = IF i <= n - 1 THEN i ELSE i + 1
  OBVIOUS
<1>2. ASSUME NEW i \in 1 .. L - 1 PROVE Was(old, i, n, L)
  <2>1. i \in Nat /\ 1 <= i /\ i <= L - 1 /\ old[i] = IF i <= n - 1 THEN i ELSE i + 1
    BY <1>1
  <2>2. CASE i <= n - 1
    BY <2>1, <2>2 DEF Was
  <2>3. CASE ~(i <= n - 1)
    BY <2>1, <2>3 DEF Was
  <2> QED  BY <2>2, <2>3
<1>3. ASSUME NEW m \in 1 .. L, m # n PROVE \E i \in 1 .. L - 1 : old[i] = m
  <2>1. CASE m < n
    <3>1. m \in 1 .. L - 1 /\ m <= n - 1
      BY <2>1
    <3> QED  BY <1>1, <3>1
  <2>2. CASE ~(m < n)
    <3>1. m - 1 \in 1 .. L - 1 /\ ~(m - 1 <= n - 1) /\ (m - 1) + 1 = m
      BY <1>3, <2>2
    <3> QED  BY <1>1, <3>1
  <2> QED  BY <2>1, <2>2
<1>4. ASSUME NEW i \in 1 .. L - 1, NEW m \in 1 .. L - 1, old[i] = old[m] PROVE i = m
  <2>1. /\ i \in Nat /\ old[i] = IF i <= n - 1 THEN i ELSE i + 1
        /\ m \in Nat /\ old[m] = IF m <= n - 1 THEN m ELSE m + 1
    BY <1>1
  <2>2. CASE i <= n - 1
    <3>1. old[i] = i /\ old[i] <= n - 1
      BY <2>1, <2>2
    <3>2. CASE ~(m <= n - 1)
      <4>1. m + 1 = i
        BY <1>4, <2>1, <3>1, <3>2
      <4> QED  BY <2>1, <2>2, <3>2, <4>1
    <3>3. CASE m <= n - 1
      <4>1. old[m] = m
        BY <2>1, <3>3
      <4> QED  BY <1>4, <3>1, <4>1
    <3> QED  BY <3>2, <3>3
  <2>3. CASE ~(i <= n - 1)
    <3>1. old[i] = i + 1 /\ ~(old[i] <= n - 1)
      BY <2>1, <2>3
    <3>2. CASE m <= n - 1
      <4>1. m = i + 1
        BY <1>4, <2>1, <3>1, <3>2
      <4> QED  BY <2>1, <2>3, <3>2, <4>1
    <3>3. CASE ~(m <= n - 1)
      <4>1. old[m] = m + 1
        BY <2>1, <3>3
      <4>2. i + 1 = m + 1
        BY <1>4, <3>1, <4>1
      <4> QED  BY <2>1, <4>2
    <3> QED  BY <3>2, <3>3
  <2> QED  BY <2>2, <2>3
<1>5. Onto(old, n, L)
  BY <1>3 DEF Onto
<1>6. OneToOne(old, 1 .. L - 1)
  BY <1>4 DEF OneToOne
<1> QED  BY <1>2, <1>5, <1>6

\* A chunk goes, with its last descriptor.
LEMMA DropChunk ==
  ASSUME InChunks, NEW x, x # None, NEW n \in DOMAIN chunks, n > 1, NEW s \in Slots,
         chunks[n].slots[s] = x,
         \A r \in Slots : r # s => chunks[n].slots[r] = None,
         chunks' = SubSeq(chunks, 1, n - 1) \o SubSeq(chunks, n + 1, Len(chunks)),
         free' = free + 1 - NumSlots
  PROVE  InChunks' /\ Listed' = Listed \ {x}
<1>0. PICK L : L = Len(chunks)
  OBVIOUS
<1>1. chunks \in Seq(Chunk) /\ chunks # <<>> /\ L \in Nat \ {0} /\ DOMAIN chunks = 1 .. L
        /\ n \in 2 .. L /\ n \in Nat
  <2>1. chunks \in Seq(Chunk) /\ chunks # <<>>
    BY DEF InChunks
  <2>2. L \in Nat \ {0} /\ DOMAIN chunks = 1 .. L
    BY <1>0, <2>1, EmptySeq, LenProperties
  <2> QED  BY <2>1, <2>2
<1>2. PICK front, back : front = SubSeq(chunks, 1, n - 1) /\ back = SubSeq(chunks, n + 1, L)
  OBVIOUS
<1>3. front \in Seq(Chunk) /\ Len(front) = n - 1 /\ \A i \in 1 .. n - 1 : front[i] = chunks[i]
  <2>1. \A i \in 1 .. n - 1 : chunks[i] \in Chunk
    BY <1>1, ElementOfSeq
  <2>2. 1 \in Int /\ n - 1 \in Int /\ 1 <= n - 1 /\ (n - 1) - 1 + 1 = n - 1
    BY <1>1
  <2>3. /\ SubSeq(chunks, 1, n - 1) \in Seq(Chunk)
        /\ Len(SubSeq(chunks, 1, n - 1)) = (n - 1) - 1 + 1
        /\ \A i \in 1 .. (n - 1) - 1 + 1 : SubSeq(chunks, 1, n - 1)[i] = chunks[1 + i - 1]
    BY <2>1, <2>2, SubSeqProperties
  <2>4. \A i \in 1 .. n - 1 : 1 + i - 1 = i
    BY <1>1
  <2> QED  BY <1>2, <2>2, <2>3, <2>4
<1>4. back \in Seq(Chunk) /\ Len(back) = L - n /\ \A i \in 1 .. L - n : back[i] = chunks[n + i]
  <2>1. \A i \in n + 1 .. L : chunks[i] \in Chunk
    BY <1>1, ElementOfSeq
  <2>2. n + 1 \in Int /\ L \in Int /\ L - (n + 1) + 1 = L - n
          /\ (n + 1 <= L \/ L - n = 0)
    BY <1>1
  <2>3. /\ SubSeq(chunks, n + 1, L) \in Seq(Chunk)
        /\ Len(SubSeq(chunks, n + 1, L)) = IF n + 1 <= L THEN L - (n + 1) + 1 ELSE 0
        /\ \A i \in 1 .. L - (n + 1) + 1 : SubSeq(chunks, n + 1, L)[i] = chunks[(n + 1) + i - 1]
    BY <2>1, <2>2, SubSeqProperties
  <2>4. \A i \in 1 .. L - n : (n + 1) + i - 1 = n + i
    BY <1>1
  <2>5. (IF n + 1 <= L THEN L - (n + 1) + 1 ELSE 0) = L - n
    BY <1>1
  <2> QED  BY <1>2, <2>2, <2>3, <2>4, <2>5
<1>5. chunks' \in Seq(Chunk) /\ Len(chunks') = L - 1
        /\ \A i \in 1 .. L - 1 : chunks'[i] = IF i <= n - 1 THEN front[i] ELSE back[i - (n - 1)]
  <2>1. /\ front \o back \in Seq(Chunk) /\ Len(front \o back) = Len(front) + Len(back)
        /\ \A i \in 1 .. Len(front) + Len(back) : (front \o back)[i] =
             IF i <= Len(front) THEN front[i] ELSE back[i - Len(front)]
    BY <1>3, <1>4, ConcatProperties
  <2>2. Len(front) = n - 1 /\ Len(front) + Len(back) = L - 1
    BY <1>1, <1>3, <1>4
  <2>3. chunks' = front \o back
    BY <1>0, <1>2
  <2> QED  BY <2>1, <2>2, <2>3
<1>6. DOMAIN chunks' = 1 .. L - 1
  BY <1>1, <1>5, LenProperties
<1>7. PICK old : old = [i \in 1 .. L - 1 |-> IF i <= n - 1 THEN i ELSE i + 1]
  OBVIOUS
<1>8. (\A i \in 1 .. L - 1 : Was(old, i, n, L)) /\ Onto(old, n, L) /\ OneToOne(old, 1 .. L - 1)
  <2>1. L \in Nat /\ n \in Nat /\ 2 <= n /\ n <= L
    BY <1>1
  <2>2. \A i \in 1 .. L - 1 : old[i] = IF i <= n - 1 THEN i ELSE i + 1
    BY <1>7
  <2> QED  BY <2>1, <2>2, Renumbered
<1>9. \A m \in DOMAIN chunks : m # n => \E i \in DOMAIN chunks' : old[i] = m
  BY <1>1, <1>6, <1>8 DEF Onto
<1>9a. OneToOne(old, DOMAIN chunks')
  BY <1>6, <1>8
<1>10. ASSUME NEW i \in DOMAIN chunks'
       PROVE  old[i] \in DOMAIN chunks /\ old[i] # n /\ chunks'[i] = chunks[old[i]]
  <2>1. i \in 1 .. L - 1 /\ old[i] \in DOMAIN chunks /\ old[i] # n
    BY <1>1, <1>6, <1>8 DEF Was
  <2>2. CASE i <= n - 1
    <3>1. i \in 1 .. n - 1 /\ old[i] = i
      BY <1>8, <2>1, <2>2 DEF Was
    <3>2. chunks'[i] = front[i]
      BY <1>5, <2>1, <2>2
    <3> QED  BY <1>3, <2>1, <3>1, <3>2
  <2>3. CASE ~(i <= n - 1)
    <3>1. i - (n - 1) \in 1 .. L - n /\ old[i] = n + (i - (n - 1))
      BY <1>8, <2>1, <2>3 DEF Was
    <3>2. chunks'[i] = back[i - (n - 1)]
      BY <1>5, <2>1, <2>3
    <3> QED  BY <1>4, <2>1, <3>1, <3>2
  <2> QED  BY <2>2, <2>3
<1>11. Unique
  BY DEF InChunks
<1>12. ASSUME NEW m \in DOMAIN chunks, NEW r \in Slots, chunks[m].slots[r] = x
       PROVE  m = n
  BY <1>11, <1>12, UniqueSlots
<1>13. Listed' = Listed \ {x}
  <2>1. ASSUME NEW y \in Listed' PROVE y \in Listed \ {x}
    <3>0. y \in Listed' <=>
            y # None /\ \E m \in DOMAIN chunks' : \E r \in Slots : chunks'[m].slots[r] = y
      BY ListedNext
    <3>1. PICK m \in DOMAIN chunks', r \in Slots : y # None /\ chunks'[m].slots[r] = y
      BY <2>1, <3>0
    <3>2. m \in DOMAIN chunks' /\ r \in Slots
      BY <3>1
    <3>3. old[m] \in DOMAIN chunks /\ old[m] # n /\ chunks[old[m]].slots[r] = y
      BY <1>10, <3>1, <3>2
    <3> QED  BY <1>12, <3>1, <3>2, <3>3, ListedIn
  <2>2. ASSUME NEW y \in Listed, y # x PROVE y \in Listed'
    <3>1. PICK m \in DOMAIN chunks, r \in Slots : y # None /\ chunks[m].slots[r] = y
      BY <2>2, ListedIn
    <3>2. m \in DOMAIN chunks /\ r \in Slots /\ m # n
      BY <2>2, <3>1
    <3>3. PICK i \in DOMAIN chunks' : old[i] = m
      BY <1>9, <3>2
    <3>4. i \in DOMAIN chunks' /\ chunks'[i].slots[r] = y
      BY <1>10, <3>1, <3>3
    <3> QED  BY <3>1, <3>2, <3>4, ListedNext
  <2> QED  BY <2>1, <2>2
<1>14. Unique'
  <2>1. ASSUME NEW m \in DOMAIN chunks', NEW r \in Slots, chunks'[m].slots[r] # None
        PROVE  /\ old[m] \in DOMAIN chunks
               /\ chunks[old[m]].slots[r] = chunks'[m].slots[r]
               /\ chunks'[m].slots[r] # x
    <3>1. old[m] \in DOMAIN chunks /\ old[m] # n /\ chunks'[m] = chunks[old[m]]
      BY <1>10
    <3> QED  BY <1>12, <2>1, <3>1
  <2>2. Moves(old, x, n, s)
    BY <1>9a, <2>1 DEF Moves, OneToOne
  <2> QED  BY <1>11, <2>2, StillUnique
<1>15. ASSUME NEW m \in DOMAIN chunks', NEW r \in Slots, r > chunks'[m].unused
       PROVE  chunks'[m].slots[r] = None
  <2>1. PICK m0 : m0 = old[m]
    OBVIOUS
  <2>2. m0 \in DOMAIN chunks /\ chunks'[m] = chunks[m0]
    BY <1>10, <2>1
  <2>3. r > chunks[m0].unused
    BY <1>15, <2>2
  <2> QED  BY <2>2, <2>3 DEF InChunks
<1>16. free' + Cardinality(Listed') = NumSlots * Len(chunks') /\ free' \in Int
  <2>1. x \in Listed
    BY ListedIn
  <2>2. Cardinality(Listed') = Cardinality(Listed) - 1 /\ Cardinality(Listed) \in Nat \ {0}
    BY <1>13, <2>1, ListedShrinks
  <2>3. PICK k \in Nat : L = k + 1 /\ L - 1 = k
    <3>1. L - 1 \in Nat /\ L = (L - 1) + 1
      BY <1>1
    <3> QED  BY <3>1
  <2>4. NumSlots * (k + 1) = NumSlots * k + NumSlots /\ NumSlots * k \in Nat /\ NumSlots \in Nat
    BY <2>3, SlotsFact, OneMore
  <2>5. free + Cardinality(Listed) = NumSlots * (k + 1) /\ free \in Int
    BY <1>0, <2>3 DEF InChunks
  <2>6. Len(chunks') = k
    BY <1>5, <2>3
  <2>7. PICK p : p = NumSlots * k
    OBVIOUS
  <2>8. free + Cardinality(Listed) = p + NumSlots /\ p \in Nat
    BY <2>4, <2>5, <2>7
  <2>9. free' + Cardinality(Listed') = p /\ free' \in Int
    BY <2>2, <2>4, <2>5, <2>8
  <2> QED  BY <2>6, <2>7, <2>9
<1>17. chunks' # <<>>
  BY <1>1, <1>5, EmptySeq
<1> QED  BY <1>5, <1>13, <1>14, <1>15, <1>16, <1>17 DEF InChunks

\* xfs_trans_free_item clears the slot; an empty chunk that is not the embedded
\* one goes.
LEMMA ItemFreed ==
  ASSUME InChunks, NEW x \in Listed, FreeItem(x)
  PROVE  InChunks' /\ Listed' = Listed \ {x}
<1>1. PICK n : n = CHOOSE m \in DOMAIN chunks : \E s \in Slots : chunks[m].slots[s] = x
  OBVIOUS
<1>2. PICK s : s = CHOOSE r \in Slots : chunks[n].slots[r] = x
  OBVIOUS
<1>3. PICK c : c = [chunks[n] EXCEPT !.slots[s] = None]
  OBVIOUS
<1>4. x # None /\ \E m \in DOMAIN chunks : \E r \in Slots : chunks[m].slots[r] = x
  BY ListedIn
<1>5. n \in DOMAIN chunks /\ \E r \in Slots : chunks[n].slots[r] = x
  BY <1>1, <1>4
<1>6. s \in Slots /\ chunks[n].slots[s] = x
  BY <1>2, <1>5
<1>7. IF n > 1 /\ FreeSlots(c) = Slots
      THEN /\ chunks' = SubSeq(chunks, 1, n - 1) \o SubSeq(chunks, n + 1, Len(chunks))
           /\ free' = free + 1 - NumSlots
      ELSE /\ chunks' = [chunks EXCEPT ![n] = c]
           /\ free' = free + 1
  BY <1>1, <1>2, <1>3 DEF FreeItem, SlotsGone
<1>8. CASE n > 1 /\ FreeSlots(c) = Slots
  <2>1. chunks' = SubSeq(chunks, 1, n - 1) \o SubSeq(chunks, n + 1, Len(chunks))
          /\ free' = free + 1 - NumSlots
    BY <1>7, <1>8
  <2>2. ASSUME NEW r \in Slots, r # s PROVE chunks[n].slots[r] = None
    <3>1. chunks \in Seq(Chunk)
      BY DEF InChunks
    <3>2. chunks[n] \in Chunk /\ chunks[n].slots \in [Slots -> Things \cup {None}]
      BY <1>5, <3>1, ChunkFact
    <3>3. c.slots[r] = None
      BY <1>8 DEF FreeSlots
    <3>4. c.slots[r] = chunks[n].slots[r]
      BY <1>3, <2>2, <3>2 DEF Chunk
    <3> QED  BY <3>3, <3>4
  <2>3. n > 1 /\ \A r \in Slots : r # s => chunks[n].slots[r] = None
    BY <1>8, <2>2
  <2> QED  BY <1>4, <1>5, <1>6, <2>1, <2>3, DropChunk, Zenon
<1>9. CASE ~(n > 1 /\ FreeSlots(c) = Slots)
  <2>1. chunks' = [chunks EXCEPT ![n] = [chunks[n] EXCEPT !.slots[s] = None]]
          /\ free' = free + 1
    BY <1>3, <1>7, <1>9
  <2> QED  BY <1>4, <1>5, <1>6, <2>1, ClearSlot
<1> QED  BY <1>8, <1>9

\* At the end of a transaction the embedded chunk is empty and the only one.
LEMMA ItemsGone ==
  ASSUME chunks' = <<EmptyChunk>>, free' = NumSlots
  PROVE  InChunks' /\ Listed' = {}
<1>1. <<EmptyChunk>> \in Seq(Chunk) /\ Len(<<EmptyChunk>>) = 1 /\ <<EmptyChunk>>[1] = EmptyChunk
        /\ <<EmptyChunk>> # <<>>
  <2>1. EmptyChunk \in Chunk
    BY EmptyFact
  <2>2. PICK c : c = EmptyChunk
    OBVIOUS
  <2>3. <<c>> \in Seq(Chunk) /\ Len(<<c>>) = 1 /\ <<c>>[1] = c /\ <<c>> # <<>>
    BY <2>1, <2>2
  <2> QED  BY <2>2, <2>3
<1>2. PICK s : s = <<EmptyChunk>>
  OBVIOUS
<1>3. chunks' = s /\ s \in Seq(Chunk) /\ Len(s) = 1 /\ s[1] = EmptyChunk /\ s # <<>>
  BY <1>1, <1>2
<1>4. DOMAIN chunks' = {1}
  <2>1. DOMAIN s = 1 .. 1
    BY <1>3, LenProperties
  <2>2. 1 .. 1 = {1}
    OBVIOUS
  <2> QED  BY <1>3, <2>1, <2>2
<1>5. \A n \in DOMAIN chunks' : \A r \in Slots : chunks'[n].slots[r] = None
  BY <1>3, <1>4, EmptyFact
<1>6. Listed' = {}
  BY <1>5, ListedNext
<1>7. Descriptors' = {}
  BY <1>5 DEF Descriptors
<1>8. Unique'
  BY <1>7 DEF Unique
<1>9. Cardinality(Listed') = 0
  BY <1>6, FS_EmptySet
<1>10. NumSlots * Len(chunks') = NumSlots /\ NumSlots \in Int
  BY <1>3, SlotsFact
<1>11. free' + Cardinality(Listed') = NumSlots * Len(chunks') /\ free' \in Int
  BY <1>9, <1>10
<1> QED  BY <1>3, <1>5, <1>6, <1>8, <1>11 DEF InChunks

\* The descriptors do not change.
LEMMA ItemsKept ==
  ASSUME InChunks, UNCHANGED <<chunks, free>>
  PROVE  InChunks' /\ Listed' = Listed
<1>1. Listed' = Listed /\ Descriptors' = Descriptors
  BY DEF Listed, Descriptors
<1>2. Unique'
  BY <1>1 DEF InChunks, Unique
<1> QED  BY <1>1, <1>2 DEF InChunks

-----------------------------------------------------------------------------
(* The buffers *)

\* What libxfs_writebufr leaves of the device and of the flags.
LEMMA Written ==
  ASSUME BufferTypes, NEW S, S \subseteq Bufs, Writebufr(S)
  PROVE  /\ disk' \in [Blocks -> Values \cup {None}]
         /\ flags' \in [Bufs -> SUBSET {"UPTODATE", "DIRTY"}]
         /\ \A b \in Bufs : "DIRTY" \in flags'[b] => "DIRTY" \in flags[b]
         /\ \A b \in Bufs \ S : flags'[b] = flags[b]
<1>1. PICK bad \in SUBSET Dirty(S) :
        /\ \E last \in [{blkno[b] : b \in Dirty(S) \ bad} -> Dirty(S) \ bad] :
             /\ \A k \in DOMAIN last : blkno[last[k]] = k
             /\ disk' = [k \in Blocks |->
                  IF k \in DOMAIN last THEN data[last[k]] ELSE disk[k]]
        /\ flags' = [b \in Bufs |->
             IF b \in Dirty(S) \ bad
             THEN (flags[b] \cup {"UPTODATE"}) \ {"DIRTY"} ELSE flags[b]]
  BY DEF Writebufr
<1>2. Dirty(S) \subseteq S /\ Dirty(S) \subseteq Bufs
  BY DEF Dirty
<1>3. PICK last \in [{blkno[b] : b \in Dirty(S) \ bad} -> Dirty(S) \ bad] :
        disk' = [k \in Blocks |-> IF k \in DOMAIN last THEN data[last[k]] ELSE disk[k]]
  BY <1>1
<1>4. disk \in [Blocks -> Values \cup {None}] /\ data \in [Bufs -> Values \cup {None}]
        /\ flags \in [Bufs -> SUBSET {"UPTODATE", "DIRTY"}]
  BY DEF BufferTypes
<1>5. disk' \in [Blocks -> Values \cup {None}]
  <2>1. ASSUME NEW k \in Blocks
        PROVE  (IF k \in DOMAIN last THEN data[last[k]] ELSE disk[k]) \in Values \cup {None}
    <3>1. k \in DOMAIN last => last[k] \in Bufs
      BY <1>2, <1>3
    <3> QED  BY <1>4, <3>1
  <2> QED  BY <1>3, <2>1
<1> QED  BY <1>1, <1>2, <1>4, <1>5

\* cache_node_get, hit or miss
LEMMA SearchKept ==
  ASSUME BInv, Search(T), UNCHANGED <<open, trans>>
  PROVE  BInv'
<1>0. T \in Threads /\ BufferTypes /\ Called /\ Placed /\ Counted
  BY OneThread DEF BInv
<1>1. /\ pc[T] = "search"
      /\ UNCHANGED <<disk, version, chain, freelist, blkno, data, flags, lock, held, want,
                     op, taken, todo, open, trans>>
      /\ Cached' = Cached
  BY DEF Search, store, Cached
<1> DEFINE found == {b \in Cached : blkno[b] = want[T]}
<1>2. CASE found # {}
  <2>1. PICK b : b = CHOOSE d \in found : \A c \in found : <<d, c>> \in chain
    OBVIOUS
  <2>2. cur' = [cur EXCEPT ![T] = b] /\ refs' = [refs EXCEPT ![b] = @ + 1]
          /\ pc' = [pc EXCEPT ![T] = "lock"]
    BY <1>2, <2>1 DEF Search, Goto
  <2>3. b \in Cached /\ blkno[b] = want[T] /\ b \in Bufs
    <3>1. PICK a \in found : TRUE
      BY <1>2
    <3>2. a \in Cached /\ <<a, a>> \in chain
      BY <3>1 DEF Cached
    <3>3. \A c \in found : c = a
      BY <1>0, <3>2 DEF Placed
    <3>4. \E d \in found : \A c \in found : <<d, c>> \in chain
      BY <3>1, <3>2, <3>3
    <3>5. b \in found
      BY <2>1, <3>4
    <3> QED  BY <3>5 DEF Cached
  <2>4. want[T] \in Blocks /\ op[T] \in {"get", "read"} /\ (trans <=> open)
          /\ (\A c \in held[T] : blkno[c] # want[T]) /\ taken[T] = {} /\ todo[T] = {}
    BY <1>0, <1>1 DEF Called, Asking, Calling
  <2>5. b \notin held[T] /\ refs[b] = 0
    BY <1>0, <1>1, <2>3, <2>4 DEF Counted, InUse, Using
  <2>6. pc'[T] = "lock" /\ cur'[T] = b
    BY <1>0, <2>2 DEF BufferTypes
  <2>7. BufferTypes'
    BY <1>0, <1>1, <2>2, <2>3, <2>5 DEF BufferTypes, Calling, Using
  <2>8. Called'
    BY <1>1, <2>3, <2>4, <2>6 DEF Called, Asking, Using, Calling
  <2>9. Placed'
    BY <1>0, <1>1 DEF Placed
  <2>10. Counted'
    <3>1. ASSUME NEW c \in Bufs
          PROVE  refs'[c] = IF c \in held[T] \/ c = b THEN 1 ELSE 0
      BY <1>0, <1>1, <2>2, <2>5 DEF Counted, InUse, Using, BufferTypes
    <3>2. \A c : InUse(c)' <=> c = b
      BY <2>6 DEF InUse, Using
    <3> QED  BY <1>0, <1>1, <3>1, <3>2 DEF Counted
  <2> QED  BY <2>7, <2>8, <2>9, <2>10 DEF BInv
<1>3. CASE found = {}
  <2>1. UNCHANGED <<cur, refs>> /\ pc' = [pc EXCEPT ![T] = "allocate"]
    BY <1>3 DEF Search, Goto
  <2>2. pc'[T] = "allocate"
    BY <1>0, <2>1 DEF BufferTypes
  <2>3. BufferTypes'
    BY <1>0, <1>1, <2>1 DEF BufferTypes, Calling
  <2>4. Called'
    BY <1>0, <1>1, <1>3, <2>1, <2>2 DEF Called, Asking, Using, Calling
  <2>5. Placed'
    BY <1>0, <1>1 DEF Placed
  <2>6. Counted'
    BY <1>0, <1>1, <2>1, <2>2 DEF Counted, InUse, Using
  <2> QED  BY <2>3, <2>4, <2>5, <2>6 DEF BInv
<1> QED  BY <1>2, <1>3

\* libxfs_getbufr
LEMMA AllocateKept ==
  ASSUME BInv, Allocate(T), UNCHANGED <<open, trans>>
  PROVE  BInv'
<1>0. T \in Threads /\ BufferTypes /\ Called /\ Placed /\ Counted
  BY OneThread DEF BInv
<1>1. /\ pc[T] = "allocate"
      /\ UNCHANGED <<disk, version, chain, data, lock, held, want, op, taken, todo, open, trans>>
      /\ Cached' = Cached /\ pc' = [pc EXCEPT ![T] = "insert"]
  BY DEF Allocate, store, Cached, Goto
<1>2. PICK b \in IF freelist # {} THEN freelist ELSE Fresh :
        /\ freelist' = freelist \ {b}
        /\ blkno' = [blkno EXCEPT ![b] = want[T]]
        /\ flags' = [flags EXCEPT ![b] = {}]
        /\ refs' = [refs EXCEPT ![b] = 1]
        /\ cur' = [cur EXCEPT ![T] = b]
  BY DEF Allocate, NewFlags
<1>3. want[T] \in Blocks /\ op[T] \in {"get", "read"} /\ (trans <=> open)
        /\ (\A c \in held[T] : blkno[c] # want[T]) /\ taken[T] = {} /\ todo[T] = {}
        /\ \A c \in Cached : blkno[c] # want[T]
  BY <1>0, <1>1 DEF Called, Asking, Calling
<1>4. b \in Bufs /\ b \notin Cached
  <2>1. CASE freelist # {}
    BY <1>0, <1>2, <2>1 DEF BufferTypes, Placed
  <2>2. CASE freelist = {}
    <3>1. b \in Bufs /\ blkno[b] = None
      BY <1>2, <2>2 DEF Fresh
    <3> QED  BY <1>0, <3>1, BufferAssumption DEF Placed
  <2> QED  BY <2>1, <2>2
<1>5. b \notin held[T] /\ held[T] \subseteq Cached
  BY <1>0, <1>4 DEF Counted
<1>6. pc'[T] = "insert" /\ cur'[T] = b
  BY <1>0, <1>1, <1>2 DEF BufferTypes
<1>7. BufferTypes'
  BY <1>0, <1>1, <1>2, <1>3, <1>4 DEF BufferTypes, Calling, Using
<1>8. blkno'[b] = want[T] /\ flags'[b] = {} /\ \A c \in Bufs : c # b => blkno'[c] = blkno[c]
  BY <1>0, <1>2, <1>4 DEF BufferTypes
<1>9. Cached \subseteq Bufs
  BY DEF Cached
<1>10. Called'
  <2>1. \A c \in Cached : blkno'[c] # want[T]
    BY <1>3, <1>4, <1>8, <1>9
  <2>2. \A c \in held'[T] : blkno'[c] # want[T]
    BY <1>1, <1>5, <2>1
  <2>3. b \notin Cached \cup freelist'
    BY <1>2, <1>4
  <2> QED  BY <1>1, <1>3, <1>4, <1>6, <1>8, <2>1, <2>2, <2>3 DEF Called, Asking, Using, Calling
<1>11. Placed'
  <2>1. \A c \in Cached : blkno'[c] = blkno[c]
    BY <1>4, <1>8, <1>9
  <2> QED  BY <1>0, <1>1, <1>2, <1>3, <2>1 DEF Placed
<1>12. Counted'
  <2>1. ASSUME NEW c \in Bufs PROVE refs'[c] = IF c \in held[T] \/ c = b THEN 1 ELSE 0
    BY <1>0, <1>1, <1>2, <1>4, <1>5 DEF Counted, InUse, Using, BufferTypes
  <2>2. \A c : InUse(c)' <=> c = b
    BY <1>6 DEF InUse, Using
  <2> QED  BY <1>0, <1>1, <2>1, <2>2 DEF Counted
<1> QED  BY <1>7, <1>10, <1>11, <1>12 DEF BInv

\* The insertion after a miss
LEMMA InsertKept ==
  ASSUME BInv, Insert(T), UNCHANGED <<open, trans>>
  PROVE  BInv'
<1>0. T \in Threads /\ BufferTypes /\ Called /\ Placed /\ Counted
  BY OneThread DEF BInv
<1>1. /\ pc[T] = "insert" /\ pc' = [pc EXCEPT ![T] = "lock"]
      /\ UNCHANGED <<disk, version, freelist, blkno, data, flags, refs, lock, held, want, op,
                     cur, taken, todo, open, trans>>
  BY DEF Insert, store, bufs, Goto
<1>2. PICK b : b = cur[T]
  OBVIOUS
<1>3. chain' = chain \cup ({b} \X (Cached \cup {b}))
  BY <1>2 DEF Insert, InFront
<1>4. b \in Bufs /\ blkno[b] = want[T] /\ want[T] \in Blocks /\ op[T] \in {"get", "read"}
        /\ (trans <=> open) /\ (\A c \in held[T] : blkno[c] # want[T])
        /\ taken[T] = {} /\ todo[T] = {} /\ b \notin Cached \cup freelist
        /\ \A c \in Cached : blkno[c] # want[T]
  BY <1>0, <1>1, <1>2 DEF Called, Asking, Calling, Using
<1>5. Cached \subseteq Bufs /\ chain \subseteq Cached \X Cached
  BY <1>0 DEF Cached, Placed
<1>6. Cached' = Cached \cup {b}
  BY <1>3, <1>4 DEF Cached
<1>7. pc'[T] = "lock"
  BY <1>0, <1>1 DEF BufferTypes
<1>8. BufferTypes'
  <2>1. chain' \subseteq Bufs \X Bufs
    BY <1>0, <1>3, <1>4, <1>5 DEF BufferTypes
  <2> QED  BY <1>0, <1>1, <2>1 DEF BufferTypes, Calling, Using
<1>9. Called'
  BY <1>1, <1>2, <1>4, <1>6, <1>7 DEF Called, Asking, Using, Calling
<1>10. Placed'
  <2>1. chain' \subseteq Cached' \X Cached'
    BY <1>3, <1>5, <1>6
  <2>2. ASSUME NEW c \in Cached', NEW d \in Cached', c # d
        PROVE  <<c, d>> \in chain' <=> <<d, c>> \notin chain'
    <3>1. CASE c \in Cached /\ d \in Cached
      BY <1>0, <1>3, <1>4, <2>2, <3>1 DEF Placed
    <3>2. CASE c = b
      <4>1. d \in Cached /\ <<d, c>> \notin chain
        BY <1>4, <1>5, <1>6, <2>2, <3>2
      <4> QED  BY <1>3, <2>2, <3>2, <4>1
    <3>3. CASE d = b
      <4>1. c \in Cached /\ <<c, d>> \notin chain
        BY <1>4, <1>5, <1>6, <2>2, <3>3
      <4> QED  BY <1>3, <2>2, <3>3, <4>1
    <3> QED  BY <1>6, <3>1, <3>2, <3>3
  <2> QED  BY <1>0, <1>1, <1>4, <1>6, <2>1, <2>2 DEF Placed
<1>11. Counted'
  BY <1>0, <1>1, <1>6, <1>7 DEF Counted, InUse, Using
<1> QED  BY <1>8, <1>9, <1>10, <1>11 DEF BInv

\* b_lock
LEMMA LockKept ==
  ASSUME BInv, Lock(T), UNCHANGED <<open, trans>>
  PROVE  BInv'
<1>0. T \in Threads /\ BufferTypes /\ Called /\ Placed /\ Counted
  BY OneThread DEF BInv
<1>1. /\ pc[T] = "lock"
      /\ UNCHANGED <<disk, version, chain, freelist, blkno, data, flags, refs, held, want, op,
                     cur, taken, todo, open, trans>>
      /\ Cached' = Cached
  BY DEF Lock, store, Cached
<1>2. PICK p \in {"read", "return"} :
        pc' = [pc EXCEPT ![T] = p] /\ (p = "read" => ~Valid(cur[T]))
  BY DEF Lock, Goto
<1>3. pc'[T] = p /\ p \in {"read", "return"}
  BY <1>0, <1>2 DEF BufferTypes
<1>4. BufferTypes'
  <2>1. lock' = [lock EXCEPT ![cur[T]] = IF UseLock THEN T ELSE None]
    BY DEF Lock
  <2>2. lock' \in [Bufs -> Threads \cup {None}]
    BY <1>0, <2>1 DEF BufferTypes
  <2> QED  BY <1>0, <1>1, <1>2, <2>2 DEF BufferTypes, Calling, Using
<1>5. Called'
  BY <1>0, <1>1, <1>2, <1>3 DEF Called, Asking, Using, Calling, Valid
<1>6. Placed'
  BY <1>0, <1>1 DEF Placed
<1>7. Counted'
  BY <1>0, <1>1, <1>3 DEF Counted, InUse, Using
<1> QED  BY <1>4, <1>5, <1>6, <1>7 DEF BInv

\* libxfs_readbufr, and its error
LEMMA ReadKept ==
  ASSUME BInv, Read(T), UNCHANGED <<open, trans>>
  PROVE  BInv'
<1>0. T \in Threads /\ BufferTypes /\ Called /\ Placed /\ Counted
  BY OneThread DEF BInv
<1>1. /\ pc[T] = "read"
      /\ UNCHANGED <<disk, version, chain, freelist, blkno, held, taken, todo, open, trans>>
      /\ Cached' = Cached
  BY DEF Read, store, Cached
<1>2. PICK b : b = cur[T]
  OBVIOUS
<1>3. b \in Bufs /\ blkno[b] = want[T] /\ want[T] \in Blocks /\ op[T] \in {"get", "read"}
        /\ (trans <=> open) /\ (\A c \in held[T] : blkno[c] # want[T]) /\ b \in Cached
        /\ taken[T] = {} /\ todo[T] = {}
  BY <1>0, <1>1, <1>2 DEF Called, Asking, Calling, Using
<1>4. b \notin held[T] /\ refs[b] = 1
  BY <1>0, <1>1, <1>2, <1>3 DEF Counted, InUse, Using
<1>5. Placed'
  BY <1>0, <1>1 DEF Placed
<1>6. CASE /\ data' = [data EXCEPT ![b] = disk[blkno[b]]]
           /\ flags' = [flags EXCEPT ![b] = @ \cup {"UPTODATE"}]
           /\ Goto(T, "return")
           /\ UNCHANGED <<refs, lock, want, op, cur>>
  <2>1. pc' = [pc EXCEPT ![T] = "return"] /\ pc'[T] = "return"
    BY <1>0, <1>6 DEF Goto, BufferTypes
  <2>2. BufferTypes'
    <3>1. disk[blkno[b]] \in Values \cup {None}
      BY <1>0, <1>3 DEF BufferTypes
    <3>2. data' \in [Bufs -> Values \cup {None}]
      BY <1>0, <1>6, <3>1 DEF BufferTypes
    <3>3. flags' \in [Bufs -> SUBSET {"UPTODATE", "DIRTY"}]
      BY <1>0, <1>6 DEF BufferTypes
    <3> QED  BY <1>0, <1>1, <1>6, <2>1, <3>2, <3>3 DEF BufferTypes, Calling, Using
  <2>3. Called'
    BY <1>1, <1>2, <1>3, <1>6, <2>1 DEF Called, Asking, Using, Calling
  <2>4. Counted'
    BY <1>0, <1>1, <1>6, <2>1 DEF Counted, InUse, Using
  <2> QED  BY <1>5, <2>2, <2>3, <2>4 DEF BInv
<1>7. CASE /\ refs' = [refs EXCEPT ![b] = @ - 1]
           /\ lock' = [lock EXCEPT ![b] = None]
           /\ Done(T)
           /\ UNCHANGED <<data, flags>>
  <2>1. pc' = [pc EXCEPT ![T] = "idle"] /\ want' = [want EXCEPT ![T] = None]
          /\ op' = [op EXCEPT ![T] = None] /\ cur' = [cur EXCEPT ![T] = None]
    BY <1>7 DEF Done, Goto
  <2>2. pc'[T] = "idle"
    BY <1>0, <2>1 DEF BufferTypes
  <2>3. BufferTypes'
    <3>0. refs \in [Bufs -> Nat] /\ refs' = [refs EXCEPT ![b] = 0]
      BY <1>0, <1>4, <1>7 DEF BufferTypes
    <3>1. refs' \in [Bufs -> Nat]
      BY <3>0
    <3>2. lock' \in [Bufs -> Threads \cup {None}]
      BY <1>0, <1>7 DEF BufferTypes
    <3> QED  BY <1>0, <1>1, <1>7, <2>1, <3>1, <3>2 DEF BufferTypes, Calling, Using
  <2>4. Called'
    BY <1>1, <1>3, <2>2 DEF Called, Asking, Using, Calling
  <2>5. Counted'
    <3>1. ASSUME NEW c \in Bufs PROVE refs'[c] = IF c \in held[T] THEN 1 ELSE 0
      BY <1>0, <1>1, <1>2, <1>4, <1>7 DEF Counted, InUse, Using, BufferTypes
    <3> QED  BY <1>0, <1>1, <2>2, <3>1 DEF Counted, InUse, Using
  <2> QED  BY <1>5, <2>3, <2>4, <2>5 DEF BInv
<1> QED  BY <1>2, <1>6, <1>7 DEF Read

\* The call returns the buffer.
LEMMA ReturnKept ==
  ASSUME BInv, Return(T)
  PROVE  BInv' /\ held'[T] = held[T] \cup {cur[T]} /\ cur[T] \in Bufs \ held[T]
<1>0. T \in Threads /\ BufferTypes /\ Called /\ Placed /\ Counted
  BY OneThread DEF BInv
<1>1. /\ pc[T] = "return"
      /\ UNCHANGED <<disk, version, chain, freelist, blkno, data, flags, refs, lock, taken, todo>>
      /\ Cached' = Cached
  BY DEF Return, store, bufs, Cached
<1>2. PICK b : b = cur[T]
  OBVIOUS
<1>3. b \in Bufs /\ blkno[b] = want[T] /\ (\A c \in held[T] : blkno[c] # want[T]) /\ b \in Cached
        /\ taken[T] = {} /\ todo[T] = {}
  BY <1>0, <1>1, <1>2 DEF Called, Asking, Calling, Using
<1>4. /\ pc' = [pc EXCEPT ![T] = "idle"] /\ want' = [want EXCEPT ![T] = None]
      /\ op' = [op EXCEPT ![T] = None] /\ cur' = [cur EXCEPT ![T] = None]
      /\ held' = [held EXCEPT ![T] = @ \cup {b}]
  BY <1>2 DEF Return, Done, Goto
<1>5. pc'[T] = "idle" /\ held'[T] = held[T] \cup {b}
  BY <1>0, <1>4 DEF BufferTypes
<1>6. BufferTypes'
  BY <1>0, <1>1, <1>3, <1>4 DEF BufferTypes, Calling, Using
<1>7. Called'
  BY <1>1, <1>3, <1>5 DEF Called, Asking, Using, Calling
<1>8. Placed'
  BY <1>0, <1>1 DEF Placed
<1>9. Counted'
  BY <1>0, <1>1, <1>2, <1>3, <1>5 DEF Counted, InUse, Using
<1> QED  BY <1>2, <1>3, <1>5, <1>6, <1>7, <1>8, <1>9 DEF BInv

\* What is left of the hash table when some buffers are taken out.
LEMMA TakenOut ==
  ASSUME BInv, NEW S, S \subseteq Cached, \A b \in S : refs[b] = 0,
         chain' = Without(S), taken' = [taken EXCEPT ![T] = S],
         todo' = [todo EXCEPT ![T] = S], pc' = [pc EXCEPT ![T] = "release"],
         pc[T] # "release",
         UNCHANGED <<disk, version, freelist, blkno, data, flags, refs, lock, held, want,
                     cur, open, trans>>,
         \/ op' = [op EXCEPT ![T] = "purge"] /\ pc[T] = "idle"
         \/ UNCHANGED op /\ pc[T] = "allocate"
  PROVE  BInv'
<1>0. T \in Threads /\ BufferTypes /\ Called /\ Placed /\ Counted
  BY OneThread DEF BInv
<1>1. pc'[T] = "release" /\ taken'[T] = S /\ todo'[T] = S /\ S \subseteq Bufs
  BY <1>0 DEF BufferTypes, Cached
<1>2. Cached' = Cached \ S
  BY DEF Cached, Without
<1>3. BufferTypes'
  <2>1. op' \in [Threads -> {"get", "read", "purge", None}]
    BY <1>0 DEF BufferTypes
  <2>2. chain' \subseteq Bufs \X Bufs
    BY <1>0 DEF BufferTypes, Without
  <2>3. taken' \in [Threads -> SUBSET Bufs] /\ todo' \in [Threads -> SUBSET Bufs]
    BY <1>0, <1>1 DEF BufferTypes
  <2>4. pc' \in [Threads -> Calling \cup {"idle", "release"}]
    BY <1>0 DEF BufferTypes
  <2> QED  BY <1>0, <2>1, <2>2, <2>3, <2>4 DEF BufferTypes
<1>4. Called'
  <2>1. CASE op' = [op EXCEPT ![T] = "purge"] /\ pc[T] = "idle"
    <3>1. op'[T] = "purge"
      BY <1>0, <2>1 DEF BufferTypes
    <3> QED  BY <1>1, <3>1 DEF Called, Asking, Using, Calling
  <2>2. CASE UNCHANGED op /\ pc[T] = "allocate"
    <3>1. want[T] \in Blocks /\ op[T] \in {"get", "read"} /\ (trans <=> open)
            /\ \A c \in held[T] : blkno[c] # want[T]
      BY <1>0, <2>2 DEF Called, Asking, Calling
    <3> QED  BY <1>1, <2>2, <3>1 DEF Called, Asking, Using, Calling
  <2> QED  BY <2>1, <2>2
<1>5. Placed'
  <2>1. chain' \subseteq Cached' \X Cached'
    BY <1>0, <1>2 DEF Placed, Without
  <2>2. \A b, c \in Cached' : b # c => (<<b, c>> \in chain' <=> <<c, b>> \notin chain')
    BY <1>0, <1>2 DEF Placed, Without
  <2>3. Cached' \cup taken'[T] = Cached /\ Cached' \cup todo'[T] = Cached
    BY <1>1, <1>2
  <2>4. /\ Cached' \cap freelist = {} /\ Cached' \cap S = {} /\ freelist \cap S = {}
        /\ \A b \in Cached : blkno[b] \in Blocks
        /\ \A b, c \in Cached : blkno[b] = blkno[c] => b = c
    BY <1>0, <1>2 DEF Placed
  <2> QED  BY <1>1, <2>1, <2>2, <2>3, <2>4 DEF Placed
<1>6. Counted'
  <2>1. ASSUME NEW b \in held[T] PROVE b \in Cached'
    <3>1. b \in Bufs /\ b \in Cached
      BY <1>0 DEF BufferTypes, Counted
    <3>2. refs[b] = 1
      BY <1>0, <3>1 DEF Counted
    <3> QED  BY <1>2, <3>1, <3>2
  <2>2. \A b : ~InUse(b) /\ ~InUse(b)'
    BY <1>1 DEF InUse, Using
  <2> QED  BY <1>0, <2>1, <2>2 DEF Counted
<1> QED  BY <1>3, <1>4, <1>5, <1>6 DEF BInv

\* cache_shake
LEMMA ShakeKept ==
  ASSUME BInv, Shake(T), UNCHANGED <<open, trans>>
  PROVE  BInv'
<1>1. PICK S \in SUBSET {b \in Bufs : Idle(b)} \ {{}} :
        /\ chain' = Without(S)
        /\ taken' = [taken EXCEPT ![T] = S] /\ todo' = [todo EXCEPT ![T] = S]
  BY DEF Shake
<1>2. S \subseteq Cached /\ \A b \in S : refs[b] = 0
  BY <1>1 DEF Idle
<1>3. /\ pc' = [pc EXCEPT ![T] = "release"] /\ pc[T] = "allocate" /\ pc[T] # "release"
      /\ UNCHANGED <<disk, version, freelist, blkno, data, flags, refs, lock, held, want,
                     cur, open, trans, op>>
  BY DEF Shake, Goto, store, bufs
<1> QED  BY <1>1, <1>2, <1>3, TakenOut

\* libxfs_purgebuf
LEMMA PurgebufKept ==
  ASSUME BInv, Purgebuf(T), UNCHANGED <<open, trans>>
  PROVE  BInv'
<1>1. PICK b \in Bufs :
        /\ Idle(b)
        /\ chain' = Without({b})
        /\ taken' = [taken EXCEPT ![T] = {b}] /\ todo' = [todo EXCEPT ![T] = {b}]
  BY DEF Purgebuf
<1>2. PICK S : S = {b}
  OBVIOUS
<1>4. /\ S \subseteq Cached /\ \A c \in S : refs[c] = 0
      /\ chain' = Without(S)
      /\ taken' = [taken EXCEPT ![T] = S] /\ todo' = [todo EXCEPT ![T] = S]
  BY <1>1, <1>2 DEF Idle
<1>3. /\ pc' = [pc EXCEPT ![T] = "release"] /\ pc[T] = "idle" /\ pc[T] # "release"
      /\ op' = [op EXCEPT ![T] = "purge"]
      /\ UNCHANGED <<disk, version, freelist, blkno, data, flags, refs, lock, held, want,
                     cur, open, trans>>
  BY DEF Purgebuf, Goto, store, bufs
<1> QED  BY <1>3, <1>4, TakenOut

\* One of the buffers taken out is written, or need not be.
LEMMA ReleaseKept ==
  ASSUME BInv, Release(T), UNCHANGED <<open, trans>>
  PROVE  BInv'
<1>0. T \in Threads /\ BufferTypes /\ Called /\ Placed /\ Counted
  BY OneThread DEF BInv
<1>1. /\ pc[T] = "release"
      /\ UNCHANGED <<version, chain, freelist, blkno, data, refs, lock, held, pc, want, op,
                     cur, taken, open, trans>>
      /\ Cached' = Cached
  BY DEF Release, Cached
<1>2. PICK b \in todo[T] : Writebufr({b}) /\ todo' = [todo EXCEPT ![T] = @ \ {b}]
  BY DEF Release
<1>3. {b} \subseteq Bufs
  BY <1>0, <1>2 DEF BufferTypes
<1>4. disk' \in [Blocks -> Values \cup {None}] /\ flags' \in [Bufs -> SUBSET {"UPTODATE", "DIRTY"}]
  BY <1>0, <1>2, <1>3, Written
<1>5. todo'[T] = todo[T] \ {b}
  BY <1>0, <1>2 DEF BufferTypes
<1>6. BufferTypes'
  <2>1. todo' \in [Threads -> SUBSET Bufs]
    BY <1>0, <1>2 DEF BufferTypes
  <2> QED  BY <1>0, <1>1, <1>4, <2>1 DEF BufferTypes
<1>7. Called'
  BY <1>0, <1>1, <1>5 DEF Called, Asking, Using, Calling
<1>8. Placed'
  BY <1>0, <1>1, <1>5 DEF Placed
<1>9. Counted'
  BY <1>0, <1>1 DEF Counted, InUse
<1> QED  BY <1>6, <1>7, <1>8, <1>9 DEF BInv

\* They go to the free list.
LEMMA ReleaseDoneKept ==
  ASSUME BInv, ReleaseDone(T), UNCHANGED <<open, trans>>
  PROVE  BInv'
<1>0. T \in Threads /\ BufferTypes /\ Called /\ Placed /\ Counted
  BY OneThread DEF BInv
<1>1. /\ pc[T] = "release" /\ todo[T] = {} /\ freelist' = freelist \cup taken[T]
      /\ taken' = [taken EXCEPT ![T] = {}]
      /\ UNCHANGED <<disk, version, chain, blkno, data, flags, refs, lock, held, todo, open,
                     trans>>
      /\ Cached' = Cached
  BY DEF ReleaseDone, Cached, store, bufs
<1>2. taken'[T] = {} /\ todo'[T] = {}
  BY <1>0, <1>1 DEF BufferTypes
<1>3. Placed'
  BY <1>0, <1>1, <1>2 DEF Placed
<1>4. freelist' \subseteq Bufs /\ taken' \in [Threads -> SUBSET Bufs]
  BY <1>0, <1>1 DEF BufferTypes
<1>5. CASE op[T] = "purge" /\ Done(T)
  <2>1. /\ pc' = [pc EXCEPT ![T] = "idle"] /\ want' = [want EXCEPT ![T] = None]
        /\ op' = [op EXCEPT ![T] = None] /\ cur' = [cur EXCEPT ![T] = None]
    BY <1>5 DEF Done, Goto
  <2>2. pc'[T] = "idle"
    BY <1>0, <2>1 DEF BufferTypes
  <2>3. BufferTypes'
    BY <1>0, <1>1, <1>4, <2>1 DEF BufferTypes
  <2>4. Called'
    BY <1>2, <2>2 DEF Called, Asking, Using, Calling
  <2>5. Counted'
    BY <1>0, <1>1, <2>2 DEF Counted, InUse, Using
  <2> QED  BY <1>3, <2>3, <2>4, <2>5 DEF BInv
<1>6. CASE op[T] # "purge" /\ Goto(T, "search") /\ UNCHANGED <<want, op, cur>>
  <2>1. pc' = [pc EXCEPT ![T] = "search"]
    BY <1>6 DEF Goto
  <2>2. pc'[T] = "search"
    BY <1>0, <2>1 DEF BufferTypes
  <2>3. BufferTypes'
    BY <1>0, <1>1, <1>4, <1>6, <2>1 DEF BufferTypes, Calling
  <2>4. want[T] \in Blocks /\ op[T] \in {"get", "read"} /\ (trans <=> open)
          /\ \A c \in held[T] : blkno[c] # want[T]
    BY <1>0, <1>1, <1>6 DEF Called, Asking
  <2>5. Called'
    BY <1>1, <1>2, <1>6, <2>2, <2>4 DEF Called, Asking, Using, Calling
  <2>6. Counted'
    BY <1>0, <1>1, <2>2 DEF Counted, InUse, Using
  <2> QED  BY <1>3, <2>3, <2>5, <2>6 DEF BInv
<1> QED  BY <1>5, <1>6 DEF ReleaseDone

\* A call for a block, by a client that does not have it.
LEMMA AskKept ==
  ASSUME BInv, NEW o \in {"get", "read"}, NEW k \in Blocks, Ask(T, o, k),
         UNCHANGED open, trans' <=> open
  PROVE  BInv' /\ UNCHANGED held
<1>0. T \in Threads /\ BufferTypes /\ Called /\ Placed /\ Counted
  BY OneThread DEF BInv
<1>1. /\ pc[T] = "idle" /\ (\A b \in held[T] : blkno[b] # k)
      /\ op' = [op EXCEPT ![T] = o] /\ want' = [want EXCEPT ![T] = k]
      /\ pc' = [pc EXCEPT ![T] = "search"]
      /\ UNCHANGED <<disk, version, chain, freelist, blkno, data, flags, refs, lock, held,
                     cur, taken, todo>>
      /\ Cached' = Cached
  BY DEF Ask, Goto, Cached, store, bufs
<1>2. pc'[T] = "search" /\ op'[T] = o /\ want'[T] = k /\ taken[T] = {} /\ todo[T] = {}
  BY <1>0, <1>1 DEF BufferTypes, Called
<1>3. BufferTypes'
  BY <1>0, <1>1 DEF BufferTypes, Calling
<1>4. Called'
  BY <1>1, <1>2 DEF Called, Asking, Using, Calling
<1>5. Placed'
  BY <1>0, <1>1 DEF Placed
<1>6. Counted'
  BY <1>0, <1>1, <1>2 DEF Counted, InUse, Using
<1> QED  BY <1>1, <1>3, <1>4, <1>5, <1>6 DEF BInv

\* No call is under way, and at most contents and flags change.
LEMMA IdleKept ==
  ASSUME BInv, pc[T] = "idle",
         UNCHANGED <<chain, freelist, blkno, refs, lock, held, locals>>,
         disk' \in [Blocks -> Values \cup {None}], version' \in [Blocks -> 0 .. MaxVersion],
         data' \in [Bufs -> Values \cup {None}],
         flags' \in [Bufs -> SUBSET {"UPTODATE", "DIRTY"}]
  PROVE  BInv'
<1>0. BufferTypes /\ Called /\ Placed /\ Counted
  BY DEF BInv
<1>1. UNCHANGED <<pc, want, op, cur, taken, todo>> /\ Cached' = Cached
  BY DEF locals, Cached
<1>2. BufferTypes'
  BY <1>0, <1>1 DEF BufferTypes
<1>3. Called'
  BY <1>0, <1>1 DEF Called, Asking, Calling, Using
<1>4. Placed'
  BY <1>0, <1>1 DEF Placed
<1>5. Counted'
  BY <1>0, <1>1 DEF Counted, InUse
<1> QED  BY <1>2, <1>3, <1>4, <1>5 DEF BInv

\* The buffers do not change.
LEMMA SameKept ==
  ASSUME BInv, UNCHANGED bufferVars, pc[T] = "idle" \/ UNCHANGED <<open, trans>>
  PROVE  BInv' /\ UNCHANGED <<held, Cached>>
<1>0. BufferTypes /\ Called /\ Placed /\ Counted
  BY DEF BInv
<1>1. UNCHANGED <<disk, version, chain, freelist, blkno, data, flags, refs, lock, held, pc,
                  want, op, cur, taken, todo>> /\ Cached' = Cached
  BY DEF bufferVars, store, bufs, locals, Cached
<1>2. BufferTypes'
  BY <1>0, <1>1 DEF BufferTypes
<1>3. Called'
  BY <1>0, <1>1 DEF Called, Asking, Calling, Using, Valid
<1>4. Placed'
  BY <1>0, <1>1 DEF Placed
<1>5. Counted'
  BY <1>0, <1>1 DEF Counted, InUse
<1> QED  BY <1>1, <1>2, <1>3, <1>4, <1>5 DEF BInv

\* Buffers are put back.
LEMMA PutKept ==
  ASSUME BInv, pc[T] = "idle", NEW S, S \subseteq held[T], Put(T, S),
         UNCHANGED <<disk, version, chain, freelist, blkno, data, locals>>,
         flags' \in [Bufs -> SUBSET {"UPTODATE", "DIRTY"}]
  PROVE  BInv' /\ held'[T] = held[T] \ S
<1>0. T \in Threads /\ BufferTypes /\ Called /\ Placed /\ Counted
  BY OneThread DEF BInv
<1>1. UNCHANGED <<pc, want, op, cur, taken, todo>> /\ Cached' = Cached
  BY DEF locals, Cached
<1>2. /\ lock' = [b \in Bufs |-> IF b \in S THEN None ELSE lock[b]]
      /\ refs' = [b \in Bufs |-> IF b \in S THEN refs[b] - 1 ELSE refs[b]]
      /\ held' = [held EXCEPT ![T] = @ \ S]
  BY DEF Put
<1>3. held'[T] = held[T] \ S
  BY <1>0, <1>2 DEF BufferTypes
<1>4. ~InUse(T) /\ \A b : ~InUse(b) /\ ~InUse(b)'
  BY <1>1 DEF InUse, Using
<1>5. ASSUME NEW b \in Bufs PROVE refs'[b] = IF b \in held'[T] THEN 1 ELSE 0
  <2>1. refs[b] = IF b \in held[T] THEN 1 ELSE 0
    BY <1>0, <1>4 DEF Counted
  <2> QED  BY <1>2, <1>3, <2>1
<1>6. BufferTypes'
  <2>1. refs' \in [Bufs -> Nat]
    BY <1>2, <1>5
  <2>2. lock' \in [Bufs -> Threads \cup {None}] /\ held' \in [Threads -> SUBSET Bufs]
    BY <1>0, <1>2 DEF BufferTypes
  <2> QED  BY <1>0, <1>1, <2>1, <2>2 DEF BufferTypes
<1>7. Called'
  BY <1>0, <1>1 DEF Called, Asking, Calling, Using
<1>8. Placed'
  BY <1>0, <1>1 DEF Placed
<1>9. Counted'
  BY <1>0, <1>1, <1>3, <1>4, <1>5 DEF Counted
<1> QED  BY <1>3, <1>6, <1>7, <1>8, <1>9 DEF BInv

-----------------------------------------------------------------------------
(* What is joined *)

JInv == TransTypes /\ InChunks /\ Joins

\* What is joined does not change.
LEMMA JoinsSame ==
  ASSUME JInv, UNCHANGED <<tvars, ivars, held, mine>>, trans' \in BOOLEAN
  PROVE  JInv'
<1>0. TransTypes /\ InChunks /\ Joins
  BY DEF JInv
<1>1. UNCHANGED <<open, tdirty, chunks, free, logged, item, joined, freed, ili, itransp,
                  iref, unflushed, held, mine>>
  BY DEF tvars, ivars
<1>2. InChunks' /\ Listed' = Listed
  BY <1>0, <1>1, ItemsKept
<1>3. TransTypes'
  BY <1>0, <1>1 DEF TransTypes
<1>4. (\A b \in Bufs : JoinedBuf(b)') /\ (\A i \in Inodes : JoinedInode(i)')
  BY <1>0, <1>1 DEF Joins, JoinedBuf, JoinedInode
<1>5. Joins'
  BY <1>0, <1>1, <1>2, <1>4 DEF Joins
<1> QED  BY <1>2, <1>3, <1>5 DEF JInv

\* The steps inside a call leave what the client has.
LEMMA InsideKept ==
  ASSUME BInv, Inside(T), UNCHANGED <<open, trans>>
  PROVE  BInv' /\ UNCHANGED held
<1>1. CASE Search(T)
  BY <1>1, SearchKept DEF Search
<1>2. CASE Allocate(T)
  BY <1>2, AllocateKept DEF Allocate
<1>3. CASE Insert(T)
  BY <1>3, InsertKept DEF Insert
<1>4. CASE Lock(T)
  BY <1>4, LockKept DEF Lock
<1>5. CASE Read(T)
  BY <1>5, ReadKept DEF Read
<1>6. CASE Shake(T)
  BY <1>6, ShakeKept DEF Shake
<1>7. CASE Release(T)
  BY <1>7, ReleaseKept DEF Release
<1>8. CASE ReleaseDone(T)
  BY <1>8, ReleaseDoneKept DEF ReleaseDone
<1> QED  BY <1>1, <1>2, <1>3, <1>4, <1>5, <1>6, <1>7, <1>8 DEF Inside

\* libxfs_bcache_flush
LEMMA FlushKept ==
  ASSUME BInv, Flush(T)
  PROVE  BInv' /\ UNCHANGED held
<1>1. T \in Threads /\ BufferTypes
  BY OneThread DEF BInv
<1>2. pc[T] = "idle" /\ Writebufr(Cached)
        /\ UNCHANGED <<version, chain, freelist, blkno, data, refs, lock, held, locals>>
  BY <1>1 DEF Flush
<1>3. Cached \subseteq Bufs
  BY DEF Cached
<1>4. disk' \in [Blocks -> Values \cup {None}] /\ flags' \in [Bufs -> SUBSET {"UPTODATE", "DIRTY"}]
  BY <1>1, <1>2, <1>3, Written
<1>5. version' \in [Blocks -> 0 .. MaxVersion] /\ data' \in [Bufs -> Values \cup {None}]
  BY <1>1, <1>2 DEF BufferTypes
<1> QED  BY <1>2, <1>4, <1>5, IdleKept

\* A buffer comes to the client, or goes back.
LEMMA MineKept ==
  ASSUME JInv, UNCHANGED <<tvars, ivars>>, trans' \in BOOLEAN,
         NEW b \in Bufs, b \notin joined,
         \/ mine' = mine \cup {b} /\ held'[T] = held[T] \cup {b}
         \/ mine' = mine \ {b} /\ held'[T] = held[T] \ {b}
  PROVE  JInv'
<1>0. TransTypes /\ InChunks /\ Joins
  BY DEF JInv
<1>1. UNCHANGED <<open, tdirty, chunks, free, logged, item, joined, freed, ili, itransp,
                  iref, unflushed>>
  BY DEF tvars, ivars
<1>2. InChunks' /\ Listed' = Listed
  BY <1>0, <1>1, ItemsKept
<1>3. TransTypes'
  BY <1>0, <1>1 DEF TransTypes, Things
<1>4. \A x : x # b => (x \in mine' <=> x \in mine)
  OBVIOUS
<1>5. ASSUME NEW c \in Bufs PROVE JoinedBuf(c)'
  <2>1. JoinedBuf(c) /\ (c \in joined => (c \in mine' <=> c \in mine))
    BY <1>0, <1>4 DEF Joins
  <2> QED  BY <1>1, <2>1 DEF JoinedBuf
<1>6. ASSUME NEW i \in Inodes PROVE JoinedInode(i)'
  <2>1. JoinedInode(i) /\ (i \in mine' <=> i \in mine)
    BY <1>0, <1>4, ThingsFact DEF Joins
  <2> QED  BY <1>1, <2>1 DEF JoinedInode
<1>7. held'[T] = (mine' \cap Bufs) \cup joined
  BY <1>0 DEF Joins
<1> QED  BY <1>0, <1>1, <1>2, <1>3, <1>5, <1>6, <1>7 DEF JInv, Joins

\* The buffer cache, used with no transaction or below one
LEMMA CacheKept ==
  ASSUME IInv, Cache
  PROVE  IInv'
<1>0. BInv /\ JInv /\ UNCHANGED <<tvars, ivars>> /\ UNCHANGED open /\ T \in Threads
        /\ trans \in BOOLEAN /\ Joins /\ BufferTypes
  BY OneThread DEF IInv, Cache, JInv, tvars, TransTypes, BInv
<1>1. CASE Inside(T) /\ UNCHANGED <<trans, mine>>
  <2>1. BInv' /\ UNCHANGED held
    BY <1>0, <1>1, InsideKept
  <2> QED  BY <1>0, <1>1, <2>1, JoinsSame DEF IInv, JInv
<1>2. CASE ~open /\ Purgebuf(T) /\ UNCHANGED <<trans, mine>>
  <2>1. BInv' /\ UNCHANGED held
    BY <1>0, <1>2, PurgebufKept DEF Purgebuf
  <2> QED  BY <1>0, <1>2, <2>1, JoinsSame DEF IInv, JInv
<1>3. CASE ~open /\ Flush(T) /\ UNCHANGED <<trans, mine>>
  <2>1. BInv' /\ UNCHANGED held
    BY <1>0, <1>3, FlushKept
  <2> QED  BY <1>0, <1>3, <2>1, JoinsSame DEF IInv, JInv
<1>4. ASSUME NEW k \in Blocks, ~open, Ask(T, "read", k), trans' = FALSE, UNCHANGED mine
      PROVE  IInv'
  <2>1. BInv' /\ UNCHANGED held
    BY <1>0, <1>4, AskKept
  <2>2. trans' \in BOOLEAN
    BY <1>4
  <2> QED  BY <1>0, <1>4, <2>1, <2>2, JoinsSame DEF IInv, JInv
<1>5. CASE ~trans /\ Return(T) /\ mine' = mine \cup {cur[T]} /\ UNCHANGED trans
  <2>1. PICK b : b = cur[T]
    OBVIOUS
  <2>2. BInv' /\ held'[T] = held[T] \cup {b} /\ b \in Bufs \ held[T]
    BY <1>0, <1>5, <2>1, ReturnKept
  <2>3. b \in Bufs /\ b \notin joined
    BY <1>0, <2>2 DEF Joins
  <2>4. JInv'
    BY <1>0, <1>5, <2>1, <2>2, <2>3, MineKept
  <2> QED  BY <2>2, <2>4 DEF IInv, JInv
<1>6. ASSUME NEW b \in (mine \cap Bufs) \ joined, Putbuf(T, b), mine' = mine \ {b}, UNCHANGED trans
      PROVE  IInv'
  <2>1. PICK S : S = {b}
    OBVIOUS
  <2>2. pc[T] = "idle" /\ S \subseteq held[T] /\ Put(T, S)
          /\ UNCHANGED <<disk, version, chain, freelist, blkno, data, locals, flags>>
    BY <1>6, <2>1 DEF Putbuf, store
  <2>3. flags' \in [Bufs -> SUBSET {"UPTODATE", "DIRTY"}]
    BY <1>0, <2>2 DEF BufferTypes
  <2>4. BInv' /\ held'[T] = held[T] \ S
    BY <1>0, <2>2, <2>3, PutKept
  <2>5. held'[T] = held[T] \ {b} /\ b \in Bufs /\ b \notin joined
    BY <1>6, <2>1, <2>4
  <2>6. JInv'
    BY <1>0, <1>6, <2>5, MineKept
  <2> QED  BY <2>4, <2>6 DEF IInv, JInv
<1> QED  BY <1>1, <1>2, <1>3, <1>4, <1>5, <1>6 DEF Cache

\* What a step may do to one buffer, its item and the transaction.
OneBuf(b, r) ==
  /\ UNCHANGED <<ili, itransp, iref, unflushed, open>>
  /\ r \in Item /\ item' = [item EXCEPT ![b] = r]
  /\ \A x : x # b => (x \in joined' <=> x \in joined)
  /\ \A x : x # b => (x \in mine' <=> x \in mine)
  /\ b \in joined' => open
  /\ IF b \in joined' THEN "HOLD" \in r.flags <=> b \in mine' ELSE "HOLD" \notin r.flags
  /\ held'[T] = (mine' \cap Bufs) \cup joined'
  /\ InChunks' /\ Listed' = joined' \cup itransp
  /\ logged' \subseteq Listed' /\ (logged' # {} => tdirty') /\ (~open => ~tdirty')
  /\ tdirty' \in BOOLEAN /\ trans' \in BOOLEAN /\ freed' \subseteq Blocks

\* Such a step keeps the others joined as they are.
LEMMA OneBufKept ==
  ASSUME JInv, NEW b \in Bufs, NEW r, OneBuf(b, r)
  PROVE  JInv'
<1>0. TransTypes /\ InChunks /\ Joins
  BY DEF JInv
<1>1. /\ UNCHANGED <<ili, itransp, iref, unflushed, open>>
      /\ r \in Item /\ item' = [item EXCEPT ![b] = r]
      /\ \A x : x # b => (x \in joined' <=> x \in joined)
      /\ \A x : x # b => (x \in mine' <=> x \in mine)
      /\ b \in joined' => open
      /\ IF b \in joined' THEN "HOLD" \in r.flags <=> b \in mine' ELSE "HOLD" \notin r.flags
      /\ held'[T] = (mine' \cap Bufs) \cup joined'
      /\ InChunks' /\ Listed' = joined' \cup itransp
      /\ logged' \subseteq Listed' /\ (logged' # {} => tdirty') /\ (~open => ~tdirty')
      /\ tdirty' \in BOOLEAN /\ trans' \in BOOLEAN /\ freed' \subseteq Blocks
  BY DEF OneBuf
<1>2. TransTypes'
  <2>1. item' \in [Bufs -> Item \cup {None}]
    BY <1>0, <1>1 DEF TransTypes
  <2>2. joined' \subseteq Bufs
    BY <1>0, <1>1 DEF TransTypes
  <2>3. mine' \subseteq Things
    BY <1>0, <1>1 DEF TransTypes, Things
  <2> QED  BY <1>0, <1>1, <2>1, <2>2, <2>3 DEF TransTypes
<1>3. ASSUME NEW c \in Bufs PROVE JoinedBuf(c)'
  <2>1. CASE c = b
    <3>1. item'[c] = r
      BY <1>0, <1>1, <2>1 DEF TransTypes
    <3> QED  BY <1>1, <2>1, <3>1 DEF JoinedBuf
  <2>2. CASE c # b
    <3>1. item'[c] = item[c] /\ JoinedBuf(c) /\ (c \in joined' <=> c \in joined)
            /\ (c \in mine' <=> c \in mine)
      BY <1>0, <1>1, <2>2 DEF TransTypes, Joins
    <3> QED  BY <3>1 DEF JoinedBuf
  <2> QED  BY <2>1, <2>2
<1>4. ASSUME NEW i \in Inodes PROVE JoinedInode(i)'
  <2>1. JoinedInode(i) /\ i # b
    BY <1>0, ThingsFact DEF Joins
  <2>2. i \in mine' <=> i \in mine
    BY <1>1, <2>1
  <2> QED  BY <1>1, <2>1, <2>2 DEF JoinedInode
<1>5. ~open' => joined' = {} /\ itransp' = {} /\ ~tdirty'
  BY <1>0, <1>1 DEF Joins
<1> QED  BY <1>1, <1>2, <1>3, <1>4, <1>5 DEF JInv, Joins

\* What a step may do to one inode, its item and the transaction.
OneInode(i, r) ==
  /\ UNCHANGED <<item, joined, freed, held, open, trans>>
  /\ r \in Ili \cup {None} /\ ili' = [ili EXCEPT ![i] = r]
  /\ iref' = [iref EXCEPT ![i] = IF i \in mine' \cup itransp' THEN 1 ELSE 0]
  /\ \A x : x # i => (x \in itransp' <=> x \in itransp)
  /\ \A x : x # i => (x \in mine' <=> x \in mine)
  /\ i \in itransp' => open
  /\ IF i \in itransp' THEN r \in Ili /\ (r.hold <=> i \in mine') ELSE r # None => ~r.hold
  /\ InChunks' /\ Listed' = joined \cup itransp'
  /\ logged' \subseteq Listed' /\ (logged' # {} => tdirty') /\ (~open => ~tdirty')
  /\ tdirty' \in BOOLEAN /\ unflushed' \subseteq Inodes

\* Such a step keeps the others joined as they are.
LEMMA OneInodeKept ==
  ASSUME JInv, NEW i \in Inodes, NEW r, OneInode(i, r)
  PROVE  JInv'
<1>0. TransTypes /\ InChunks /\ Joins
  BY DEF JInv
<1>1. /\ UNCHANGED <<item, joined, freed, held, open, trans>>
      /\ r \in Ili \cup {None} /\ ili' = [ili EXCEPT ![i] = r]
      /\ iref' = [iref EXCEPT ![i] = IF i \in mine' \cup itransp' THEN 1 ELSE 0]
      /\ \A x : x # i => (x \in itransp' <=> x \in itransp)
      /\ \A x : x # i => (x \in mine' <=> x \in mine)
      /\ i \in itransp' => open
      /\ IF i \in itransp' THEN r \in Ili /\ (r.hold <=> i \in mine') ELSE r # None => ~r.hold
      /\ InChunks' /\ Listed' = joined \cup itransp'
      /\ logged' \subseteq Listed' /\ (logged' # {} => tdirty') /\ (~open => ~tdirty')
      /\ tdirty' \in BOOLEAN /\ unflushed' \subseteq Inodes
  BY DEF OneInode
<1>2. TransTypes'
  <2>1. ili' \in [Inodes -> Ili \cup {None}]
    BY <1>0, <1>1 DEF TransTypes
  <2>2. itransp' \subseteq Inodes
    BY <1>0, <1>1 DEF TransTypes
  <2>3. mine' \subseteq Things
    BY <1>0, <1>1 DEF TransTypes, Things
  <2>4. iref' \in [Inodes -> Nat]
    BY <1>0, <1>1 DEF TransTypes
  <2> QED  BY <1>0, <1>1, <2>1, <2>2, <2>3, <2>4 DEF TransTypes
<1>3. ASSUME NEW j \in Inodes PROVE JoinedInode(j)'
  <2>1. CASE j = i
    <3>1. ili'[j] = r /\ iref'[j] = IF i \in mine' \cup itransp' THEN 1 ELSE 0
      BY <1>0, <1>1, <2>1 DEF TransTypes
    <3> QED  BY <1>1, <2>1, <3>1 DEF JoinedInode
  <2>2. CASE j # i
    <3>1. ili'[j] = ili[j] /\ iref'[j] = iref[j] /\ JoinedInode(j)
            /\ (j \in itransp' <=> j \in itransp) /\ (j \in mine' <=> j \in mine)
      BY <1>0, <1>1, <2>2 DEF TransTypes, Joins
    <3> QED  BY <3>1 DEF JoinedInode
  <2> QED  BY <2>1, <2>2
<1>4. ASSUME NEW b \in Bufs PROVE JoinedBuf(b)'
  <2>1. JoinedBuf(b) /\ i # b
    BY <1>0, ThingsFact DEF Joins
  <2>2. b \in mine' <=> b \in mine
    BY <1>1, <2>1
  <2> QED  BY <1>1, <2>1, <2>2 DEF JoinedBuf
<1>5. ~open' => joined' = {} /\ itransp' = {} /\ ~tdirty'
  BY <1>0, <1>1 DEF Joins
<1>6. held'[T] = (mine' \cap Bufs) \cup joined'
  <2>1. mine' \cap Bufs = mine \cap Bufs
    BY <1>1, ThingsFact
  <2> QED  BY <1>0, <1>1, <2>1 DEF Joins
<1> QED  BY <1>1, <1>2, <1>3, <1>4, <1>5, <1>6 DEF JInv, Joins

\* The facts of the invariant the steps of a transaction use.
LEMMA Facts ==
  ASSUME IInv
  PROVE  /\ BInv /\ JInv /\ T \in Threads
         /\ joined \subseteq Bufs /\ itransp \subseteq Inodes /\ mine \subseteq Bufs \cup Inodes
         /\ Bufs \cap Inodes = {} /\ Listed \cap Bufs = joined /\ Listed \cap Inodes = itransp
         /\ Listed = joined \cup itransp /\ logged \subseteq Listed
         /\ held[T] = (mine \cap Bufs) \cup joined /\ held[T] \subseteq Cached
         /\ (~open => joined = {} /\ itransp = {} /\ ~tdirty /\ logged = {})
         /\ (logged # {} => tdirty)
         /\ open \in BOOLEAN /\ tdirty \in BOOLEAN /\ trans \in BOOLEAN /\ freed \subseteq Blocks
         /\ unflushed \subseteq Inodes /\ Cached \subseteq Bufs
         /\ InChunks /\ chunks \in Seq(Chunk)
<1>1. BufferTypes /\ Counted /\ TransTypes /\ InChunks /\ Joins
  BY DEF IInv, BInv
<1>2. joined \subseteq Bufs /\ itransp \subseteq Inodes /\ mine \subseteq Bufs \cup Inodes
        /\ Bufs \cap Inodes = {}
  BY <1>1, ThingsFact DEF TransTypes, Things
<1>3. Listed = joined \cup itransp /\ logged \subseteq Listed
        /\ held[T] = (mine \cap Bufs) \cup joined
        /\ (~open => joined = {} /\ itransp = {} /\ ~tdirty) /\ (logged # {} => tdirty)
  BY <1>1 DEF Joins
<1> QED  BY <1>1, <1>2, <1>3, OneThread DEF IInv, BInv, JInv, TransTypes, Counted, InChunks, Cached

\* What is held is cached, with its block.
LEMMA JoinedFact ==
  ASSUME IInv, NEW b \in joined
  PROVE  /\ b \in Bufs /\ b \in Listed /\ open /\ b \in held[T] /\ b \in Cached
         /\ blkno[b] \in Blocks
         /\ item[b] \in Item /\ item[b].flags \subseteq {"HOLD", "DIRTY", "STALE"}
         /\ item[b].recur \in 0 .. MaxRecur /\ ("HOLD" \in item[b].flags <=> b \in mine)
<1>1. b \in Bufs /\ b \in Listed /\ open /\ b \in held[T] /\ b \in Cached
  BY Facts
<1>2. Placed /\ Joins
  BY DEF IInv, BInv
<1>3. JoinedBuf(b) /\ blkno[b] \in Blocks
  BY <1>1, <1>2 DEF Joins, Placed
<1> QED  BY <1>1, <1>3 DEF JoinedBuf, Item

\* Begin a transaction.
LEMMA BeginKept ==
  ASSUME IInv, Begin
  PROVE  IInv'
<1>0. BInv /\ TransTypes /\ InChunks /\ Joins /\ ~open /\ pc[T] = "idle"
  BY DEF IInv, Begin
<1>1. /\ open' = TRUE /\ UNCHANGED bufferVars
      /\ UNCHANGED <<tdirty, chunks, free, logged, item, joined, freed, ili, itransp, iref,
                     unflushed, trans, mine>>
  BY DEF Begin, ivars
<1>2. BInv' /\ UNCHANGED held
  BY <1>0, <1>1, SameKept
<1>3. InChunks' /\ Listed' = Listed
  BY <1>0, <1>1, ItemsKept
<1>4. TransTypes'
  BY <1>0, <1>1 DEF TransTypes
<1>5. (\A b \in Bufs : JoinedBuf(b)') /\ (\A i \in Inodes : JoinedInode(i)')
  BY <1>0, <1>1 DEF Joins, JoinedBuf, JoinedInode
<1>6. Joins'
  BY <1>0, <1>1, <1>2, <1>3, <1>5 DEF Joins
<1> QED  BY <1>2, <1>3, <1>4, <1>6 DEF IInv

\* Ask again for what is joined.
LEMMA TransAgainKept ==
  ASSUME IInv, NEW k \in Blocks, TransAgain(k)
  PROVE  IInv'
<1>1. PICK b \in Match(k) :
        item[b].recur < MaxRecur /\ item' = [item EXCEPT ![b].recur = @ + 1]
  BY DEF TransAgain
<1>2. b \in joined /\ b \in Bufs
  BY <1>1, Facts DEF Match
<1>3. PICK r : r = [item[b] EXCEPT !.recur = @ + 1]
  OBVIOUS
<1>4. item[b] \in Item /\ ("HOLD" \in item[b].flags <=> b \in mine) /\ open
  BY <1>2, JoinedFact
<1>5. r \in Item /\ r.flags = item[b].flags
  BY <1>1, <1>3, <1>4, TransactionAssumption DEF Item
<1>6. item' = [item EXCEPT ![b] = r]
  BY <1>1, <1>3
<1>7. /\ pc[T] = "idle" /\ UNCHANGED bufferVars
      /\ UNCHANGED <<open, tdirty, chunks, free, logged, joined, freed, ili, itransp, iref,
                     unflushed, trans, mine>>
  BY DEF TransAgain, ivars
<1>8. BInv' /\ UNCHANGED held
  BY <1>7, SameKept, Facts
<1>9. InChunks' /\ Listed' = Listed
  BY <1>7, ItemsKept, Facts
<1>10. OneBuf(b, r)
  BY <1>2, <1>4, <1>5, <1>6, <1>7, <1>8, <1>9, Facts DEF OneBuf
<1>11. JInv'
  BY <1>2, <1>10, Facts, OneBufKept
<1> QED  BY <1>8, <1>11 DEF IInv, JInv

\* Ask for a block, with a transaction.
LEMMA TransAskKept ==
  ASSUME IInv, NEW o \in {"get", "read"}, NEW k \in Blocks, TransAsk(o, k)
  PROVE  IInv'
<1>1. open /\ Ask(T, o, k) /\ trans' = TRUE /\ UNCHANGED <<tvars, ivars, mine>> /\ UNCHANGED open
  BY DEF TransAsk, tvars
<1>2. BInv /\ JInv
  BY Facts
<1>3. BInv' /\ UNCHANGED held
  BY <1>1, <1>2, AskKept
<1>4. trans' \in BOOLEAN
  BY <1>1
<1>5. JInv'
  BY <1>1, <1>2, <1>3, <1>4, JoinsSame
<1> QED  BY <1>3, <1>5 DEF IInv, JInv

\* The item a buffer is joined with.
LEMMA JoinItem ==
  ASSUME IInv, NEW b \in Bufs, b \notin joined
  PROVE  /\ NewItem \in Item /\ NewItem.flags = {}
         /\ item[b] # None => item[b] \in Item /\ "HOLD" \notin item[b].flags
<1>1. NewItem \in Item /\ NewItem.flags = {}
  BY TransactionAssumption DEF NewItem, Item
<1>2. JoinedBuf(b) /\ item[b] \in Item \cup {None}
  BY DEF IInv, Joins, TransTypes
<1> QED  BY <1>1, <1>2 DEF JoinedBuf

\* The call returns, and the buffer is joined.
LEMMA TransReturnKept ==
  ASSUME IInv, TransReturn
  PROVE  IInv'
<1>1. PICK b : b = cur[T]
  OBVIOUS
<1>2. PICK r : r = IF item[b] = None THEN NewItem ELSE [item[b] EXCEPT !.recur = 0]
  OBVIOUS
<1>3. /\ trans /\ Return(T) /\ AddItem(b) /\ item' = [item EXCEPT ![b] = r]
      /\ joined' = joined \cup {b} /\ trans' = FALSE
      /\ UNCHANGED <<open, tdirty, logged, freed, ili, itransp, iref, unflushed, mine>>
  BY <1>1, <1>2 DEF TransReturn, Join, ivars
<1>4. BInv' /\ held'[T] = held[T] \cup {b} /\ b \in Bufs \ held[T]
  BY <1>1, <1>3, Facts, ReturnKept
<1>5. b \in Bufs /\ b \notin held[T] /\ b \notin joined /\ b \notin mine /\ b \notin Listed
        /\ b \in Things
  BY <1>4, Facts DEF Things
<1>6. open
  <2>1. pc[T] = "return" /\ Called
    BY <1>3 DEF Return, IInv, BInv
  <2> QED  BY <1>3, <2>1 DEF Called, Asking, Calling, Using
<1>7. r \in Item /\ "HOLD" \notin r.flags
  <2>1. CASE item[b] = None
    BY <1>2, <1>5, <2>1, JoinItem
  <2>2. CASE item[b] # None
    <3>1. item[b] \in Item /\ "HOLD" \notin item[b].flags /\ r = [item[b] EXCEPT !.recur = 0]
      BY <1>2, <1>5, <2>2, JoinItem
    <3> QED  BY <3>1, TransactionAssumption DEF Item
  <2> QED  BY <2>1, <2>2
<1>8. InChunks' /\ Listed' = Listed \cup {b}
  BY <1>3, <1>5, Facts, ItemAdded
<1>9. OneBuf(b, r)
  <2>1. held'[T] = (mine' \cap Bufs) \cup joined'
    BY <1>3, <1>4, Facts
  <2>2. Listed' = joined' \cup itransp /\ logged' \subseteq Listed'
    BY <1>3, <1>8, Facts
  <2> QED  BY <1>3, <1>5, <1>6, <1>7, <1>8, <2>1, <2>2, Facts DEF OneBuf
<1>10. JInv'
  BY <1>5, <1>9, Facts, OneBufKept
<1> QED  BY <1>4, <1>10 DEF IInv, JInv

\* libxfs_trans_bjoin
LEMMA BjoinKept ==
  ASSUME IInv, NEW b \in Bufs, Bjoin(b)
  PROVE  IInv'
<1>1. PICK r : r = IF item[b] = None THEN NewItem ELSE item[b]
  OBVIOUS
<1>2. /\ open /\ pc[T] = "idle" /\ b \in mine \ joined /\ AddItem(b)
      /\ item' = [item EXCEPT ![b] = r] /\ joined' = joined \cup {b} /\ mine' = mine \ {b}
      /\ UNCHANGED bufferVars
      /\ UNCHANGED <<open, tdirty, logged, freed, ili, itransp, iref, unflushed, trans>>
  BY <1>1 DEF Bjoin, Join, ivars
<1>3. BInv' /\ UNCHANGED held
  BY <1>2, Facts, SameKept
<1>4. b \notin Listed /\ b \in Things
  BY <1>2, Facts DEF Things
<1>5. r \in Item /\ "HOLD" \notin r.flags
  BY <1>1, <1>2, JoinItem
<1>6. InChunks' /\ Listed' = Listed \cup {b}
  BY <1>2, <1>4, Facts, ItemAdded
<1>7. OneBuf(b, r)
  <2>1. held'[T] = (mine' \cap Bufs) \cup joined'
    BY <1>2, <1>3, Facts
  <2>2. Listed' = joined' \cup itransp /\ logged' \subseteq Listed'
    BY <1>2, <1>6, Facts
  <2> QED  BY <1>2, <1>5, <1>6, <2>1, <2>2, Facts DEF OneBuf
<1>8. JInv'
  BY <1>7, Facts, OneBufKept
<1> QED  BY <1>3, <1>8 DEF IInv, JInv

\* libxfs_trans_bhold
LEMMA BholdKept ==
  ASSUME IInv, NEW b \in Bufs, Bhold(b)
  PROVE  IInv'
<1>1. /\ pc[T] = "idle" /\ b \in joined \ mine /\ mine' = mine \cup {b}
      /\ item' = [item EXCEPT ![b].flags = @ \cup {"HOLD"}]
      /\ UNCHANGED bufferVars
      /\ UNCHANGED <<open, tdirty, chunks, free, logged, joined, freed, ili, itransp, iref,
                     unflushed, trans>>
  BY DEF Bhold, ivars
<1>2. PICK r : r = [item[b] EXCEPT !.flags = @ \cup {"HOLD"}]
  OBVIOUS
<1>3. item' = [item EXCEPT ![b] = r]
  BY <1>1, <1>2
<1>4. item[b] \in Item /\ open
  BY <1>1, JoinedFact
<1>5. r \in Item /\ "HOLD" \in r.flags
  BY <1>2, <1>4 DEF Item
<1>6. BInv' /\ UNCHANGED held
  BY <1>1, Facts, SameKept
<1>7. InChunks' /\ Listed' = Listed
  BY <1>1, Facts, ItemsKept
<1>8. OneBuf(b, r)
  <2>1. held'[T] = (mine' \cap Bufs) \cup joined'
    BY <1>1, <1>6, Facts
  <2> QED  BY <1>1, <1>3, <1>4, <1>5, <1>7, <2>1, Facts DEF OneBuf
<1>9. JInv'
  BY <1>8, Facts, OneBufKept
<1> QED  BY <1>6, <1>9 DEF IInv, JInv

\* libxfs_trans_log_buf
LEMMA LogBufKept ==
  ASSUME IInv, NEW b \in Bufs, LogBuf(b)
  PROVE  IInv'
<1>1. /\ pc[T] = "idle" /\ b \in joined /\ Modify(b)
      /\ item' = [item EXCEPT ![b].flags = @ \cup {"DIRTY"}]
      /\ logged' = logged \cup {b} /\ tdirty' = TRUE /\ freed' = freed \ {blkno[b]}
      /\ UNCHANGED <<disk, chain, freelist, blkno, flags, refs, lock, held, locals>>
      /\ UNCHANGED <<open, chunks, free, joined, ili, itransp, iref, unflushed, trans, mine>>
  BY DEF LogBuf, ivars
<1>2. PICK r : r = [item[b] EXCEPT !.flags = @ \cup {"DIRTY"}]
  OBVIOUS
<1>3. item' = [item EXCEPT ![b] = r]
  BY <1>1, <1>2
<1>4. item[b] \in Item /\ open /\ b \in Listed /\ blkno[b] \in Blocks
        /\ ("HOLD" \in item[b].flags <=> b \in mine)
  BY <1>1, JoinedFact
<1>5. r \in Item /\ ("HOLD" \in r.flags <=> "HOLD" \in item[b].flags)
  BY <1>2, <1>4 DEF Item
<1>6. BufferTypes
  BY DEF IInv, BInv
<1>7. version' \in [Blocks -> 0 .. MaxVersion] /\ data' \in [Bufs -> Values \cup {None}]
  <2>1. version[blkno[b]] \in 0 .. MaxVersion /\ version[blkno[b]] < MaxVersion
          /\ MaxVersion \in Nat
    BY <1>1, <1>4, <1>6, BufferAssumption DEF Modify, BufferTypes
  <2>2. PICK v : v = version[blkno[b]] + 1
    OBVIOUS
  <2>3. v \in 0 .. MaxVersion
    BY <2>1, <2>2
  <2>4. version' = [version EXCEPT ![blkno[b]] = v] /\ data' = [data EXCEPT ![b] = <<blkno[b], v>>]
    BY <1>1, <2>2 DEF Modify
  <2>5. <<blkno[b], v>> \in Values
    BY <1>4, <2>3 DEF Values
  <2> QED  BY <1>6, <2>3, <2>4, <2>5 DEF BufferTypes
<1>8. BInv'
  <2>1. disk' \in [Blocks -> Values \cup {None}] /\ flags' \in [Bufs -> SUBSET {"UPTODATE", "DIRTY"}]
    BY <1>1, <1>6 DEF BufferTypes
  <2> QED  BY <1>1, <1>7, <2>1, Facts, IdleKept
<1>9. InChunks' /\ Listed' = Listed
  BY <1>1, Facts, ItemsKept
<1>10. OneBuf(b, r)
  <2>1. held'[T] = (mine' \cap Bufs) \cup joined'
    BY <1>1, Facts
  <2>2. logged' \subseteq Listed'
    BY <1>1, <1>4, <1>9, Facts
  <2> QED  BY <1>1, <1>3, <1>4, <1>5, <1>9, <2>1, <2>2, Facts DEF OneBuf
<1>11. JInv'
  BY <1>10, Facts, OneBufKept
<1> QED  BY <1>8, <1>11 DEF IInv, JInv

\* libxfs_trans_binval
LEMMA BinvalKept ==
  ASSUME IInv, NEW b \in Bufs, Binval(b)
  PROVE  IInv'
<1>1. /\ pc[T] = "idle" /\ b \in joined /\ freed' = freed \cup {blkno[b]}
      /\ UNCHANGED <<disk, version, chain, freelist, blkno, data, refs, lock, held, locals>>
      /\ UNCHANGED <<open, chunks, free, joined, ili, itransp, iref, unflushed, trans, mine>>
  BY DEF Binval, ivars, store
<1>2. item[b] \in Item /\ open /\ b \in Listed /\ blkno[b] \in Blocks
        /\ ("HOLD" \in item[b].flags <=> b \in mine)
  BY <1>1, JoinedFact
<1>3. BufferTypes /\ TransTypes /\ item \in [Bufs -> Item \cup {None}]
  BY DEF IInv, BInv, TransTypes
<1>4. PICK r : /\ r \in Item /\ item' = [item EXCEPT ![b] = r]
               /\ "HOLD" \in r.flags <=> "HOLD" \in item[b].flags
  <2>1. CASE UNCHANGED item
    <3>1. item' = [item EXCEPT ![b] = item[b]]
      BY <1>3, <2>1
    <3> QED  BY <1>2, <3>1
  <2>2. CASE item' = [item EXCEPT ![b].flags = (@ \ {"DIRTY"}) \cup {"STALE"}]
    <3>1. PICK r : r = [item[b] EXCEPT !.flags = (@ \ {"DIRTY"}) \cup {"STALE"}]
      OBVIOUS
    <3>2. item' = [item EXCEPT ![b] = r]
      BY <2>2, <3>1
    <3>3. r \in Item /\ ("HOLD" \in r.flags <=> "HOLD" \in item[b].flags)
      BY <1>2, <3>1 DEF Item
    <3> QED  BY <3>2, <3>3
  <2> QED  BY <2>1, <2>2 DEF Binval
<1>5. flags' \in [Bufs -> SUBSET {"UPTODATE", "DIRTY"}]
  <2>1. UNCHANGED flags \/ flags' = [flags EXCEPT ![b] = flags[b] \ {"DIRTY"}]
    BY DEF Binval, Undelayed
  <2> QED  BY <1>3, <2>1 DEF BufferTypes
<1>6. BInv'
  <2>1. /\ disk' \in [Blocks -> Values \cup {None}] /\ version' \in [Blocks -> 0 .. MaxVersion]
        /\ data' \in [Bufs -> Values \cup {None}]
    BY <1>1, <1>3 DEF BufferTypes
  <2> QED  BY <1>1, <1>5, <2>1, Facts, IdleKept
<1>7. InChunks' /\ Listed' = Listed
  BY <1>1, Facts, ItemsKept
<1>8. logged' \subseteq Listed' /\ (logged' # {} => tdirty') /\ tdirty' \in BOOLEAN
  <2>1. UNCHANGED <<logged, tdirty>> \/ (logged' = logged \cup {b} /\ tdirty' = TRUE)
    BY DEF Binval
  <2>2. logged \subseteq Listed /\ (logged # {} => tdirty) /\ tdirty \in BOOLEAN
    BY Facts
  <2>3. CASE UNCHANGED <<logged, tdirty>>
    BY <1>7, <2>2, <2>3
  <2>4. CASE logged' = logged \cup {b} /\ tdirty' = TRUE
    BY <1>2, <1>7, <2>2, <2>4
  <2> QED  BY <2>1, <2>3, <2>4
<1>9. OneBuf(b, r)
  <2>1. held'[T] = (mine' \cap Bufs) \cup joined'
    BY <1>1, Facts
  <2> QED  BY <1>1, <1>2, <1>4, <1>7, <1>8, <2>1, Facts DEF OneBuf
<1>10. JInv'
  BY <1>9, Facts, OneBufKept
<1> QED  BY <1>6, <1>10 DEF IInv, JInv

\* libxfs_trans_brelse
LEMMA BrelseKept ==
  ASSUME IInv, NEW b \in Bufs, Brelse(b)
  PROVE  IInv'
<1>1. /\ pc[T] = "idle" /\ b \in joined \ mine
      /\ UNCHANGED <<disk, version, chain, freelist, blkno, data, flags, locals>>
      /\ UNCHANGED <<open, tdirty, logged, freed, ili, itransp, iref, unflushed, trans, mine>>
  BY DEF Brelse, ivars, store
<1>2. item[b] \in Item /\ open /\ b \in Listed /\ b \in held[T] /\ item[b].recur \in 0 .. MaxRecur
        /\ "HOLD" \notin item[b].flags
  BY <1>1, JoinedFact
<1>3. BufferTypes
  BY DEF IInv, BInv
<1>4. flags' \in [Bufs -> SUBSET {"UPTODATE", "DIRTY"}]
  BY <1>1, <1>3 DEF BufferTypes
<1>5. CASE /\ item[b].recur > 0 /\ item' = [item EXCEPT ![b].recur = @ - 1]
           /\ UNCHANGED <<lock, refs, held, chunks, free, joined>>
  <2>1. PICK r : r = [item[b] EXCEPT !.recur = @ - 1]
    OBVIOUS
  <2>2. item' = [item EXCEPT ![b] = r]
    BY <1>5, <2>1
  <2>3. item[b].recur - 1 \in 0 .. MaxRecur
    BY <1>2, <1>5, TransactionAssumption
  <2>4. r \in Item /\ r.flags = item[b].flags
    BY <1>2, <2>1, <2>3 DEF Item
  <2>5. UNCHANGED bufferVars
    BY <1>1, <1>5 DEF bufferVars, store, bufs
  <2>6. BInv' /\ UNCHANGED held
    BY <1>1, <2>5, Facts, SameKept
  <2>7. InChunks' /\ Listed' = Listed
    BY <1>5, Facts, ItemsKept
  <2>8. OneBuf(b, r)
    <3>1. held'[T] = (mine' \cap Bufs) \cup joined'
      BY <1>1, <1>5, Facts
    <3> QED  BY <1>1, <1>2, <1>5, <2>2, <2>4, <2>7, <3>1, Facts DEF OneBuf
  <2>9. JInv'
    BY <2>8, Facts, OneBufKept
  <2> QED  BY <2>6, <2>9 DEF IInv, JInv
<1>6. CASE /\ ~NotYet(b) /\ FreeItem(b) /\ item' = [item EXCEPT ![b].flags = @ \ {"HOLD"}]
           /\ joined' = joined \ {b} /\ Put(T, {b})
  <2>1. PICK r : r = [item[b] EXCEPT !.flags = @ \ {"HOLD"}]
    OBVIOUS
  <2>2. item' = [item EXCEPT ![b] = r]
    BY <1>6, <2>1
  <2>3. r \in Item /\ "HOLD" \notin r.flags
    BY <1>2, <2>1 DEF Item
  <2>4. PICK S : S = {b}
    OBVIOUS
  <2>5. Put(T, S) /\ S \subseteq held[T]
    BY <1>2, <1>6, <2>4
  <2>6. BInv' /\ held'[T] = held[T] \ S
    BY <1>1, <1>4, <2>5, Facts, PutKept
  <2>7. InChunks' /\ Listed' = Listed \ {b}
    BY <1>2, <1>6, Facts, ItemFreed
  <2>8. OneBuf(b, r)
    <3>1. held'[T] = (mine' \cap Bufs) \cup joined'
      BY <1>1, <1>6, <2>4, <2>6, Facts
    <3>2. Listed' = joined' \cup itransp
      BY <1>1, <1>6, <2>7, Facts
    <3>3. logged' \subseteq Listed'
      BY <1>1, <1>6, <2>7, Facts DEF NotYet
    <3> QED  BY <1>1, <1>2, <1>6, <2>2, <2>3, <2>7, <3>1, <3>2, <3>3, Facts DEF OneBuf
  <2>9. JInv'
    BY <2>8, Facts, OneBufKept
  <2> QED  BY <2>6, <2>9 DEF IInv, JInv
<1> QED  BY <1>5, <1>6 DEF Brelse

-----------------------------------------------------------------------------
(* Inodes *)

\* The reference and the item of an inode.
LEMMA InodeFact ==
  ASSUME IInv, NEW i \in Inodes
  PROVE  /\ ili[i] \in Ili \cup {None} /\ i \in Things
         /\ iref[i] = IF i \in mine \cup itransp THEN 1 ELSE 0
         /\ IF i \in itransp
            THEN ili[i] \in Ili /\ (ili[i].hold <=> i \in mine)
            ELSE ili[i] # None => ~ili[i].hold
         /\ ili \in [Inodes -> Ili \cup {None}] /\ iref \in [Inodes -> Nat]
         /\ ili = [ili EXCEPT ![i] = ili[i]] /\ iref = [iref EXCEPT ![i] = iref[i]]
<1>1. JoinedInode(i)
  BY DEF IInv, Joins
<1>2. ili \in [Inodes -> Ili \cup {None}] /\ iref \in [Inodes -> Nat]
  BY DEF IInv, TransTypes
<1>3. ili = [ili EXCEPT ![i] = ili[i]] /\ iref = [iref EXCEPT ![i] = iref[i]]
  BY <1>2
<1> QED  BY <1>1, <1>2, <1>3 DEF JoinedInode, Things

\* libxfs_iget
LEMMA IgetKept ==
  ASSUME IInv, NEW i \in Inodes, Iget(i)
  PROVE  IInv'
<1>1. /\ pc[T] = "idle" /\ iref[i] = 0 /\ iref' = [iref EXCEPT ![i] = 1] /\ mine' = mine \cup {i}
      /\ UNCHANGED bufferVars
      /\ UNCHANGED <<open, tdirty, chunks, free, logged, item, joined, freed, ili, itransp,
                     unflushed, trans>>
  BY DEF Iget, tvars
<1>2. BInv' /\ UNCHANGED held
  BY <1>1, Facts, SameKept
<1>3. InChunks' /\ Listed' = Listed
  BY <1>1, Facts, ItemsKept
<1>4. i \notin mine \cup itransp /\ ili' = [ili EXCEPT ![i] = ili[i]]
        /\ ili[i] \in Ili \cup {None} /\ (ili[i] # None => ~ili[i].hold)
  BY <1>1, InodeFact
<1>5. PICK r : r = ili[i]
  OBVIOUS
<1>6. OneInode(i, r)
  BY <1>1, <1>2, <1>3, <1>4, <1>5, Facts DEF OneInode
<1>7. JInv'
  BY <1>6, Facts, OneInodeKept
<1> QED  BY <1>2, <1>7 DEF IInv, JInv

\* libxfs_iput
LEMMA IputKept ==
  ASSUME IInv, NEW i \in Inodes, Iput(i)
  PROVE  IInv'
<1>1. /\ pc[T] = "idle" /\ i \in mine \ itransp /\ iref' = [iref EXCEPT ![i] = @ - 1]
      /\ mine' = mine \ {i} /\ UNCHANGED bufferVars
      /\ UNCHANGED <<open, tdirty, chunks, free, logged, item, joined, freed, ili, itransp,
                     unflushed, trans>>
  BY DEF Iput, tvars
<1>2. BInv' /\ UNCHANGED held
  BY <1>1, Facts, SameKept
<1>3. InChunks' /\ Listed' = Listed
  BY <1>1, Facts, ItemsKept
<1>4. iref[i] = 1 /\ ili' = [ili EXCEPT ![i] = ili[i]]
        /\ ili[i] \in Ili \cup {None} /\ (ili[i] # None => ~ili[i].hold)
  BY <1>1, InodeFact
<1>5. PICK r : r = ili[i]
  OBVIOUS
<1>6. iref' = [iref EXCEPT ![i] = 0]
  BY <1>1, <1>4
<1>7. OneInode(i, r)
  BY <1>1, <1>2, <1>3, <1>4, <1>5, <1>6, Facts DEF OneInode
<1>8. JInv'
  BY <1>7, Facts, OneInodeKept
<1> QED  BY <1>2, <1>8 DEF IInv, JInv

\* libxfs_irelse
LEMMA IrelseKept ==
  ASSUME IInv, NEW i \in Inodes, Irelse(i)
  PROVE  IInv'
<1>1. /\ iref[i] = 0 /\ ili' = [ili EXCEPT ![i] = None] /\ UNCHANGED bufferVars
      /\ UNCHANGED <<open, tdirty, chunks, free, logged, item, joined, freed, iref, itransp,
                     unflushed, trans, mine>>
  BY DEF Irelse, tvars
<1>2. BInv' /\ UNCHANGED held
  BY <1>1, Facts, SameKept
<1>3. InChunks' /\ Listed' = Listed
  BY <1>1, Facts, ItemsKept
<1>4. i \notin mine \cup itransp /\ iref' = [iref EXCEPT ![i] = iref[i]]
  BY <1>1, InodeFact
<1>5. PICK r : r = None
  OBVIOUS
<1>6. OneInode(i, r)
  BY <1>1, <1>2, <1>3, <1>4, <1>5, Facts DEF OneInode
<1>7. JInv'
  BY <1>6, Facts, OneInodeKept
<1> QED  BY <1>2, <1>7 DEF IInv, JInv

\* The item an inode is joined with.
LEMMA JoinIli ==
  ASSUME IInv, NEW i \in Inodes, i \notin itransp, InitIli(i)
  PROVE  \E r \in Ili : ili' = [ili EXCEPT ![i] = r] /\ ~r.hold
<1>1. PICK r : r = IF ili[i] = None THEN NewIli ELSE ili[i]
  OBVIOUS
<1>2. ili' = [ili EXCEPT ![i] = r]
  BY <1>1 DEF InitIli
<1>3. NewIli \in Ili /\ ~NewIli.hold
  BY DEF NewIli, Ili
<1>4. ili[i] # None => ili[i] \in Ili /\ ~ili[i].hold
  BY InodeFact
<1>5. r \in Ili /\ ~r.hold
  BY <1>1, <1>3, <1>4
<1> QED  BY <1>2, <1>5

\* libxfs_trans_iget
LEMMA TransIgetKept ==
  ASSUME IInv, NEW i \in Inodes, TransIget(i)
  PROVE  IInv'
<1>1. /\ open /\ pc[T] = "idle" /\ iref[i] = 0 /\ iref' = [iref EXCEPT ![i] = 1]
      /\ AddItem(i) /\ InitIli(i) /\ itransp' = itransp \cup {i} /\ UNCHANGED bufferVars
      /\ UNCHANGED <<open, tdirty, logged, item, joined, freed, unflushed, trans, mine>>
  BY DEF TransIget, JoinInode
<1>2. BInv' /\ UNCHANGED held
  BY <1>1, Facts, SameKept
<1>3. i \notin mine \cup itransp /\ i \in Things
  BY <1>1, InodeFact
<1>4. i \notin Listed
  BY <1>3, Facts
<1>5. InChunks' /\ Listed' = Listed \cup {i}
  BY <1>1, <1>3, <1>4, Facts, ItemAdded
<1>6. PICK r \in Ili : ili' = [ili EXCEPT ![i] = r] /\ ~r.hold
  BY <1>1, <1>3, JoinIli
<1>7. OneInode(i, r)
  <2>1. Listed' = joined \cup itransp' /\ logged' \subseteq Listed'
    BY <1>1, <1>5, Facts
  <2> QED  BY <1>1, <1>2, <1>3, <1>5, <1>6, <2>1, Facts DEF OneInode
<1>8. JInv'
  BY <1>7, Facts, OneInodeKept
<1> QED  BY <1>2, <1>8 DEF IInv, JInv

\* libxfs_trans_ijoin
LEMMA IjoinKept ==
  ASSUME IInv, NEW i \in Inodes, Ijoin(i)
  PROVE  IInv'
<1>1. /\ open /\ pc[T] = "idle" /\ i \in mine \ Listed /\ i \notin itransp
      /\ AddItem(i) /\ InitIli(i) /\ itransp' = itransp \cup {i} /\ mine' = mine \ {i}
      /\ UNCHANGED bufferVars
      /\ UNCHANGED <<open, tdirty, logged, item, joined, freed, iref, unflushed, trans>>
  BY DEF Ijoin, JoinInode
<1>2. BInv' /\ UNCHANGED held
  BY <1>1, Facts, SameKept
<1>3. i \in Things /\ iref[i] = 1 /\ iref' = [iref EXCEPT ![i] = iref[i]]
  BY <1>1, InodeFact
<1>4. InChunks' /\ Listed' = Listed \cup {i}
  BY <1>1, <1>3, Facts, ItemAdded
<1>5. PICK r \in Ili : ili' = [ili EXCEPT ![i] = r] /\ ~r.hold
  BY <1>1, JoinIli
<1>6. OneInode(i, r)
  <2>1. Listed' = joined \cup itransp' /\ logged' \subseteq Listed'
    BY <1>1, <1>4, Facts
  <2> QED  BY <1>1, <1>2, <1>3, <1>4, <1>5, <2>1, Facts DEF OneInode
<1>7. JInv'
  BY <1>6, Facts, OneInodeKept
<1> QED  BY <1>2, <1>7 DEF IInv, JInv

\* libxfs_trans_ihold
LEMMA IholdKept ==
  ASSUME IInv, NEW i \in Inodes, Ihold(i)
  PROVE  IInv'
<1>1. /\ pc[T] = "idle" /\ i \in itransp \ mine /\ mine' = mine \cup {i}
      /\ ili' = [ili EXCEPT ![i].hold = TRUE] /\ UNCHANGED bufferVars
      /\ UNCHANGED <<open, tdirty, chunks, free, logged, item, joined, freed, iref, itransp,
                     unflushed, trans>>
  BY DEF Ihold, tvars
<1>2. BInv' /\ UNCHANGED held
  BY <1>1, Facts, SameKept
<1>3. InChunks' /\ Listed' = Listed
  BY <1>1, Facts, ItemsKept
<1>4. ili[i] \in Ili /\ iref[i] = 1 /\ iref' = [iref EXCEPT ![i] = iref[i]] /\ open
  BY <1>1, InodeFact, Facts
<1>5. PICK r : r = [ili[i] EXCEPT !.hold = TRUE]
  OBVIOUS
<1>6. r \in Ili /\ r.hold /\ ili' = [ili EXCEPT ![i] = r]
  BY <1>1, <1>4, <1>5 DEF Ili
<1>7. OneInode(i, r)
  BY <1>1, <1>2, <1>3, <1>4, <1>6, Facts DEF OneInode
<1>8. JInv'
  BY <1>7, Facts, OneInodeKept
<1> QED  BY <1>2, <1>8 DEF IInv, JInv

\* libxfs_trans_log_inode
LEMMA LogInodeKept ==
  ASSUME IInv, NEW i \in Inodes, LogInode(i)
  PROVE  IInv'
<1>1. /\ pc[T] = "idle" /\ i \in itransp /\ ili' = [ili EXCEPT ![i].fields = TRUE]
      /\ logged' = logged \cup {i} /\ tdirty' = TRUE /\ unflushed' = unflushed \cup {i}
      /\ UNCHANGED bufferVars
      /\ UNCHANGED <<open, chunks, free, item, joined, freed, itransp, iref, trans, mine>>
  BY DEF LogInode
<1>2. BInv' /\ UNCHANGED held
  BY <1>1, Facts, SameKept
<1>3. InChunks' /\ Listed' = Listed
  BY <1>1, Facts, ItemsKept
<1>4. ili[i] \in Ili /\ iref[i] = 1 /\ iref' = [iref EXCEPT ![i] = iref[i]] /\ open
        /\ (ili[i].hold <=> i \in mine)
  BY <1>1, InodeFact, Facts
<1>5. PICK r : r = [ili[i] EXCEPT !.fields = TRUE]
  OBVIOUS
<1>6. r \in Ili /\ r.hold = ili[i].hold /\ ili' = [ili EXCEPT ![i] = r]
  BY <1>1, <1>4, <1>5 DEF Ili
<1>7. OneInode(i, r)
  <2>1. logged' \subseteq Listed'
    BY <1>1, <1>3, Facts
  <2> QED  BY <1>1, <1>2, <1>3, <1>4, <1>6, <2>1, Facts DEF OneInode
<1>8. JInv'
  BY <1>7, Facts, OneInodeKept
<1> QED  BY <1>2, <1>8 DEF IInv, JInv

-----------------------------------------------------------------------------
(* The end of a transaction *)

\* The client has back the buffers it asked to keep.
LEMMA CloseKept ==
  ASSUME IInv, Close, pc[T] = "idle",
         UNCHANGED <<disk, version, chain, freelist, blkno, data, locals>>,
         flags' \in [Bufs -> SUBSET {"UPTODATE", "DIRTY"}]
  PROVE  /\ BInv' /\ InChunks' /\ Listed' = {} /\ joined' = {} /\ logged' = {}
         /\ open' = FALSE /\ tdirty' = FALSE
         /\ held'[T] = mine \cap Bufs
         /\ \A i \in Inodes : iref'[i] = IF i \in mine THEN 1 ELSE 0
         /\ iref' \in [Inodes -> Nat]
<1>1. /\ open' = FALSE /\ tdirty' = FALSE /\ chunks' = <<EmptyChunk>> /\ free' = NumSlots
      /\ logged' = {} /\ joined' = {}
      /\ iref' = [i \in Inodes |-> IF i \in Listed /\ ~Held(i) THEN iref[i] - 1 ELSE iref[i]]
  BY DEF Close
<1>2. PICK S : S = {b \in Listed \cap Bufs : ~Held(b)}
  OBVIOUS
<1>3. Put(T, S)
  BY <1>2 DEF Close
<1>4. S = joined \ mine
  <2>1. ASSUME NEW b \in joined PROVE Held(b) <=> b \in mine
    <3>1. b \in Bufs /\ ("HOLD" \in item[b].flags <=> b \in mine)
      BY <2>1, JoinedFact
    <3> QED  BY <3>1 DEF Held
  <2>2. Listed \cap Bufs = joined
    BY Facts
  <2> QED  BY <1>2, <2>1, <2>2
<1>5. S \subseteq held[T] /\ held[T] \ S = mine \cap Bufs
  BY <1>4, Facts
<1>6. BInv' /\ held'[T] = held[T] \ S
  BY <1>3, <1>5, Facts, PutKept
<1>7. InChunks' /\ Listed' = {}
  BY <1>1, ItemsGone
<1>8. ASSUME NEW i \in Inodes
      PROVE  iref'[i] = IF i \in mine THEN 1 ELSE 0
  <2>1. iref'[i] = IF i \in Listed /\ ~Held(i) THEN iref[i] - 1 ELSE iref[i]
    BY <1>1
  <2>2. i \notin Bufs /\ (i \in Listed <=> i \in itransp)
    BY Facts
  <2>3. i \in itransp => (Held(i) <=> i \in mine)
    BY <2>2, InodeFact DEF Held
  <2>4. iref[i] = IF i \in mine \cup itransp THEN 1 ELSE 0
    BY InodeFact
  <2>5. CASE i \in itransp
    BY <2>1, <2>2, <2>3, <2>4, <2>5
  <2>6. CASE i \notin itransp
    BY <2>1, <2>2, <2>4, <2>6
  <2> QED  BY <2>5, <2>6
<1>9. iref' \in [Inodes -> Nat]
  <2>1. PICK g : g = iref'
    OBVIOUS
  <2>2. g = [i \in Inodes |-> IF i \in Listed /\ ~Held(i) THEN iref[i] - 1 ELSE iref[i]]
    BY <1>1, <2>1
  <2>3. \A i \in Inodes : g[i] \in Nat
    BY <1>8, <2>1
  <2>4. g = [i \in Inodes |-> g[i]]
    BY <2>2
  <2> QED  BY <2>1, <2>3, <2>4
<1> QED  BY <1>1, <1>5, <1>6, <1>7, <1>8, <1>9

\* Nothing is joined after the end.
LEMMA ClosedJoins ==
  ASSUME IInv, InChunks', Listed' = {}, joined' = {}, logged' = {}, itransp' = {},
         open' = FALSE, tdirty' = FALSE, held'[T] = mine \cap Bufs,
         \A i \in Inodes : iref'[i] = IF i \in mine THEN 1 ELSE 0,
         iref' \in [Inodes -> Nat], UNCHANGED <<trans, mine>>,
         freed' \subseteq Blocks, unflushed' \subseteq Inodes,
         item' \in [Bufs -> Item \cup {None}],
         \A b \in Bufs : item'[b] # None => "HOLD" \notin item'[b].flags,
         ili' \in [Inodes -> Ili \cup {None}],
         \A i \in Inodes : ili'[i] # None => ~ili'[i].hold
  PROVE  JInv'
<1>1. TransTypes
  BY DEF IInv
<1>2. TransTypes'
  BY <1>1 DEF TransTypes
<1>3. \A b \in Bufs : JoinedBuf(b)'
  BY DEF JoinedBuf
<1>4. \A i \in Inodes : JoinedInode(i)'
  BY DEF JoinedInode
<1>5. Joins'
  BY <1>3, <1>4 DEF Joins
<1> QED  BY <1>2, <1>5 DEF JInv

\* The items of buffers that are not joined are not held.
LEMMA ItemFact ==
  ASSUME IInv, NEW b \in Bufs
  PROVE  /\ item[b] \in Item \cup {None}
         /\ b \in Listed => b \in joined /\ item[b] \in Item
         /\ b \notin Listed => (item[b] # None => "HOLD" \notin item[b].flags)
         /\ flags[b] \subseteq {"UPTODATE", "DIRTY"}
<1>1. JoinedBuf(b) /\ item[b] \in Item \cup {None} /\ flags[b] \subseteq {"UPTODATE", "DIRTY"}
  BY DEF IInv, BInv, Joins, TransTypes, BufferTypes
<1>2. b \in Listed <=> b \in joined
  BY Facts
<1> QED  BY <1>1, <1>2 DEF JoinedBuf

\* libxfs_trans_commit
LEMMA CommitKept ==
  ASSUME IInv, ~FlushFails, Commit
  PROVE  IInv'
<1>1. /\ open /\ pc[T] = "idle" /\ Close
      /\ flags' = [b \in Bufs |->
           IF b \in Listed /\ ToWrite(b) THEN flags[b] \cup {"DIRTY"} ELSE flags[b]]
      /\ item' = [b \in Bufs |-> IF b \in Listed THEN None ELSE item[b]]
      /\ ili' = [i \in Inodes |->
           IF i \in Listed
           THEN IF Held(i) THEN [ili[i] EXCEPT !.hold = FALSE] ELSE None
           ELSE ili[i]]
      /\ UNCHANGED <<disk, version, chain, freelist, blkno, data, locals, freed, trans, mine>>
  BY DEF Commit, store
<1>2. itransp' = itransp \ Listed /\ unflushed' \subseteq unflushed
  BY DEF Commit
<1>3. flags' \in [Bufs -> SUBSET {"UPTODATE", "DIRTY"}]
  <2>1. ASSUME NEW b \in Bufs
        PROVE  (IF b \in Listed /\ ToWrite(b) THEN flags[b] \cup {"DIRTY"} ELSE flags[b])
                 \in SUBSET {"UPTODATE", "DIRTY"}
    BY ItemFact
  <2> QED  BY <1>1, <2>1
<1>4. /\ BInv' /\ InChunks' /\ Listed' = {} /\ joined' = {} /\ logged' = {}
      /\ open' = FALSE /\ tdirty' = FALSE
      /\ held'[T] = mine \cap Bufs
      /\ \A i \in Inodes : iref'[i] = IF i \in mine THEN 1 ELSE 0
      /\ iref' \in [Inodes -> Nat]
  BY <1>1, <1>3, CloseKept
<1>5. /\ item' \in [Bufs -> Item \cup {None}]
      /\ \A b \in Bufs : item'[b] # None => "HOLD" \notin item'[b].flags
  <2>1. ASSUME NEW b \in Bufs
        PROVE  /\ (IF b \in Listed THEN None ELSE item[b]) \in Item \cup {None}
               /\ item'[b] # None => "HOLD" \notin item'[b].flags
    BY <1>1, ItemFact
  <2> QED  BY <1>1, <2>1
<1>6. /\ ili' \in [Inodes -> Ili \cup {None}]
      /\ \A i \in Inodes : ili'[i] # None => ~ili'[i].hold
  <2>1. ASSUME NEW i \in Inodes
        PROVE  ili'[i] \in Ili \cup {None} /\ (ili'[i] # None => ~ili'[i].hold)
    <3>1. ili'[i] = IF i \in Listed
                    THEN IF Held(i) THEN [ili[i] EXCEPT !.hold = FALSE] ELSE None
                    ELSE ili[i]
      BY <1>1
    <3>2. i \in Listed <=> i \in itransp
      BY Facts
    <3>3. CASE i \in itransp
      <4>1. ili[i] \in Ili
        BY <3>3, InodeFact
      <4>2. PICK r : r = [ili[i] EXCEPT !.hold = FALSE]
        OBVIOUS
      <4>3. r \in Ili /\ ~r.hold
        BY <4>1, <4>2 DEF Ili
      <4> QED  BY <3>1, <3>2, <3>3, <4>2, <4>3
    <3>4. CASE i \notin itransp
      BY <3>1, <3>2, <3>4, InodeFact
    <3> QED  BY <3>3, <3>4
  <2>2. PICK g : g = ili'
    OBVIOUS
  <2>3. g = [i \in Inodes |-> g[i]]
    BY <1>1, <2>2
  <2> QED  BY <2>1, <2>2, <2>3
<1>7. itransp' = {} /\ unflushed' \subseteq Inodes /\ freed' \subseteq Blocks
  BY <1>1, <1>2, Facts
<1>8. JInv'
  BY <1>1, <1>4, <1>5, <1>6, <1>7, ClosedJoins
<1> QED  BY <1>4, <1>8 DEF IInv, JInv

\* libxfs_trans_cancel
LEMMA CancelKept ==
  ASSUME IInv, Cancel
  PROVE  IInv'
<1>1. /\ open /\ pc[T] = "idle" /\ Close
      /\ item' = [b \in Bufs |->
           IF b \in Listed THEN [item[b] EXCEPT !.flags = @ \ {"HOLD"}] ELSE item[b]]
      /\ itransp' = itransp \ Listed
      /\ ili' = [i \in Inodes |-> IF i \in Listed THEN [ili[i] EXCEPT !.hold = FALSE] ELSE ili[i]]
      /\ UNCHANGED <<disk, version, chain, freelist, blkno, data, locals, flags, freed,
                     unflushed, trans, mine>>
  BY DEF Cancel, store, IliUnlocked
<1>2. flags' \in [Bufs -> SUBSET {"UPTODATE", "DIRTY"}]
  BY <1>1 DEF IInv, BInv, BufferTypes
<1>3. /\ BInv' /\ InChunks' /\ Listed' = {} /\ joined' = {} /\ logged' = {}
      /\ open' = FALSE /\ tdirty' = FALSE
      /\ held'[T] = mine \cap Bufs
      /\ \A i \in Inodes : iref'[i] = IF i \in mine THEN 1 ELSE 0
      /\ iref' \in [Inodes -> Nat]
  BY <1>1, <1>2, CloseKept
<1>4. /\ item' \in [Bufs -> Item \cup {None}]
      /\ \A b \in Bufs : item'[b] # None => "HOLD" \notin item'[b].flags
  <2>1. ASSUME NEW b \in Bufs
        PROVE  item'[b] \in Item \cup {None} /\ (item'[b] # None => "HOLD" \notin item'[b].flags)
    <3>1. CASE b \in Listed
      <4>1. item[b] \in Item
        BY <3>1, ItemFact
      <4>2. PICK r : r = [item[b] EXCEPT !.flags = @ \ {"HOLD"}]
        OBVIOUS
      <4>3. r \in Item /\ "HOLD" \notin r.flags
        BY <4>1, <4>2 DEF Item
      <4> QED  BY <1>1, <3>1, <4>2, <4>3
    <3>2. CASE b \notin Listed
      BY <1>1, <3>2, ItemFact
    <3> QED  BY <3>1, <3>2
  <2>2. PICK g : g = item'
    OBVIOUS
  <2>3. g = [b \in Bufs |-> g[b]]
    BY <1>1, <2>2
  <2> QED  BY <2>1, <2>2, <2>3
<1>5. /\ ili' \in [Inodes -> Ili \cup {None}]
      /\ \A i \in Inodes : ili'[i] # None => ~ili'[i].hold
  <2>1. ASSUME NEW i \in Inodes
        PROVE  ili'[i] \in Ili \cup {None} /\ (ili'[i] # None => ~ili'[i].hold)
    <3>1. ili'[i] = IF i \in Listed THEN [ili[i] EXCEPT !.hold = FALSE] ELSE ili[i]
      BY <1>1
    <3>2. i \in Listed <=> i \in itransp
      BY Facts
    <3>3. CASE i \in itransp
      <4>1. ili[i] \in Ili
        BY <3>3, InodeFact
      <4>2. PICK r : r = [ili[i] EXCEPT !.hold = FALSE]
        OBVIOUS
      <4>3. r \in Ili /\ ~r.hold
        BY <4>1, <4>2 DEF Ili
      <4> QED  BY <3>1, <3>2, <3>3, <4>2, <4>3
    <3>4. CASE i \notin itransp
      BY <3>1, <3>2, <3>4, InodeFact
    <3> QED  BY <3>3, <3>4
  <2>2. PICK g : g = ili'
    OBVIOUS
  <2>3. g = [i \in Inodes |-> g[i]]
    BY <1>1, <2>2
  <2> QED  BY <2>1, <2>2, <2>3
<1>6. itransp' = {} /\ unflushed' \subseteq Inodes /\ freed' \subseteq Blocks
  BY <1>1, Facts
<1>7. JInv'
  BY <1>1, <1>3, <1>4, <1>5, <1>6, ClosedJoins
<1> QED  BY <1>3, <1>7 DEF IInv, JInv

-----------------------------------------------------------------------------
(* What holds of every transaction *)

\* At the start nothing is cached and nothing is listed.
LEMMA InitKept == Init => IInv
<1> SUFFICES ASSUME Init PROVE IInv
  OBVIOUS
<1>0. T \in Threads
  BY OneThread
<1>1. /\ BufferInit /\ open = FALSE /\ tdirty = FALSE /\ chunks = <<EmptyChunk>>
      /\ free = NumSlots /\ logged = {} /\ item = [b \in Bufs |-> None] /\ joined = {}
      /\ trans = FALSE /\ freed = {} /\ ili = [i \in Inodes |-> None] /\ itransp = {}
      /\ iref = [i \in Inodes |-> 0] /\ mine = {} /\ unflushed = {}
  BY DEF Init
<1>2. BInv
  <2>1. MaxVersion \in Nat
    BY BufferAssumption
  <2>2. Cached = {}
    BY <1>1 DEF BufferInit, Cached
  <2>3. BufferTypes
    BY <1>1, <2>1 DEF BufferTypes, BufferInit, Values
  <2>4. pc[T] = "idle" /\ taken[T] = {} /\ todo[T] = {} /\ held[T] = {}
    BY <1>0, <1>1 DEF BufferInit
  <2>5. Called
    BY <2>4 DEF Called, Asking, Using, Calling
  <2>6. Placed
    BY <1>1, <2>2, <2>4 DEF Placed, BufferInit
  <2>7. Counted
    BY <1>1, <2>4 DEF Counted, BufferInit, InUse, Using
  <2> QED  BY <2>3, <2>5, <2>6, <2>7 DEF BInv
<1>3. TransTypes
  BY <1>1 DEF TransTypes
<1>4. InChunks /\ Listed = {}
  <2>1. <<EmptyChunk>> \in Seq(Chunk) /\ Len(<<EmptyChunk>>) = 1 /\ <<EmptyChunk>>[1] = EmptyChunk
          /\ <<EmptyChunk>> # <<>>
    <3>1. EmptyChunk \in Chunk
      BY EmptyFact
    <3>2. PICK c \in Chunk : c = EmptyChunk
      BY <3>1
    <3> QED  BY <3>2
  <2>2. chunks \in Seq(Chunk) /\ Len(chunks) = 1 /\ chunks[1] = EmptyChunk /\ chunks # <<>>
          /\ DOMAIN chunks = {1}
    <3>1. DOMAIN chunks = 1 .. 1
      BY <1>1, <2>1, LenProperties
    <3> QED  BY <1>1, <2>1, <3>1
  <2>3. \A n \in DOMAIN chunks : \A s \in Slots : chunks[n].slots[s] = None
    BY <2>2, EmptyFact
  <2>4. Descriptors = {}
    BY <2>3 DEF Descriptors
  <2>5. Listed = {}
    BY <2>4 DEF Listed
  <2>6. Cardinality(Listed) = 0
    BY <2>5, FS_EmptySet
  <2>7. Unique
    BY <2>4 DEF Unique
  <2>8. free + Cardinality(Listed) = NumSlots * Len(chunks) /\ free \in Int
    <3>1. NumSlots \in Nat /\ free = NumSlots
      BY <1>1, SlotsFact
    <3>2. NumSlots * Len(chunks) = NumSlots
      BY <2>2, <3>1
    <3> QED  BY <2>6, <3>1, <3>2
  <2> QED  BY <2>2, <2>3, <2>5, <2>7, <2>8 DEF InChunks
<1>5. Joins
  <2>1. held[T] = {}
    BY <1>0, <1>1 DEF BufferInit
  <2>2. (\A b \in Bufs : JoinedBuf(b)) /\ (\A i \in Inodes : JoinedInode(i))
    BY <1>1 DEF JoinedBuf, JoinedInode
  <2> QED  BY <1>1, <1>4, <2>1, <2>2 DEF Joins
<1> QED  BY <1>2, <1>3, <1>4, <1>5 DEF IInv

\* Every step keeps it.
LEMMA NextKept ==
  ASSUME ~FlushFails, IInv, [Next]_vars
  PROVE  IInv'
<1>1. CASE Cache
  BY <1>1, CacheKept
<1>2. CASE Begin
  BY <1>2, BeginKept
<1>3. CASE Commit
  BY <1>3, CommitKept
<1>4. CASE Cancel
  BY <1>4, CancelKept
<1>5. CASE TransReturn
  BY <1>5, TransReturnKept
<1>6. ASSUME NEW k \in Blocks, TransAgain(k) PROVE IInv'
  BY <1>6, TransAgainKept
<1>7. ASSUME NEW k \in Blocks, NEW o \in {"get", "read"}, TransAsk(o, k) PROVE IInv'
  BY <1>7, TransAskKept
<1>8. ASSUME NEW b \in Bufs, Bjoin(b) \/ Bhold(b) \/ LogBuf(b) \/ Binval(b) \/ Brelse(b)
      PROVE  IInv'
  BY <1>8, BjoinKept, BholdKept, LogBufKept, BinvalKept, BrelseKept
<1>9. ASSUME NEW i \in Inodes,
             \/ Iget(i) \/ Iput(i) \/ Irelse(i) \/ TransIget(i) \/ Ijoin(i)
             \/ Ihold(i) \/ LogInode(i)
      PROVE  IInv'
  BY <1>9, IgetKept, IputKept, IrelseKept, TransIgetKept, IjoinKept, IholdKept, LogInodeKept
<1>10. CASE UNCHANGED vars
  <2>1. UNCHANGED bufferVars /\ UNCHANGED <<tvars, ivars>> /\ UNCHANGED <<open, trans, mine>>
    BY <1>10 DEF vars, tvars
  <2>2. BInv' /\ UNCHANGED held
    BY <2>1, Facts, SameKept
  <2>3. trans' \in BOOLEAN
    BY <2>1, Facts
  <2>4. JInv'
    BY <2>1, <2>2, <2>3, Facts, JoinsSame
  <2> QED  BY <2>2, <2>4 DEF IInv, JInv
<1> QED  BY <1>1, <1>2, <1>3, <1>4, <1>5, <1>6, <1>7, <1>8, <1>9, <1>10 DEF Next

\* Unless the flush of an inode fails, the descriptors, the references and what
\* is joined agree after every step of the library and of its client.
THEOREM Consistent == ~FlushFails => (Spec => []IInv)
<1> SUFFICES ASSUME ~FlushFails PROVE Spec => []IInv
  OBVIOUS
<1>1. IInv /\ [Next]_vars => IInv'
  BY NextKept
<1> QED  BY <1>1, InitKept, PTL DEF Spec

\* t_items_free is the number of free slots in all chunks, and what is joined
\* has one descriptor: xfs_trans_add_item finds a slot.
THEOREM SlotsCounted == ~FlushFails => (Spec => []DescriptorsExact)
<1> SUFFICES ASSUME ~FlushFails PROVE Spec => []DescriptorsExact
  OBVIOUS
<1>1. ASSUME IInv PROVE DescriptorsExact
  <2>1. BufferTypes /\ Placed /\ TransTypes /\ InChunks /\ Joins
    BY <1>1 DEF IInv, BInv
  <2>2. BufferTypeOK
    BY <2>1 DEF BufferTypeOK, BufferTypes, Placed, Values
  <2>3. free \in 0 .. NumSlots * Len(chunks)
    BY <2>1, FreeRange
  <2>4. \A b \in Bufs : item[b] # None => item[b].recur \in 0 .. MaxRecur
    BY <2>1 DEF TransTypes, Item
  <2>5. TypeOK
    BY <2>1, <2>2, <2>3, <2>4 DEF TypeOK, TransTypes, Joins
  <2>6. Cardinality(Descriptors) = Cardinality(Listed)
    BY <2>1, DescriptorCount
  <2>7. Listed = joined \cup {i \in itransp : open}
    BY <2>1 DEF Joins
  <2> QED  BY <2>1, <2>5, <2>6, <2>7 DEF DescriptorsExact, InChunks
<1>2. IInv => DescriptorsExact
  BY <1>1
<1>3. Spec => []IInv
  BY Consistent
<1> QED  BY <1>2, <1>3, PTL

\* A transaction gives back what it was given: between transactions the client
\* has the references it had or asked to keep, and no others.
THEOREM Returned == ~FlushFails => (Spec => []ReferencesReturned)
<1> SUFFICES ASSUME ~FlushFails PROVE Spec => []ReferencesReturned
  OBVIOUS
<1>1. ASSUME IInv, ~open, pc[T] = "idle"
      PROVE  /\ held[T] = mine \cap Bufs
             /\ \A b \in Bufs : refs[b] = IF b \in mine THEN 1 ELSE 0
             /\ \A i \in Inodes : iref[i] = IF i \in mine THEN 1 ELSE 0
  <2>1. Counted /\ itransp = {} /\ held[T] = mine \cap Bufs
    BY <1>1, Facts DEF IInv, BInv
  <2>2. \A b \in Bufs : refs[b] = IF b \in mine THEN 1 ELSE 0
    BY <1>1, <2>1 DEF Counted, InUse, Using
  <2>3. \A i \in Inodes : iref[i] = IF i \in mine THEN 1 ELSE 0
    BY <1>1, <2>1, InodeFact
  <2> QED  BY <2>1, <2>2, <2>3
<1>2. IInv => ReferencesReturned
  BY <1>1 DEF ReferencesReturned
<1>3. Spec => []IInv
  BY Consistent
<1> QED  BY <1>2, <1>3, PTL

\* The assertions of libxfs_trans_ijoin: between transactions no inode is in one.
THEOREM NoneJoined == ~FlushFails => (Spec => []Unjoined)
<1> SUFFICES ASSUME ~FlushFails PROVE Spec => []Unjoined
  OBVIOUS
<1>1. ASSUME IInv, ~open
      PROVE  itransp = {} /\ \A i \in Inodes : ili[i] # None => ~ili[i].hold
  BY <1>1, Facts, InodeFact
<1>2. IInv => Unjoined
  BY <1>1 DEF Unjoined
<1>3. Spec => []IInv
  BY Consistent
<1> QED  BY <1>2, <1>3, PTL

-----------------------------------------------------------------------------
(* What is freed is not written *)

\* What is logged is joined, and two buffers of the cache have two blocks.
LEMMA LoggedFact ==
  ASSUME IInv
  PROVE  /\ \A b \in Bufs : b \in logged => b \in joined /\ b \in Live
         /\ \A b, c \in Live : blkno[b] = blkno[c] => b = c
         /\ Live \subseteq Bufs /\ \A b \in Live : blkno[b] \in Blocks
         /\ \A b \in todo[T] : b \notin joined
<1>1. Placed /\ todo[T] \subseteq taken[T] /\ taken[T] \subseteq Bufs
  BY OneThread DEF IInv, BInv, Called, BufferTypes
<1>2. \A b \in Bufs : b \in logged => b \in joined /\ b \in Live
  BY Facts DEF Live
<1>3. Live \subseteq Bufs
  BY <1>1, Facts DEF Live
<1>4. \A b \in todo[T] : b \notin joined
  BY <1>1, Facts DEF Placed
<1> QED  BY <1>1, <1>2, <1>3, <1>4 DEF Placed, Live

\* A log item takes the place of another.
LEMMA CoreOf ==
  ASSUME item \in [Bufs -> Item \cup {None}], NEW b \in Bufs, NEW r \in Item,
         item' = [item EXCEPT ![b] = r]
  PROVE  /\ Core(b)' = r.flags \cap {"DIRTY", "STALE"}
         /\ \A c \in Bufs : c # b => Core(c)' = Core(c)
<1>1. item'[b] = r /\ \A c \in Bufs : c # b => item'[c] = item[c]
  OBVIOUS
<1>2. r # None
  BY TransactionAssumption DEF Item
<1> QED  BY <1>1, <1>2 DEF Core

\* What the items say of the contents does not change.
CoreSame == \A b \in Bufs : Core(b)' = Core(b)

\* The flags of an item, other than of those that are not there.
LEMMA CoreFact ==
  ASSUME IInv, NEW b \in Bufs
  PROVE  /\ item[b] \in Item => item[b] # None /\ Core(b) = item[b].flags \cap {"DIRTY", "STALE"}
         /\ b \in joined => item[b] \in Item
         /\ item \in [Bufs -> Item \cup {None}]
         /\ Core(b) \subseteq {"DIRTY", "STALE"}
         /\ item[b] = None => Core(b) = {}
<1>1. None \notin Item
  BY TransactionAssumption DEF Item
<1>2. item \in [Bufs -> Item \cup {None}]
  BY DEF IInv, TransTypes
<1>3. b \in joined => item[b] \in Item
  BY JoinedFact
<1> QED  BY <1>1, <1>2, <1>3 DEF Core

\* Steps that change at most what else an item says.
LEMMA CoreSteps ==
  ASSUME IInv, Invalidated, NEW b \in Bufs,
         \/ UNCHANGED item
         \/ TransReturn /\ b = cur[T]
         \/ Bjoin(b) \/ Bhold(b) \/ Brelse(b)
         \/ b \in joined /\ item' = [item EXCEPT ![b].recur = @ + 1] /\ item[b].recur < MaxRecur
  PROVE  CoreSame
<1>1. CASE UNCHANGED item
  BY <1>1 DEF CoreSame, Core
<1>2. ASSUME NEW r \in Item, item' = [item EXCEPT ![b] = r],
             r.flags \cap {"DIRTY", "STALE"} = Core(b)
      PROVE  CoreSame
  <2>1. item \in [Bufs -> Item \cup {None}]
    BY CoreFact
  <2>2. Core(b)' = Core(b) /\ \A c \in Bufs : c # b => Core(c)' = Core(c)
    BY <1>2, <2>1, CoreOf
  <2> QED  BY <2>2 DEF CoreSame
<1>3. NewItem \in Item /\ NewItem.flags = {}
  BY TransactionAssumption DEF NewItem, Item
<1>4. item[b] \in Item \cup {None} /\ (item[b] = None => Core(b) = {})
        /\ (item[b] \in Item => Core(b) = item[b].flags \cap {"DIRTY", "STALE"})
  BY CoreFact
<1>5. CASE TransReturn /\ b = cur[T]
  <2>1. PICK r : r = IF item[b] = None THEN NewItem ELSE [item[b] EXCEPT !.recur = 0]
    OBVIOUS
  <2>2. item' = [item EXCEPT ![b] = r]
    BY <1>5, <2>1 DEF TransReturn, Join
  <2>3. CASE item[b] = None
    BY <1>2, <1>3, <1>4, <2>1, <2>2, <2>3
  <2>4. CASE item[b] # None
    <3>1. r \in Item /\ r.flags = item[b].flags
      BY <1>4, <2>1, <2>4, TransactionAssumption DEF Item
    <3> QED  BY <1>2, <1>4, <2>2, <2>4, <3>1
  <2> QED  BY <2>3, <2>4
<1>6. CASE Bjoin(b)
  <2>1. PICK r : r = IF item[b] = None THEN NewItem ELSE item[b]
    OBVIOUS
  <2>2. item' = [item EXCEPT ![b] = r]
    BY <1>6, <2>1 DEF Bjoin, Join
  <2> QED  BY <1>2, <1>3, <1>4, <2>1, <2>2
<1>7. CASE Bhold(b)
  <2>1. PICK r : r = [item[b] EXCEPT !.flags = @ \cup {"HOLD"}]
    OBVIOUS
  <2>2. item' = [item EXCEPT ![b] = r] /\ item[b] \in Item
    BY <1>7, <2>1, CoreFact DEF Bhold
  <2>3. r \in Item /\ r.flags = item[b].flags \cup {"HOLD"}
    BY <2>1, <2>2 DEF Item
  <2> QED  BY <1>2, <1>4, <2>2, <2>3
<1>8. CASE Brelse(b)
  <2>1. item[b] \in Item /\ item[b].recur \in 0 .. MaxRecur
    BY <1>8, JoinedFact DEF Brelse
  <2>2. CASE item' = [item EXCEPT ![b].recur = @ - 1] /\ item[b].recur > 0
    <3>1. PICK r : r = [item[b] EXCEPT !.recur = @ - 1]
      OBVIOUS
    <3>2. item' = [item EXCEPT ![b] = r]
      BY <2>2, <3>1
    <3>3. item[b].recur - 1 \in 0 .. MaxRecur
      BY <2>1, <2>2, TransactionAssumption
    <3>4. r \in Item /\ r.flags = item[b].flags
      BY <2>1, <3>1, <3>3 DEF Item
    <3> QED  BY <1>2, <1>4, <2>1, <3>2, <3>4
  <2>3. CASE item' = [item EXCEPT ![b].flags = @ \ {"HOLD"}]
    <3>1. PICK r : r = [item[b] EXCEPT !.flags = @ \ {"HOLD"}]
      OBVIOUS
    <3>2. item' = [item EXCEPT ![b] = r]
      BY <2>3, <3>1
    <3>3. r \in Item /\ r.flags = item[b].flags \ {"HOLD"}
      BY <2>1, <3>1 DEF Item
    <3> QED  BY <1>2, <1>4, <2>1, <3>2, <3>3
  <2> QED  BY <1>8, <2>2, <2>3 DEF Brelse
<1>9. CASE /\ b \in joined /\ item[b].recur < MaxRecur
           /\ item' = [item EXCEPT ![b].recur = @ + 1]
  <2>1. item[b] \in Item /\ item[b].recur \in 0 .. MaxRecur
    BY <1>9, JoinedFact
  <2>2. PICK r : r = [item[b] EXCEPT !.recur = @ + 1]
    OBVIOUS
  <2>3. item' = [item EXCEPT ![b] = r]
    BY <1>9, <2>2
  <2>4. item[b].recur + 1 \in 0 .. MaxRecur
    BY <1>9, <2>1, TransactionAssumption
  <2>5. r \in Item /\ r.flags = item[b].flags
    BY <2>1, <2>2, <2>4 DEF Item
  <2> QED  BY <1>2, <1>4, <2>1, <2>3, <2>5
<1> QED  BY <1>1, <1>5, <1>6, <1>7, <1>8, <1>9

\* No buffer becomes dirty.
FlagsShrink ==
  \A b \in Live' : "DIRTY" \in flags'[b] =>
    b \in Live /\ blkno'[b] = blkno[b] /\ "DIRTY" \in flags[b]
\* No logged buffer is given another block.
LoggedStay == \A b \in logged \cap Bufs : blkno'[b] = blkno[b]

\* Such a step leaves what is freed unwritten.
LEMMA StillInvalidated ==
  ASSUME IInv, Invalidated, UNCHANGED freed, CoreSame, logged \subseteq logged',
         FlagsShrink, LoggedStay
  PROVE  Invalidated'
<1>1. \A b \in Bufs : Core(b)' # {} => b \in logged' /\ blkno'[b] = blkno[b]
  BY DEF Invalidated, CoreSame, LoggedStay
<1>2. \A b \in Bufs : "STALE" \in Core(b)' => blkno'[b] \in freed' /\ "DIRTY" \notin Core(b)'
  BY <1>1 DEF Invalidated, CoreSame
<1>3. \A b \in Bufs : "DIRTY" \in Core(b)' => blkno'[b] \notin freed'
  BY <1>1 DEF Invalidated, CoreSame
<1>4. \A b \in Live' : blkno'[b] \in freed' => "DIRTY" \notin flags'[b]
  BY DEF Invalidated, FlagsShrink
<1> QED  BY <1>1, <1>2, <1>3, <1>4 DEF Invalidated

\* A step that at most moves buffers into the cache, clean, or out of use: the
\* contents and what the items say of them stay.
Frame ==
  /\ UNCHANGED <<disk, version, freed>> /\ CoreSame /\ logged \subseteq logged'
  /\ Live \subseteq Live'
  /\ \A b \in Live' :
       IF b \in Live THEN blkno'[b] = blkno[b] /\ data'[b] = data[b] /\ flags'[b] = flags[b]
       ELSE flags'[b] = {}

\* The buffers and the cache do not change.
LEMMA SameFrame ==
  ASSUME UNCHANGED <<disk, version, chain, todo, blkno, data, flags, freed>>, CoreSame,
         logged \subseteq logged'
  PROVE  Frame
BY DEF Frame, Live, Cached

\* What libxfs_readbufr, libxfs_bulkrelse and libxfs_bcache_flush do.
ReadIn ==
  /\ pc[T] = "read"
  /\ data' = [data EXCEPT ![cur[T]] = disk[blkno[cur[T]]]]
  /\ flags' = [flags EXCEPT ![cur[T]] = @ \cup {"UPTODATE"}]
  /\ UNCHANGED <<disk, version, freed, chain, todo, blkno, item, logged>>
WriteOut ==
  \E S \in SUBSET Live :
    /\ Writebufr(S)
    /\ UNCHANGED <<version, freed, chain, blkno, data, item, logged>>
    /\ todo'[T] \subseteq todo[T] /\ todo[T] \ todo'[T] \subseteq S

\* The steps inside a call.
LEMMA InsideFrame ==
  ASSUME IInv, Inside(T), UNCHANGED <<freed, item, logged>>
  PROVE  Frame \/ ReadIn \/ WriteOut
<1>0. T \in Threads /\ BufferTypes /\ Called /\ Placed /\ Counted
  BY OneThread DEF IInv, BInv
<1>1. CoreSame
  BY DEF CoreSame, Core
<1>2. CASE Search(T)
  BY <1>1, <1>2, SameFrame DEF Search, store
<1>3. CASE Allocate(T)
  <2>1. /\ pc[T] = "allocate" /\ todo[T] = {}
        /\ UNCHANGED <<disk, version, chain, data, todo>> /\ Live' = Live
    BY <1>0, <1>3 DEF Allocate, store, Called, Live, Cached
  <2>2. PICK b \in IF freelist # {} THEN freelist ELSE Fresh :
          blkno' = [blkno EXCEPT ![b] = want[T]] /\ flags' = [flags EXCEPT ![b] = {}]
    BY <1>3 DEF Allocate, NewFlags
  <2>3. b \notin Cached
    <3>1. CASE freelist # {}
      BY <1>0, <2>2, <3>1 DEF Placed
    <3>2. CASE freelist = {}
      <4>1. blkno[b] = None
        BY <2>2, <3>2 DEF Fresh
      <4> QED  BY <1>0, <4>1, BufferAssumption DEF Placed
    <3> QED  BY <3>1, <3>2
  <2>4. ASSUME NEW c \in Live
        PROVE  blkno'[c] = blkno[c] /\ data'[c] = data[c] /\ flags'[c] = flags[c]
    <3>1. c \in Bufs /\ c # b
      BY <2>1, <2>3 DEF Live, Cached
    <3> QED  BY <1>0, <2>1, <2>2, <3>1 DEF BufferTypes
  <2> QED  BY <1>1, <2>1, <2>4 DEF Frame
<1>4. CASE Insert(T)
  <2>1. PICK b : b = cur[T]
    OBVIOUS
  <2>2. /\ chain' = chain \cup ({b} \X (Cached \cup {b}))
        /\ UNCHANGED <<disk, version, blkno, data, flags, todo>>
    BY <1>4, <2>1 DEF Insert, InFront, store, bufs
  <2>3. b \in Bufs /\ flags[b] = {}
    BY <1>0, <1>4, <2>1 DEF Insert, Called, Using
  <2>4. Cached' = Cached \cup {b}
    BY <2>2, <2>3 DEF Cached
  <2>5. Live' = Live \cup {b}
    BY <2>2, <2>4 DEF Live
  <2> QED  BY <1>1, <2>2, <2>3, <2>5 DEF Frame
<1>5. CASE Lock(T)
  BY <1>1, <1>5, SameFrame DEF Lock, store
<1>6. CASE Read(T)
  <2>1. CASE UNCHANGED <<data, flags>>
    BY <1>1, <1>6, <2>1, SameFrame DEF Read, store
  <2>2. CASE /\ data' = [data EXCEPT ![cur[T]] = disk[blkno[cur[T]]]]
             /\ flags' = [flags EXCEPT ![cur[T]] = @ \cup {"UPTODATE"}]
    BY <1>6, <2>2 DEF Read, ReadIn, store
  <2> QED  BY <1>6, <2>1, <2>2 DEF Read
<1>7. CASE Shake(T)
  <2>1. PICK S \in SUBSET {b \in Bufs : Idle(b)} :
          chain' = Without(S) /\ todo' = [todo EXCEPT ![T] = S]
    BY <1>7 DEF Shake
  <2>2. todo[T] = {} /\ todo'[T] = S /\ S \subseteq Cached
          /\ UNCHANGED <<disk, version, blkno, data, flags>>
    BY <1>0, <1>7, <2>1 DEF Shake, store, bufs, Called, BufferTypes, Idle
  <2>3. Cached' = Cached \ S
    BY <2>1 DEF Cached, Without
  <2>4. Live' = Live
    BY <2>2, <2>3 DEF Live
  <2> QED  BY <1>1, <2>2, <2>4 DEF Frame
<1>8. CASE Release(T)
  <2>1. PICK b \in todo[T] : Writebufr({b}) /\ todo' = [todo EXCEPT ![T] = @ \ {b}]
    BY <1>8 DEF Release
  <2>2. PICK S : S = {b}
    OBVIOUS
  <2>3. b \in todo[T]
    BY <2>1
  <2>4. S \in SUBSET Live
    BY <2>2, <2>3 DEF Live
  <2>5. todo'[T] = todo[T] \ S
    BY <1>0, <2>1, <2>2 DEF BufferTypes
  <2>6. UNCHANGED <<version, freed, chain, blkno, data, item, logged>>
    BY <1>8 DEF Release
  <2> QED  BY <2>1, <2>2, <2>4, <2>5, <2>6 DEF WriteOut
<1>9. CASE ReleaseDone(T)
  BY <1>1, <1>9, SameFrame DEF ReleaseDone, store, bufs
<1> QED  BY <1>2, <1>3, <1>4, <1>5, <1>6, <1>7, <1>8, <1>9 DEF Inside

\* The buffer cache, used with no transaction or below one.
LEMMA CacheFrame ==
  ASSUME IInv, Cache
  PROVE  Frame \/ ReadIn \/ WriteOut
<1>0. T \in Threads /\ BufferTypes /\ Called
  BY OneThread DEF IInv, BInv
<1>1. UNCHANGED <<freed, item, logged>> /\ CoreSame
  BY DEF Cache, tvars, CoreSame, Core
<1>2. CASE Inside(T)
  BY <1>1, <1>2, InsideFrame
<1>3. CASE Purgebuf(T)
  <2>1. PICK b \in Bufs :
          Idle(b) /\ chain' = Without({b}) /\ todo' = [todo EXCEPT ![T] = {b}]
    BY <1>3 DEF Purgebuf
  <2>2. PICK S : S = {b}
    OBVIOUS
  <2>3. todo[T] = {} /\ todo'[T] = S /\ S \subseteq Cached
          /\ UNCHANGED <<disk, version, blkno, data, flags>>
    BY <1>0, <1>3, <2>1, <2>2 DEF Purgebuf, store, bufs, Called, BufferTypes, Idle
  <2>4. Cached' = Cached \ S
    BY <2>1, <2>2 DEF Cached, Without
  <2>5. Live' = Live
    BY <2>3, <2>4 DEF Live
  <2> QED  BY <1>1, <2>3, <2>5 DEF Frame
<1>4. CASE Flush(T)
  <2>1. Writebufr(Cached) /\ UNCHANGED <<version, chain, blkno, data>> /\ UNCHANGED todo
    BY <1>4 DEF Flush, locals
  <2>2. Cached \in SUBSET Live
    BY DEF Live
  <2> QED  BY <1>1, <2>1, <2>2 DEF WriteOut
<1>5. ASSUME NEW k \in Blocks, Ask(T, "read", k) PROVE Frame
  BY <1>1, <1>5, SameFrame DEF Ask, store, bufs
<1>6. CASE Return(T)
  BY <1>1, <1>6, SameFrame DEF Return, store, bufs
<1>7. ASSUME NEW b \in Bufs, Putbuf(T, b) PROVE Frame
  BY <1>1, <1>7, SameFrame DEF Putbuf, store, locals
<1> QED  BY <1>2, <1>3, <1>4, <1>5, <1>6, <1>7 DEF Cache

\* Every step but four is one that leaves the contents.
LEMMA NextFrame ==
  ASSUME IInv, Invalidated, ~CancelDirty, [Next]_vars
  PROVE  Frame \/ ReadIn \/ WriteOut \/ Commit \/ \E b \in Bufs : LogBuf(b) \/ Binval(b)
<1>1. ASSUME UNCHANGED item PROVE CoreSame
  BY <1>1 DEF CoreSame, Core
<1>2. ASSUME UNCHANGED bufferVars, UNCHANGED freed, CoreSame, logged \subseteq logged' PROVE Frame
  BY <1>2, SameFrame DEF bufferVars, store, bufs, locals
<1>3. CASE Cache
  BY <1>3, CacheFrame
<1>4. CASE Begin
  BY <1>1, <1>2, <1>4 DEF Begin
<1>5. CASE Cancel
  <2>1. logged = {}
    BY <1>5, Facts DEF Cancel
  <2>2. item' = [b \in Bufs |->
          IF b \in Listed THEN [item[b] EXCEPT !.flags = @ \ {"HOLD"}] ELSE item[b]]
    BY <1>5 DEF Cancel
  <2>3. ASSUME NEW b \in Bufs PROVE Core(b)' = Core(b)
    <3>1. CASE b \in Listed
      <4>1. item[b] \in Item /\ Core(b) = item[b].flags \cap {"DIRTY", "STALE"}
        BY <3>1, Facts, CoreFact
      <4>2. PICK r : r = [item[b] EXCEPT !.flags = @ \ {"HOLD"}]
        OBVIOUS
      <4>3. item'[b] = r
        BY <2>2, <3>1, <4>2
      <4>4. r \in Item /\ r.flags = item[b].flags \ {"HOLD"}
        BY <4>1, <4>2 DEF Item
      <4>5. r # None
        BY <4>4, TransactionAssumption DEF Item
      <4>6. Core(b)' = r.flags \cap {"DIRTY", "STALE"}
        BY <4>3, <4>5 DEF Core
      <4> QED  BY <4>1, <4>4, <4>6
    <3>2. CASE b \notin Listed
      BY <2>2, <3>2 DEF Core
    <3> QED  BY <3>1, <3>2
  <2> QED  BY <1>5, <2>1, <2>3, SameFrame DEF Cancel, CoreSame, store, locals
<1>6. CASE TransReturn
  <2>1. PICK b : b = cur[T]
    OBVIOUS
  <2>2. b \in Bufs
    BY <1>6, <2>1, Facts, ReturnKept DEF TransReturn
  <2>3. CoreSame
    BY <1>6, <2>1, <2>2, CoreSteps
  <2> QED  BY <1>6, <2>3, SameFrame DEF TransReturn, Return, store, bufs
<1>7. ASSUME NEW k \in Blocks, TransAgain(k) PROVE Frame
  <2>1. PICK b \in Match(k) :
          item[b].recur < MaxRecur /\ item' = [item EXCEPT ![b].recur = @ + 1]
    BY <1>7 DEF TransAgain
  <2>2. b \in joined /\ b \in Bufs
    BY <2>1, Facts DEF Match
  <2>3. CoreSame
    BY <2>1, <2>2, CoreSteps
  <2> QED  BY <1>2, <1>7, <2>3 DEF TransAgain
<1>8. ASSUME NEW k \in Blocks, NEW o \in {"get", "read"}, TransAsk(o, k) PROVE Frame
  BY <1>1, <1>8, SameFrame DEF TransAsk, Ask, store, bufs, tvars
<1>9. ASSUME NEW b \in Bufs, Bjoin(b) \/ Bhold(b) PROVE Frame
  <2>1. CoreSame
    BY <1>9, CoreSteps
  <2> QED  BY <1>2, <1>9, <2>1 DEF Bjoin, Bhold
<1>10. ASSUME NEW b \in Bufs, Brelse(b) PROVE Frame
  <2>1. CoreSame
    BY <1>10, CoreSteps
  <2> QED  BY <1>10, <2>1, SameFrame DEF Brelse, store, locals
<1>11. ASSUME NEW i \in Inodes,
              \/ Iget(i) \/ Iput(i) \/ Irelse(i) \/ TransIget(i) \/ Ijoin(i)
              \/ Ihold(i) \/ LogInode(i)
       PROVE  Frame
  <2>1. UNCHANGED bufferVars /\ UNCHANGED freed /\ UNCHANGED item /\ logged \subseteq logged'
    BY <1>11 DEF Iget, Iput, Irelse, TransIget, Ijoin, Ihold, LogInode, tvars
  <2> QED  BY <1>1, <1>2, <2>1
<1>12. CASE UNCHANGED vars
  BY <1>1, <1>2, <1>12 DEF vars, tvars
<1> QED
  BY <1>3, <1>4, <1>5, <1>6, <1>7, <1>8, <1>9, <1>10, <1>11, <1>12 DEF Next

\* libxfs_writebufr with no error: what was dirty is on the device.
LEMMA WrittenOut ==
  ASSUME IInv, NEW S \in SUBSET Live, Writebufr(S)
  PROVE  /\ \A b \in Live : "DIRTY" \in flags'[b] => "DIRTY" \in flags[b]
         /\ \A b \in Live : Valid(b)' => Valid(b)
         /\ "write" \notin Faults =>
              /\ \A b \in S : "DIRTY" \notin flags'[b]
              /\ \A b \in Live \ S : flags'[b] = flags[b]
              /\ \A b \in S : "DIRTY" \in flags[b] => disk'[blkno[b]] = data[b]
              /\ \A k \in Blocks :
                   \/ disk'[k] = disk[k] /\ \A b \in S : blkno[b] = k => "DIRTY" \notin flags[b]
                   \/ \E b \in S : blkno[b] = k /\ "DIRTY" \in flags[b] /\ disk'[k] = data[b]
<1>0. Live \subseteq Bufs /\ (\A b, c \in Live : blkno[b] = blkno[c] => b = c)
        /\ \A b \in Live : blkno[b] \in Blocks
  BY LoggedFact
<1>1. PICK bad \in SUBSET Dirty(S) :
        /\ bad # {} => "write" \in Faults
        /\ \E last \in [{blkno[b] : b \in Dirty(S) \ bad} -> Dirty(S) \ bad] :
             /\ \A k \in DOMAIN last : blkno[last[k]] = k
             /\ disk' = [k \in Blocks |->
                  IF k \in DOMAIN last THEN data[last[k]] ELSE disk[k]]
        /\ flags' = [b \in Bufs |->
             IF b \in Dirty(S) \ bad
             THEN (flags[b] \cup {"UPTODATE"}) \ {"DIRTY"} ELSE flags[b]]
  BY DEF Writebufr
<1>2. \A b \in Live : "DIRTY" \in flags'[b] => "DIRTY" \in flags[b]
  BY <1>0, <1>1
<1>3. \A b \in Live : Valid(b)' => Valid(b)
  <2>1. ASSUME NEW b \in Live, Valid(b)' PROVE Valid(b)
    <3>1. b \in Bufs
      BY <1>0
    <3>2. CASE b \in Dirty(S) \ bad
      BY <3>2 DEF Dirty, Valid
    <3>3. CASE b \notin Dirty(S) \ bad
      BY <1>1, <2>1, <3>1, <3>3 DEF Valid
    <3> QED  BY <3>2, <3>3
  <2> QED  BY <2>1
<1>4. ASSUME "write" \notin Faults
      PROVE  /\ \A b \in S : "DIRTY" \notin flags'[b]
             /\ \A b \in Live \ S : flags'[b] = flags[b]
             /\ \A b \in S : "DIRTY" \in flags[b] => disk'[blkno[b]] = data[b]
             /\ \A k \in Blocks :
                  \/ disk'[k] = disk[k] /\ \A b \in S : blkno[b] = k => "DIRTY" \notin flags[b]
                  \/ \E b \in S : blkno[b] = k /\ "DIRTY" \in flags[b] /\ disk'[k] = data[b]
  <2>1. bad = {}
    BY <1>1, <1>4
  <2>2. Dirty(S) \ bad = Dirty(S)
    BY <2>1
  <2>3. /\ \A b \in S : "DIRTY" \notin flags'[b]
        /\ \A b \in Live \ S : flags'[b] = flags[b]
    BY <1>0, <1>1, <2>2 DEF Dirty
  <2>4. PICK K : K = {blkno[b] : b \in Dirty(S)}
    OBVIOUS
  <2>5. PICK last \in [K -> Dirty(S)] :
          /\ \A k \in DOMAIN last : blkno[last[k]] = k
          /\ disk' = [k \in Blocks |->
               IF k \in DOMAIN last THEN data[last[k]] ELSE disk[k]]
    BY <1>1, <2>2, <2>4
  <2>6. DOMAIN last = K /\ \A k \in K : last[k] \in Dirty(S) /\ blkno[last[k]] = k
    BY <2>5
  <2>7. \A k \in Blocks : disk'[k] = IF k \in K THEN data[last[k]] ELSE disk[k]
    BY <2>5, <2>6
  <2>8. ASSUME NEW k \in Blocks
        PROVE  \/ disk'[k] = disk[k] /\ \A b \in S : blkno[b] = k => "DIRTY" \notin flags[b]
               \/ \E b \in S : blkno[b] = k /\ "DIRTY" \in flags[b] /\ disk'[k] = data[b]
    <3>1. CASE k \in K
      <4>1. last[k] \in S /\ blkno[last[k]] = k /\ "DIRTY" \in flags[last[k]]
        BY <2>6, <3>1 DEF Dirty
      <4>2. disk'[k] = data[last[k]]
        BY <2>7, <3>1
      <4> QED  BY <4>1, <4>2
    <3>2. CASE k \notin K
      <4>1. disk'[k] = disk[k]
        BY <2>7, <3>2
      <4>2. ASSUME NEW b \in S, blkno[b] = k PROVE "DIRTY" \notin flags[b]
        BY <2>4, <3>2, <4>2 DEF Dirty
      <4> QED  BY <4>1, <4>2
    <3> QED  BY <3>1, <3>2
  <2>9. ASSUME NEW b \in S, "DIRTY" \in flags[b] PROVE disk'[blkno[b]] = data[b]
    <3>1. b \in Live /\ blkno[b] \in Blocks
      BY <1>0
    <3>2. b \in Dirty(S)
      BY <2>9 DEF Dirty
    <3>3. blkno[b] \in K
      BY <2>4, <3>2
    <3>4. last[blkno[b]] \in Live /\ blkno[last[blkno[b]]] = blkno[b]
      BY <2>6, <3>3 DEF Dirty
    <3>5. last[blkno[b]] = b
      BY <1>0, <3>1, <3>4
    <3> QED  BY <2>7, <3>1, <3>3, <3>5
  <2> QED  BY <2>3, <2>8, <2>9
<1> QED  BY <1>2, <1>3, <1>4

\* At the commit the items of what was logged go, and their buffers are dirty.
LEMMA CommitCore ==
  ASSUME IInv, Invalidated, Commit
  PROVE  /\ \A b \in Bufs : /\ Core(b)' = {} /\ flags'[b] \subseteq flags[b] \cup Core(b)
                            /\ "DIRTY" \in Core(b) => "DIRTY" \in flags'[b]
                            /\ "DIRTY" \notin Core(b) => flags'[b] = flags[b]
                            /\ flags[b] \subseteq flags'[b]
         /\ Live' = Live /\ UNCHANGED <<disk, version, data, blkno, freed>>
<1>1. /\ flags' = [b \in Bufs |->
           IF b \in Listed /\ ToWrite(b) THEN flags[b] \cup {"DIRTY"} ELSE flags[b]]
      /\ item' = [b \in Bufs |-> IF b \in Listed THEN None ELSE item[b]]
      /\ UNCHANGED <<disk, version, data, chain, blkno, freed, todo>>
  BY DEF Commit, locals, store
<1>2. ASSUME NEW b \in Bufs PROVE Core(b)' = {}
  <2>1. CASE b \in Listed
    BY <1>1, <2>1 DEF Core
  <2>2. CASE b \notin Listed
    <3>1. Core(b) = {}
      BY <2>2, Facts DEF Invalidated
    <3> QED  BY <1>1, <2>2, <3>1 DEF Core
  <2> QED  BY <2>1, <2>2
<1>3. ASSUME NEW b \in Bufs PROVE "DIRTY" \in Core(b) <=> b \in Listed /\ ToWrite(b)
  <2>1. CASE b \in Listed
    <3>1. item[b] \in Item /\ Core(b) = item[b].flags \cap {"DIRTY", "STALE"}
      BY <2>1, Facts, CoreFact
    <3> QED  BY <2>1, <3>1 DEF ToWrite
  <2>2. CASE b \notin Listed
    BY <2>2, Facts DEF Invalidated
  <2> QED  BY <2>1, <2>2
<1>4. ASSUME NEW b \in Bufs
      PROVE  flags'[b] = IF "DIRTY" \in Core(b) THEN flags[b] \cup {"DIRTY"} ELSE flags[b]
  BY <1>1, <1>3
<1>5. Live' = Live
  BY <1>1 DEF Live, Cached
<1> QED  BY <1>1, <1>2, <1>4, <1>5

\* A buffer is logged.
LEMMA LogBufCore ==
  ASSUME IInv, Invalidated, NEW b \in Bufs, LogBuf(b)
  PROVE  /\ Core(b)' = {"DIRTY"} /\ \A c \in Bufs : c # b => Core(c)' = Core(c)
         /\ b \in Live /\ Live' = Live /\ UNCHANGED <<disk, blkno, flags>>
         /\ logged' = logged \cup {b} /\ freed' = freed \ {blkno[b]}
<1>1. /\ b \in joined /\ ("STALE" \in item[b].flags => b \notin logged)
      /\ item' = [item EXCEPT ![b].flags = @ \cup {"DIRTY"}]
      /\ logged' = logged \cup {b} /\ freed' = freed \ {blkno[b]}
      /\ UNCHANGED <<disk, chain, blkno, flags, todo>>
  BY DEF LogBuf, locals
<1>2. item[b] \in Item /\ item \in [Bufs -> Item \cup {None}]
        /\ Core(b) = item[b].flags \cap {"DIRTY", "STALE"} /\ b \in Live /\ Live' = Live
  BY <1>1, CoreFact, JoinedFact DEF Live, Cached
<1>3. "STALE" \notin item[b].flags
  BY <1>1, <1>2 DEF Invalidated
<1>4. PICK r : r = [item[b] EXCEPT !.flags = @ \cup {"DIRTY"}]
  OBVIOUS
<1>5. item' = [item EXCEPT ![b] = r]
  BY <1>1, <1>4
<1>6. r \in Item /\ r.flags = item[b].flags \cup {"DIRTY"}
  BY <1>2, <1>4 DEF Item
<1>7. Core(b)' = r.flags \cap {"DIRTY", "STALE"} /\ \A c \in Bufs : c # b => Core(c)' = Core(c)
  BY <1>2, <1>5, <1>6, CoreOf
<1>8. Core(b)' = {"DIRTY"}
  BY <1>3, <1>6, <1>7
<1> QED  BY <1>1, <1>2, <1>7, <1>8

\* A buffer is invalidated; it may have been before.
LEMMA BinvalCore ==
  ASSUME IInv, Invalidated, NEW b \in Bufs, Binval(b)
  PROVE  /\ Core(b)' = {"STALE"} /\ "DIRTY" \notin flags'[b]
         /\ \A c \in Bufs : c # b => Core(c)' = Core(c) /\ flags'[c] = flags[c]
         /\ b \in Live /\ Live' = Live /\ UNCHANGED <<disk, version, data, blkno>>
         /\ logged' = logged \cup {b} /\ freed' = freed \cup {blkno[b]}
<1>1. /\ b \in joined /\ freed' = freed \cup {blkno[b]}
      /\ UNCHANGED <<disk, version, data, chain, blkno, todo>>
  BY DEF Binval, locals, store
<1>2. item[b] \in Item /\ item \in [Bufs -> Item \cup {None}]
        /\ Core(b) = item[b].flags \cap {"DIRTY", "STALE"} /\ b \in Live /\ Live' = Live
  BY <1>1, CoreFact, JoinedFact DEF Live, Cached
<1>3. CASE "STALE" \in item[b].flags /\ UNCHANGED <<flags, item, logged>>
  <2>1. "STALE" \in Core(b)
    BY <1>2, <1>3
  <2>2. b \in logged /\ blkno[b] \in freed /\ Core(b) = {"STALE"} /\ "DIRTY" \notin flags[b]
    BY <1>2, <2>1, CoreFact DEF Invalidated
  <2>3. CoreSame
    BY <1>3 DEF CoreSame, Core
  <2> QED  BY <1>1, <1>2, <1>3, <2>2, <2>3 DEF CoreSame
<1>4. CASE /\ "STALE" \notin item[b].flags
           /\ flags' = [flags EXCEPT ![b] = Undelayed(b)]
           /\ item' = [item EXCEPT ![b].flags = (@ \ {"DIRTY"}) \cup {"STALE"}]
           /\ logged' = logged \cup {b}
  <2>1. PICK r : r = [item[b] EXCEPT !.flags = (@ \ {"DIRTY"}) \cup {"STALE"}]
    OBVIOUS
  <2>2. item' = [item EXCEPT ![b] = r]
    BY <1>4, <2>1
  <2>3. r \in Item /\ r.flags = (item[b].flags \ {"DIRTY"}) \cup {"STALE"}
    BY <1>2, <2>1 DEF Item
  <2>4. Core(b)' = r.flags \cap {"DIRTY", "STALE"} /\ \A c \in Bufs : c # b => Core(c)' = Core(c)
    BY <1>2, <2>2, <2>3, CoreOf
  <2>5. Core(b)' = {"STALE"}
    BY <2>3, <2>4
  <2>6. "DIRTY" \notin flags'[b] /\ \A c \in Bufs : c # b => flags'[c] = flags[c]
    BY <1>4 DEF Undelayed, IInv, BInv, BufferTypes
  <2> QED  BY <1>1, <1>2, <1>4, <2>4, <2>5, <2>6
<1> QED  BY <1>3, <1>4 DEF Binval

\* What is freed is not written, and what is logged is in no other buffer.
LEMMA InvalidatedKept ==
  ASSUME IInv, Invalidated, ~CancelDirty, [Next]_vars
  PROVE  Invalidated'
<1>0. /\ \A b \in Bufs : b \in logged => b \in joined /\ b \in Live
      /\ \A b, c \in Live : blkno[b] = blkno[c] => b = c
      /\ Live \subseteq Bufs
  BY LoggedFact
<1>1. CASE Frame
  <2>1. UNCHANGED freed /\ CoreSame /\ logged \subseteq logged' /\ LoggedStay /\ FlagsShrink
    BY <1>0, <1>1 DEF Frame, LoggedStay, FlagsShrink
  <2> QED  BY <2>1, StillInvalidated
<1>2. CASE ReadIn
  <2>1. Live' = Live /\ CoreSame
    BY <1>2 DEF ReadIn, Live, Cached, CoreSame, Core
  <2>2. ASSUME NEW b \in Live, "DIRTY" \in flags'[b] PROVE "DIRTY" \in flags[b]
    <3>1. flags'[b] = flags[b] \/ flags'[b] = flags[b] \cup {"UPTODATE"}
      BY <1>0, <1>2 DEF ReadIn, IInv, BInv, BufferTypes
    <3> QED  BY <2>2, <3>1
  <2>3. FlagsShrink /\ LoggedStay /\ UNCHANGED <<freed, logged>>
    BY <1>2, <2>1, <2>2 DEF ReadIn, FlagsShrink, LoggedStay
  <2> QED  BY <2>1, <2>3, StillInvalidated
<1>3. CASE WriteOut
  <2>1. PICK S \in SUBSET Live :
          /\ Writebufr(S)
          /\ UNCHANGED <<version, freed, chain, blkno, data, item, logged>>
          /\ todo'[T] \subseteq todo[T] /\ todo[T] \ todo'[T] \subseteq S
    BY <1>3 DEF WriteOut
  <2>2. Live' \subseteq Live /\ CoreSame
    BY <2>1 DEF Live, Cached, CoreSame, Core
  <2>3. \A b \in Live : "DIRTY" \in flags'[b] => "DIRTY" \in flags[b]
    BY <2>1, WrittenOut
  <2>4. FlagsShrink /\ LoggedStay
    BY <2>1, <2>2, <2>3 DEF FlagsShrink, LoggedStay
  <2> QED  BY <2>1, <2>2, <2>4, StillInvalidated
<1>4. CASE Commit
  <2>1. /\ \A b \in Bufs : Core(b)' = {} /\ flags'[b] \subseteq flags[b] \cup Core(b)
        /\ Live' = Live /\ UNCHANGED <<blkno, freed>>
    BY <1>4, CommitCore
  <2>2. \A b \in Live : blkno[b] \in freed => "DIRTY" \notin flags'[b]
    BY <1>0, <2>1 DEF Invalidated
  <2> QED  BY <2>1, <2>2 DEF Invalidated
<1>5. ASSUME NEW b \in Bufs, LogBuf(b) PROVE Invalidated'
  <2>1. /\ Core(b)' = {"DIRTY"} /\ \A c \in Bufs : c # b => Core(c)' = Core(c)
        /\ b \in Live /\ Live' = Live /\ UNCHANGED <<blkno, flags>>
        /\ logged' = logged \cup {b} /\ freed' = freed \ {blkno[b]}
    BY <1>5, LogBufCore
  <2>2. \A c \in Bufs : c # b /\ Core(c) # {} => blkno[c] # blkno[b]
    BY <1>0, <2>1 DEF Invalidated
  <2>3. \A c \in Bufs : Core(c)' # {} => c \in logged'
    BY <2>1 DEF Invalidated
  <2>4. \A c \in Bufs : "STALE" \in Core(c)' => blkno'[c] \in freed' /\ "DIRTY" \notin Core(c)'
    BY <2>1, <2>2 DEF Invalidated
  <2>5. \A c \in Bufs : "DIRTY" \in Core(c)' => blkno'[c] \notin freed'
    BY <2>1 DEF Invalidated
  <2>6. \A c \in Live' : blkno'[c] \in freed' => "DIRTY" \notin flags'[c]
    BY <2>1 DEF Invalidated
  <2> QED  BY <2>3, <2>4, <2>5, <2>6 DEF Invalidated
<1>6. ASSUME NEW b \in Bufs, Binval(b) PROVE Invalidated'
  <2>1. /\ Core(b)' = {"STALE"} /\ "DIRTY" \notin flags'[b]
        /\ \A c \in Bufs : c # b => Core(c)' = Core(c) /\ flags'[c] = flags[c]
        /\ b \in Live /\ Live' = Live /\ UNCHANGED blkno
        /\ logged' = logged \cup {b} /\ freed' = freed \cup {blkno[b]}
    BY <1>6, BinvalCore
  <2>2. \A c \in Bufs : c # b /\ Core(c) # {} => blkno[c] # blkno[b]
    BY <1>0, <2>1 DEF Invalidated
  <2>3. \A c \in Bufs : Core(c)' # {} => c \in logged'
    BY <2>1 DEF Invalidated
  <2>4. \A c \in Bufs : "STALE" \in Core(c)' => blkno'[c] \in freed' /\ "DIRTY" \notin Core(c)'
    BY <2>1 DEF Invalidated
  <2>5. \A c \in Bufs : "DIRTY" \in Core(c)' => blkno'[c] \notin freed'
    BY <2>1, <2>2 DEF Invalidated
  <2>6. \A c \in Live' : blkno'[c] \in freed' => "DIRTY" \notin flags'[c]
    BY <1>0, <2>1 DEF Invalidated
  <2> QED  BY <2>3, <2>4, <2>5, <2>6 DEF Invalidated
<1> QED  BY <1>1, <1>2, <1>3, <1>4, <1>5, <1>6, NextFrame

\* Nothing is invalidated at the start.
LEMMA InvalidatedInit == Init => Invalidated
BY OneThread DEF Init, BufferInit, Invalidated, Core, Live, Cached

\* A block a transaction has freed is not written any more by a delayed write
\* from before.
THEOREM FreedStays == ~FlushFails /\ ~CancelDirty => (Spec => []FreedNotWritten)
<1> SUFFICES ASSUME ~FlushFails, ~CancelDirty PROVE Spec => []FreedNotWritten
  OBVIOUS
<1>1. Spec => []IInv
  BY Consistent
<1>2. IInv /\ Invalidated /\ [Next]_vars => Invalidated'
  BY InvalidatedKept
<1>3. Invalidated => FreedNotWritten
  BY DEF Invalidated, FreedNotWritten, Live
<1> QED  BY <1>1, <1>2, <1>3, InvalidatedInit, PTL DEF Spec

-----------------------------------------------------------------------------
(* What is logged is not lost *)

\* The contents of a buffer, its block and its delayed write stay.
LEMMA FrameUpToDate ==
  ASSUME IInv, Invalidated, UpToDate, Frame
  PROVE  UpToDate'
<1>1. /\ UNCHANGED <<disk, version, freed>> /\ CoreSame /\ Live \subseteq Live'
      /\ \A b \in Live' :
           IF b \in Live THEN blkno'[b] = blkno[b] /\ data'[b] = data[b] /\ flags'[b] = flags[b]
           ELSE flags'[b] = {}
  BY DEF Frame
<1>2. \A k : Latest(k)' = Latest(k)
  BY <1>1 DEF Latest
<1>3. ASSUME NEW b \in Live', Valid(b)', blkno'[b] \notin freed'
      PROVE  data'[b] = Latest(blkno[b])'
  <2>1. b \in Live /\ Valid(b)
    BY <1>1, <1>3 DEF Valid
  <2> QED  BY <1>1, <1>3, <2>1 DEF UpToDate, Latest
<1>4. ASSUME NEW b \in Bufs, "DIRTY" \in Core(b)' PROVE data'[b] = Latest(blkno[b])'
  <2>1. "DIRTY" \in Core(b)
    BY <1>1, <1>4 DEF CoreSame
  <2>2. b \in Live
    BY <2>1, LoggedFact DEF Invalidated
  <2>3. b \in Live' /\ blkno'[b] = blkno[b] /\ data'[b] = data[b]
    BY <1>1, <2>2
  <2> QED  BY <1>1, <2>1, <2>3 DEF UpToDate, Latest
<1>5. ASSUME NEW k \in Blocks, ToBeWritten(k) PROVE ToBeWritten(k)'
  <2>1. PICK b \in Live : blkno[b] = k /\ data[b] = Latest(k) /\ ToWriteOut(b)
    BY <1>5 DEF ToBeWritten
  <2>2. b \in Live' /\ b \in Live /\ b \in Bufs
    BY <1>1, <2>1, LoggedFact
  <2>3. ToWriteOut(b)'
    BY <1>1, <2>1, <2>2 DEF ToWriteOut, CoreSame
  <2> QED  BY <1>1, <1>2, <2>1, <2>2, <2>3 DEF ToBeWritten
<1>6. ASSUME NEW k \in Blocks \ freed' PROVE disk'[k] = Latest(k)' \/ ToBeWritten(k)'
  <2>1. k \in Blocks /\ k \notin freed
    BY <1>1
  <2>2. disk[k] = Latest(k) \/ ToBeWritten(k)
    BY <2>1 DEF UpToDate
  <2> QED  BY <1>1, <1>2, <1>5, <2>1, <2>2
<1> QED  BY <1>3, <1>4, <1>6 DEF UpToDate

\* A buffer that is read has what its block has on the device.
LEMMA ReadUpToDate ==
  ASSUME IInv, Invalidated, UpToDate, ReadIn
  PROVE  UpToDate'
<1>0. /\ \A b \in Bufs : b \in logged => b \in joined /\ b \in Live
      /\ \A b, c \in Live : blkno[b] = blkno[c] => b = c
      /\ Live \subseteq Bufs /\ \A b \in Live : blkno[b] \in Blocks
  BY LoggedFact
<1>1. PICK c : c = cur[T]
  OBVIOUS
<1>2. /\ data' = [data EXCEPT ![c] = disk[blkno[c]]]
      /\ flags' = [flags EXCEPT ![c] = @ \cup {"UPTODATE"}]
      /\ UNCHANGED <<disk, version, freed, blkno>> /\ Live' = Live /\ CoreSame
  BY <1>1 DEF ReadIn, Live, Cached, CoreSame, Core
<1>3. c \in Live /\ c \in Bufs /\ c \notin held[T] /\ ~Valid(c)
  BY <1>0, <1>1 DEF ReadIn, IInv, BInv, Called, Asking, Calling, Using, Live
<1>4. c \notin joined /\ Core(c) = {} /\ "DIRTY" \notin flags[c]
  BY <1>0, <1>3, Facts DEF Invalidated, Valid
<1>5. data'[c] = disk[blkno[c]]
        /\ \A b \in Bufs : b # c => data'[b] = data[b] /\ flags'[b] = flags[b]
  BY <1>2, <1>3 DEF IInv, BInv, BufferTypes
<1>6. \A k : Latest(k)' = Latest(k)
  BY <1>2 DEF Latest
<1>7. ASSUME NEW k \in Blocks, ToBeWritten(k)
      PROVE  ToBeWritten(k)' /\ k # blkno[c]
  <2>1. PICK b \in Live : blkno[b] = k /\ data[b] = Latest(k) /\ ToWriteOut(b)
    BY <1>7 DEF ToBeWritten
  <2>2. b \in Live /\ b \in Bufs /\ b # c
    BY <1>0, <1>4, <2>1 DEF ToWriteOut
  <2>3. blkno'[b] = k /\ data'[b] = Latest(k)' /\ ToWriteOut(b)' /\ b \in Live'
    BY <1>2, <1>5, <1>6, <2>1, <2>2 DEF ToWriteOut, CoreSame
  <2> QED  BY <1>0, <1>3, <2>1, <2>2, <2>3 DEF ToBeWritten
<1>8. ASSUME NEW b \in Live', Valid(b)', blkno'[b] \notin freed'
      PROVE  data'[b] = Latest(blkno[b])'
  <2>1. b \in Live /\ b \in Bufs /\ blkno[b] \notin freed /\ blkno[b] \in Blocks
    BY <1>0, <1>2, <1>8
  <2>2. CASE b = c
    <3>1. disk[blkno[b]] = Latest(blkno[b])
      BY <1>7, <2>1, <2>2 DEF UpToDate
    <3> QED  BY <1>2, <1>5, <2>2, <3>1 DEF Latest
  <2>3. CASE b # c
    <3>1. Valid(b)
      BY <1>5, <1>8, <2>1, <2>3 DEF Valid
    <3>2. data[b] = Latest(blkno[b])
      BY <2>1, <3>1 DEF UpToDate
    <3> QED  BY <1>2, <1>5, <2>1, <2>3, <3>2 DEF Latest
  <2> QED  BY <2>2, <2>3
<1>9. ASSUME NEW b \in Bufs, "DIRTY" \in Core(b)' PROVE data'[b] = Latest(blkno[b])'
  <2>1. "DIRTY" \in Core(b) /\ b # c
    BY <1>2, <1>4, <1>9 DEF CoreSame
  <2>2. data[b] = Latest(blkno[b])
    BY <2>1 DEF UpToDate
  <2> QED  BY <1>2, <1>5, <2>1, <2>2 DEF Latest
<1>10. ASSUME NEW k \in Blocks \ freed' PROVE disk'[k] = Latest(k)' \/ ToBeWritten(k)'
  <2>1. k \in Blocks /\ k \notin freed
    BY <1>2
  <2>2. disk[k] = Latest(k) \/ ToBeWritten(k)
    BY <2>1 DEF UpToDate
  <2> QED  BY <1>2, <1>6, <1>7, <2>1, <2>2
<1> QED  BY <1>8, <1>9, <1>10 DEF UpToDate

\* What is written out reaches the device before its buffer is used again.
LEMMA WriteUpToDate ==
  ASSUME IInv, Invalidated, UpToDate, WriteOut, "write" \notin Faults
  PROVE  UpToDate'
<1>0. /\ \A b \in Bufs : b \in logged => b \in joined /\ b \in Live
      /\ \A b, c \in Live : blkno[b] = blkno[c] => b = c
      /\ Live \subseteq Bufs /\ \A b \in todo[T] : b \notin joined
  BY LoggedFact
<1>1. PICK S \in SUBSET Live :
        /\ Writebufr(S)
        /\ UNCHANGED <<version, freed, chain, blkno, data, item, logged>>
        /\ todo'[T] \subseteq todo[T] /\ todo[T] \ todo'[T] \subseteq S
  BY DEF WriteOut
<1>2. Live' \subseteq Live /\ CoreSame /\ \A b \in Live \ S : b \in Live'
  BY <1>1 DEF Live, Cached, CoreSame, Core
<1>3. /\ \A b \in Live : Valid(b)' => Valid(b)
      /\ \A b \in Live \ S : flags'[b] = flags[b]
      /\ \A b \in S : "DIRTY" \in flags[b] => disk'[blkno[b]] = data[b]
      /\ \A k \in Blocks :
           \/ disk'[k] = disk[k]
           \/ \E b \in S : blkno[b] = k /\ "DIRTY" \in flags[b] /\ disk'[k] = data[b]
  BY <1>1, WrittenOut
<1>4. \A k : Latest(k)' = Latest(k)
  BY <1>1 DEF Latest
<1>5. ASSUME NEW b \in Live', Valid(b)', blkno'[b] \notin freed'
      PROVE  data'[b] = Latest(blkno[b])'
  <2>1. b \in Live /\ Valid(b) /\ blkno[b] \notin freed
    BY <1>1, <1>2, <1>3, <1>5
  <2>2. data[b] = Latest(blkno[b])
    BY <2>1 DEF UpToDate
  <2> QED  BY <1>1, <2>2 DEF Latest
<1>6. ASSUME NEW b \in Bufs, "DIRTY" \in Core(b)' PROVE data'[b] = Latest(blkno[b])'
  <2>1. data[b] = Latest(blkno[b])
    BY <1>2, <1>6 DEF UpToDate, CoreSame
  <2> QED  BY <1>1, <2>1 DEF Latest
<1>7. ASSUME NEW k \in Blocks \ freed' PROVE disk'[k] = Latest(k)' \/ ToBeWritten(k)'
  <2>1. k \in Blocks /\ k \notin freed
    BY <1>1
  <2>2. ASSUME NEW b \in S, blkno[b] = k, "DIRTY" \in flags[b] PROVE data[b] = Latest(k)
    <3>1. b \in Live /\ Valid(b)
      BY <2>2 DEF Valid
    <3> QED  BY <2>1, <2>2, <3>1 DEF UpToDate
  <2>3. CASE disk[k] = Latest(k)
    BY <1>3, <1>4, <2>1, <2>2, <2>3
  <2>4. CASE ToBeWritten(k)
    <3>1. PICK b \in Live : blkno[b] = k /\ data[b] = Latest(k) /\ ToWriteOut(b)
      BY <2>4 DEF ToBeWritten
    <3>2. b \in Live /\ b \in Bufs
      BY <1>0, <3>1
    <3>3. CASE b \in S /\ "DIRTY" \in flags[b]
      BY <1>3, <1>4, <3>1, <3>3
    <3>4. CASE b \in S /\ "DIRTY" \notin flags[b]
      <4>1. "DIRTY" \in Core(b)
        BY <3>1, <3>4 DEF ToWriteOut
      <4>2. b \in joined
        BY <1>0, <3>2, <4>1 DEF Invalidated
      <4>3. b \in Cached
        BY <1>0, <3>2, <4>2 DEF Live
      <4>4. b \in Live'
        BY <1>1, <4>3 DEF Live, Cached
      <4>5. ToWriteOut(b)'
        BY <1>2, <3>2, <4>1 DEF ToWriteOut, CoreSame
      <4>6. blkno'[b] = k /\ data'[b] = Latest(k)'
        BY <1>1, <1>4, <3>1
      <4> QED  BY <4>4, <4>5, <4>6 DEF ToBeWritten
    <3>5. CASE b \notin S
      <4>1. b \in Live' /\ flags'[b] = flags[b]
        BY <1>2, <1>3, <3>2, <3>5
      <4>2. ToWriteOut(b)'
        BY <1>2, <3>1, <3>2, <4>1 DEF ToWriteOut, CoreSame
      <4>3. blkno'[b] = k /\ data'[b] = Latest(k)'
        BY <1>1, <1>4, <3>1
      <4> QED  BY <4>1, <4>2, <4>3 DEF ToBeWritten
    <3> QED  BY <3>3, <3>4, <3>5
  <2> QED  BY <2>1, <2>3, <2>4 DEF UpToDate
<1> QED  BY <1>5, <1>6, <1>7 DEF UpToDate

\* The commit leaves a delayed write of all that was logged.
LEMMA CommitUpToDate ==
  ASSUME IInv, Invalidated, UpToDate, Commit
  PROVE  UpToDate'
<1>0. Live \subseteq Bufs
  BY LoggedFact
<1>1. /\ \A b \in Bufs : /\ Core(b)' = {}
                         /\ "DIRTY" \in Core(b) => "DIRTY" \in flags'[b]
                         /\ "DIRTY" \notin Core(b) => flags'[b] = flags[b]
                         /\ flags[b] \subseteq flags'[b]
      /\ Live' = Live /\ UNCHANGED <<disk, version, data, blkno, freed>>
  BY CommitCore
<1>2. \A k : Latest(k)' = Latest(k)
  BY <1>1 DEF Latest
<1>3. ASSUME NEW b \in Live', Valid(b)', blkno'[b] \notin freed'
      PROVE  data'[b] = Latest(blkno[b])'
  <2>1. b \in Live /\ b \in Bufs /\ blkno[b] \notin freed
    BY <1>0, <1>1, <1>3
  <2>2. data[b] = Latest(blkno[b])
    <3>1. CASE "DIRTY" \in Core(b)
      BY <2>1, <3>1 DEF UpToDate
    <3>2. CASE "DIRTY" \notin Core(b)
      <4>1. Valid(b)
        BY <1>1, <1>3, <2>1, <3>2 DEF Valid
      <4> QED  BY <2>1, <4>1 DEF UpToDate
    <3> QED  BY <3>1, <3>2
  <2> QED  BY <1>1, <2>2 DEF Latest
<1>4. ASSUME NEW k \in Blocks \ freed' PROVE disk'[k] = Latest(k)' \/ ToBeWritten(k)'
  <2>1. k \in Blocks /\ k \notin freed
    BY <1>1
  <2>2. CASE disk[k] = Latest(k)
    BY <1>1, <1>2, <2>2
  <2>3. CASE ToBeWritten(k)
    <3>1. PICK b \in Live : blkno[b] = k /\ data[b] = Latest(k) /\ ToWriteOut(b)
      BY <2>3 DEF ToBeWritten
    <3>2. b \in Live' /\ b \in Bufs
      BY <1>0, <1>1, <3>1
    <3>3. ToWriteOut(b)'
      BY <1>1, <3>1, <3>2 DEF ToWriteOut
    <3>4. blkno'[b] = k /\ data'[b] = Latest(k)'
      BY <1>1, <1>2, <3>1
    <3> QED  BY <3>2, <3>3, <3>4 DEF ToBeWritten
  <2> QED  BY <2>1, <2>2, <2>3 DEF UpToDate
<1> QED  BY <1>1, <1>3, <1>4 DEF UpToDate

\* A change that is logged is the latest of its block.
LEMMA LogBufUpToDate ==
  ASSUME IInv, Invalidated, UpToDate, NEW b \in Bufs, LogBuf(b)
  PROVE  UpToDate'
<1>0. /\ \A c \in Bufs : c \in logged => c \in Live
      /\ \A c, d \in Live : blkno[c] = blkno[d] => c = d
      /\ Live \subseteq Bufs /\ \A c \in Live : blkno[c] \in Blocks
  BY LoggedFact
<1>1. /\ Core(b)' = {"DIRTY"} /\ \A c \in Bufs : c # b => Core(c)' = Core(c)
      /\ b \in Live /\ Live' = Live /\ UNCHANGED <<disk, blkno, flags>>
      /\ freed' = freed \ {blkno[b]}
  BY LogBufCore
<1>2. PICK k0 : k0 = blkno[b]
  OBVIOUS
<1>3. PICK v : v = version[k0] + 1
  OBVIOUS
<1>4. version' = [version EXCEPT ![k0] = v] /\ data' = [data EXCEPT ![b] = <<k0, v>>]
  BY <1>2, <1>3 DEF LogBuf, Modify
<1>5. k0 \in Blocks /\ version'[k0] = v /\ data'[b] = <<k0, v>>
        /\ (\A k \in Blocks : k # k0 => version'[k] = version[k])
        /\ \A c \in Bufs : c # b => data'[c] = data[c]
  BY <1>0, <1>1, <1>2, <1>4 DEF IInv, BInv, BufferTypes
<1>6. data'[b] = Latest(k0)' /\ data'[b] = Latest(blkno[b])'
        /\ \A k \in Blocks : k # k0 => Latest(k)' = Latest(k)
  BY <1>1, <1>2, <1>5 DEF Latest
<1>7. ASSUME NEW c \in Live, c # b, data[c] = Latest(blkno[c])
      PROVE  data'[c] = Latest(blkno[c])'
  <2>1. c \in Bufs /\ blkno[c] \in Blocks /\ blkno[c] # k0
    BY <1>0, <1>1, <1>2, <1>7
  <2> QED  BY <1>1, <1>5, <1>7, <2>1 DEF Latest
<1>8. ASSUME NEW c \in Live', Valid(c)', blkno'[c] \notin freed'
      PROVE  data'[c] = Latest(blkno[c])'
  <2>1. CASE c = b
    BY <1>6, <2>1
  <2>2. CASE c # b
    <3>1. c \in Live /\ Valid(c)
      BY <1>1, <1>8 DEF Valid
    <3>2. blkno[c] # blkno[b]
      BY <1>0, <1>1, <2>2, <3>1
    <3>3. blkno[c] \notin freed
      BY <1>1, <1>8, <3>2
    <3>4. data[c] = Latest(blkno[c])
      BY <3>1, <3>3 DEF UpToDate
    <3> QED  BY <1>7, <2>2, <3>1, <3>4
  <2> QED  BY <2>1, <2>2
<1>9. ASSUME NEW c \in Bufs, "DIRTY" \in Core(c)' PROVE data'[c] = Latest(blkno[c])'
  <2>1. CASE c = b
    BY <1>6, <2>1
  <2>2. CASE c # b
    <3>1. "DIRTY" \in Core(c)
      BY <1>1, <1>9, <2>2
    <3>2. c \in Live /\ data[c] = Latest(blkno[c])
      BY <1>0, <3>1 DEF UpToDate, Invalidated
    <3> QED  BY <1>7, <2>2, <3>2
  <2> QED  BY <2>1, <2>2
<1>10. ASSUME NEW k \in Blocks \ freed' PROVE disk'[k] = Latest(k)' \/ ToBeWritten(k)'
  <2>1. CASE k = k0
    <3>1. ToWriteOut(b)'
      BY <1>1 DEF ToWriteOut
    <3>2. b \in Live' /\ blkno'[b] = k /\ data'[b] = Latest(k)'
      BY <1>1, <1>2, <1>6, <2>1
    <3> QED  BY <3>1, <3>2 DEF ToBeWritten
  <2>2. CASE k # k0
    <3>1. k \in Blocks /\ k \notin freed
      BY <1>1, <1>2, <2>2
    <3>2. CASE disk[k] = Latest(k)
      BY <1>1, <1>6, <2>2, <3>1, <3>2
    <3>3. CASE ToBeWritten(k)
      <4>1. PICK c \in Live : blkno[c] = k /\ data[c] = Latest(k) /\ ToWriteOut(c)
        BY <3>3 DEF ToBeWritten
      <4>2. c \in Live' /\ c \in Bufs /\ c # b
        BY <1>0, <1>1, <1>2, <2>2, <4>1
      <4>3. ToWriteOut(c)'
        BY <1>1, <4>1, <4>2 DEF ToWriteOut
      <4>4. blkno'[c] = k /\ data'[c] = Latest(k)'
        BY <1>1, <1>5, <1>6, <2>2, <3>1, <4>1, <4>2
      <4> QED  BY <4>2, <4>3, <4>4 DEF ToBeWritten
    <3> QED  BY <3>1, <3>2, <3>3 DEF UpToDate
  <2> QED  BY <2>1, <2>2
<1> QED  BY <1>8, <1>9, <1>10 DEF UpToDate

\* A block that is invalidated is no more spoken of.
LEMMA BinvalUpToDate ==
  ASSUME IInv, Invalidated, UpToDate, NEW b \in Bufs, Binval(b)
  PROVE  UpToDate'
<1>0. Live \subseteq Bufs
  BY LoggedFact
<1>1. /\ Core(b)' = {"STALE"} /\ "DIRTY" \notin flags'[b]
      /\ \A c \in Bufs : c # b => Core(c)' = Core(c) /\ flags'[c] = flags[c]
      /\ b \in Live /\ Live' = Live /\ UNCHANGED <<disk, version, data, blkno>>
      /\ freed' = freed \cup {blkno[b]}
  BY BinvalCore
<1>2. \A k : Latest(k)' = Latest(k)
  BY <1>1 DEF Latest
<1>3. ASSUME NEW c \in Live', Valid(c)', blkno'[c] \notin freed'
      PROVE  data'[c] = Latest(blkno[c])'
  <2>1. c \in Live /\ c \in Bufs /\ c # b /\ blkno[c] \notin freed
    BY <1>0, <1>1, <1>3
  <2>2. Valid(c)
    BY <1>1, <1>3, <2>1 DEF Valid
  <2>3. data[c] = Latest(blkno[c])
    BY <2>1, <2>2 DEF UpToDate
  <2> QED  BY <1>1, <2>3 DEF Latest
<1>4. ASSUME NEW c \in Bufs, "DIRTY" \in Core(c)' PROVE data'[c] = Latest(blkno[c])'
  <2>1. "DIRTY" \in Core(c)
    BY <1>1, <1>4
  <2>2. data[c] = Latest(blkno[c])
    BY <2>1 DEF UpToDate
  <2> QED  BY <1>1, <2>2 DEF Latest
<1>5. ASSUME NEW k \in Blocks \ freed' PROVE disk'[k] = Latest(k)' \/ ToBeWritten(k)'
  <2>1. k \in Blocks /\ k \notin freed /\ k # blkno[b]
    BY <1>1
  <2>2. CASE disk[k] = Latest(k)
    BY <1>1, <1>2, <2>2
  <2>3. CASE ToBeWritten(k)
    <3>1. PICK c \in Live : blkno[c] = k /\ data[c] = Latest(k) /\ ToWriteOut(c)
      BY <2>3 DEF ToBeWritten
    <3>2. c \in Live' /\ c \in Bufs /\ c # b
      BY <1>0, <1>1, <2>1, <3>1
    <3>3. ToWriteOut(c)'
      BY <1>1, <3>1, <3>2 DEF ToWriteOut
    <3>4. blkno'[c] = k /\ data'[c] = Latest(k)'
      BY <1>1, <1>2, <3>1
    <3> QED  BY <3>2, <3>3, <3>4 DEF ToBeWritten
  <2> QED  BY <2>1, <2>2, <2>3 DEF UpToDate
<1> QED  BY <1>3, <1>4, <1>5 DEF UpToDate

\* With no write error, every step keeps the contents.
LEMMA UpToDateKept ==
  ASSUME IInv, Invalidated, UpToDate, ~CancelDirty, "write" \notin Faults, [Next]_vars
  PROVE  UpToDate'
BY NextFrame, FrameUpToDate, ReadUpToDate, WriteUpToDate, CommitUpToDate, LogBufUpToDate,
   BinvalUpToDate

\* At the start every block is on the device as it is.
LEMMA UpToDateInit == Init => UpToDate
BY OneThread DEF Init, BufferInit, UpToDate, Core, Live, Cached, Latest

\* What is not flushed is logged, and its item says so.
LEMMA FlushedKept ==
  ASSUME ~FlushFails, ~CancelDirty, IInv, Flushed, [Next]_vars
  PROVE  Flushed'
<1>0. /\ unflushed \subseteq logged /\ logged \cap Inodes = logged \cap itransp
      /\ unflushed \subseteq Inodes /\ unflushed \subseteq itransp
  BY Facts DEF Flushed
<1>1. ASSUME UNCHANGED <<ili, unflushed>>, logged \subseteq logged' PROVE Flushed'
  BY <1>1 DEF Flushed
<1>2. ASSUME NEW i \in Inodes, NEW r, ili' = [ili EXCEPT ![i] = r], UNCHANGED unflushed,
             logged \subseteq logged', i \in unflushed => r.fields
      PROVE  Flushed'
  <2>1. ASSUME NEW j \in unflushed PROVE ili'[j].fields
    <3>1. j \in Inodes /\ ili[j].fields /\ ili \in [Inodes -> Ili \cup {None}]
      BY <1>0, InodeFact DEF Flushed
    <3>2. CASE j = i
      <4>1. ili'[j] = r
        BY <1>2, <3>1, <3>2
      <4> QED  BY <1>2, <2>1, <3>2, <4>1
    <3>3. CASE j # i
      <4>1. ili'[j] = ili[j]
        BY <1>2, <3>1, <3>3
      <4> QED  BY <3>1, <4>1
    <3> QED  BY <3>2, <3>3
  <2> QED  BY <1>0, <1>2, <2>1 DEF Flushed
<1>3. CASE Cache
  BY <1>1, <1>3 DEF Cache, tvars, ivars
<1>4. CASE Begin \/ TransReturn
  BY <1>1, <1>4 DEF Begin, TransReturn, ivars
<1>5. CASE Commit
  <2>1. PICK D : D = {i \in Listed \cap Inodes : ili[i].fields}
    OBVIOUS
  <2>2. unflushed' = unflushed \ D
    <3>1. PICK failed \in SUBSET {i \in Listed \cap Inodes : ili[i].fields} :
            /\ failed # {} => FlushFails
            /\ unflushed' = unflushed \ ({i \in Listed \cap Inodes : ili[i].fields} \ failed)
      BY <1>5 DEF Commit
    <3> QED  BY <2>1, <3>1
  <2>3. \A i \in unflushed : i \in D
    BY <1>0, <2>1, Facts DEF Flushed
  <2> QED  BY <2>2, <2>3 DEF Flushed
<1>6. CASE Cancel
  <2>1. unflushed = {} /\ UNCHANGED unflushed
    BY <1>0, <1>6, Facts DEF Cancel
  <2> QED  BY <2>1 DEF Flushed
<1>7. ASSUME NEW k \in Blocks, NEW o \in {"get", "read"}, TransAgain(k) \/ TransAsk(o, k)
      PROVE  Flushed'
  BY <1>1, <1>7 DEF TransAgain, TransAsk, tvars, ivars
<1>8. ASSUME NEW b \in Bufs, Bjoin(b) \/ Bhold(b) \/ LogBuf(b) \/ Binval(b) \/ Brelse(b)
      PROVE  Flushed'
  <2>1. UNCHANGED <<ili, unflushed>> /\ logged \subseteq logged'
    BY <1>8 DEF Bjoin, Bhold, LogBuf, Binval, Brelse, ivars
  <2> QED  BY <1>1, <2>1
<1>9. ASSUME NEW i \in Inodes, Iget(i) \/ Iput(i) PROVE Flushed'
  BY <1>1, <1>9 DEF Iget, Iput, tvars
<1>10. ASSUME NEW i \in Inodes, Irelse(i) PROVE Flushed'
  <2>1. i \notin unflushed
    BY <1>0, <1>10, InodeFact DEF Irelse
  <2> QED  BY <1>2, <1>10, <2>1 DEF Irelse, tvars
<1>11. ASSUME NEW i \in Inodes, TransIget(i) \/ Ijoin(i) PROVE Flushed'
  <2>1. i \notin itransp
    BY <1>11, InodeFact DEF TransIget, Ijoin
  <2>2. PICK r \in Ili : ili' = [ili EXCEPT ![i] = r]
    BY <1>11, <2>1, JoinIli DEF TransIget, Ijoin, JoinInode
  <2> QED  BY <1>0, <1>2, <1>11, <2>1, <2>2 DEF TransIget, Ijoin
<1>12. ASSUME NEW i \in Inodes, Ihold(i) PROVE Flushed'
  <2>1. PICK r : r = [ili[i] EXCEPT !.hold = TRUE]
    OBVIOUS
  <2>2. ili' = [ili EXCEPT ![i] = r] /\ ili[i] \in Ili
    BY <1>12, <2>1, InodeFact DEF Ihold
  <2>3. r.fields = ili[i].fields
    BY <2>1, <2>2 DEF Ili
  <2> QED  BY <1>2, <1>12, <2>2, <2>3 DEF Ihold, tvars, Flushed
<1>13. ASSUME NEW i \in Inodes, LogInode(i) PROVE Flushed'
  <2>1. /\ i \in itransp /\ ili' = [ili EXCEPT ![i].fields = TRUE]
        /\ logged' = logged \cup {i} /\ unflushed' = unflushed \cup {i}
    BY <1>13 DEF LogInode
  <2>2. ili[i] \in Ili /\ ili \in [Inodes -> Ili \cup {None}]
    BY <2>1, InodeFact
  <2>3. ili'[i].fields /\ \A j \in Inodes : j # i => ili'[j] = ili[j]
    BY <2>1, <2>2 DEF Ili
  <2>4. \A j \in unflushed' : ili'[j].fields
    BY <1>0, <2>1, <2>3 DEF Flushed
  <2> QED  BY <1>0, <2>1, <2>4 DEF Flushed
<1>14. CASE UNCHANGED vars
  BY <1>1, <1>14 DEF vars, tvars, ivars
<1> QED
  BY <1>3, <1>4, <1>5, <1>6, <1>7, <1>8, <1>9, <1>10, <1>11, <1>12, <1>13, <1>14 DEF Next

\* Unless a write, the flush of an inode or the client fails, the contents stay.
LEMMA AllLayers ==
  ASSUME ~FlushFails, ~CancelDirty, "write" \notin Faults
  PROVE  Spec => [](IInv /\ Invalidated /\ UpToDate /\ Flushed)
<1>1. Init => IInv /\ Invalidated /\ UpToDate /\ Flushed
  BY InitKept, InvalidatedInit, UpToDateInit DEF Init, Flushed
<1>2. IInv /\ Invalidated /\ UpToDate /\ Flushed /\ [Next]_vars
        => (IInv /\ Invalidated /\ UpToDate /\ Flushed)'
  BY NextKept, InvalidatedKept, UpToDateKept, FlushedKept
<1> QED  BY <1>1, <1>2, PTL DEF Spec

\* What was logged is read again, whether it is still in its buffer or not.
THEOREM ReadBack ==
  ~FlushFails /\ ~CancelDirty /\ "write" \notin Faults => (Spec => []LoggedReadBack)
<1> SUFFICES ASSUME ~FlushFails, ~CancelDirty, "write" \notin Faults
             PROVE  Spec => []LoggedReadBack
  OBVIOUS
<1>1. ASSUME IInv, UpToDate PROVE LoggedReadBack
  <2>1. held[T] \subseteq Live
    BY <1>1, Facts DEF Live
  <2> QED  BY <1>1, <2>1 DEF UpToDate, LoggedReadBack
<1>2. IInv /\ UpToDate => LoggedReadBack
  BY <1>1
<1> QED  BY <1>2, AllLayers, PTL

\* What was logged is on the device or will be written; a committed inode is.
THEOREM NotLost ==
  ~FlushFails /\ ~CancelDirty /\ "write" \notin Faults => (Spec => []LoggedNotLost)
<1> SUFFICES ASSUME ~FlushFails, ~CancelDirty, "write" \notin Faults
             PROVE  Spec => []LoggedNotLost
  OBVIOUS
<1>1. ASSUME IInv, Invalidated, UpToDate, Flushed PROVE LoggedNotLost
  <2>1. ~open => unflushed = {}
    BY <1>1, Facts DEF Flushed
  <2>2. ASSUME NEW k \in Blocks \ freed, disk[k] # Latest(k)
        PROVE  \E b \in Cached \cup todo[T] :
                 /\ blkno[b] = k /\ data[b] = Latest(k)
                 /\ "DIRTY" \in flags[b] \/ (b \in joined /\ "DIRTY" \in item[b].flags)
    <3>1. PICK b \in Live : blkno[b] = k /\ data[b] = Latest(k) /\ ToWriteOut(b)
      BY <1>1, <2>2 DEF UpToDate, ToBeWritten
    <3>2. b \in Bufs /\ b \in Cached \cup todo[T]
      BY <1>1, <3>1, LoggedFact DEF Live
    <3>3. "DIRTY" \in Core(b) => b \in joined /\ "DIRTY" \in item[b].flags
      <4>1. ASSUME "DIRTY" \in Core(b) PROVE b \in joined /\ "DIRTY" \in item[b].flags
        <5>1. b \in joined
          BY <1>1, <3>2, <4>1, LoggedFact DEF Invalidated
        <5> QED  BY <1>1, <3>2, <4>1, <5>1, CoreFact
      <4> QED  BY <4>1
    <3> QED  BY <3>1, <3>2, <3>3 DEF ToWriteOut
  <2> QED  BY <2>1, <2>2 DEF LoggedNotLost
<1>2. IInv /\ Invalidated /\ UpToDate /\ Flushed => LoggedNotLost
  BY <1>1
<1> QED  BY <1>2, AllLayers, PTL
=============================================================================
