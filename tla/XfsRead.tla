------------------------------- MODULE XfsRead -------------------------------
(***************************************************************************)
(* The read path of the driver: fuse_xfs_read, xfs_readfile and            *)
(* copy_extent_to_buffer (fuse/fuse_xfs.c, xfsutil/xfsutil.c) over the     *)
(* extent list of one open inode, and xfs_iread_extents, which loads that  *)
(* list when the first read finds a btree-format fork (libxfs/xfs_inode.c, *)
(* xfs_bmap.c).                                                            *)
(*                                                                         *)
(* fuse_main runs the handlers on several threads and nothing locks the    *)
(* inode, so every access to the fork the threads share is a step of its   *)
(* own: the test of XFS_IFEXTENTS, the reset of the fork, each word of a   *)
(* record a load writes or a read decodes, the free and the clearing of    *)
(* the error path.  Aligned words are read and written whole, and stores   *)
(* are seen in program order.                                              *)
(*                                                                         *)
(* Two loads at once grow, move and free one list together; what they      *)
(* leave in it is anything (memory = "raced"): any words, a NULL pointer,  *)
(* freed memory.  The model ends there: that such a load also overwrites   *)
(* other parts of the heap is not in it.                                   *)
(*                                                                         *)
(* A record is two words: l0 holds br_startoff (and br_state, which the    *)
(* read path never looks at), l1 br_startblock and br_blockcount (block    *)
(* numbers below 2^43).                                                    *)
(*                                                                         *)
(* The byte of the device at address a is the number a; 0 is the byte      *)
(* memset writes, and no file block lies at address 0 (it would be the     *)
(* superblock).  The extent list is longer than XFS_INLINE_EXTS and fits   *)
(* one linear list (XFS_LINEAR_EXTS).                                      *)
(*                                                                         *)
(* KeepFlag, StartsInside, ... state plausible mistakes in the definition  *)
(* after them; the specification does not use them.                        *)
(***************************************************************************)
EXTENDS Integers, Sequences, FiniteSets

CONSTANTS
  Threads,   \* FUSE threads
  BlockSize, \* XFS_FSB_TO_B(mp, 1)
  Records,   \* the extents of the file on disk, sorted by file offset
  Unwritten, \* those among them (indices) whose br_state is XFS_EXT_UNWRITTEN
  LeafSize,  \* records in a full leaf of the bmap btree
  Btree,     \* the fork is in btree format: not loaded when the file is opened
  Size,      \* di_size
  Requests,  \* the <<offset, len>> the kernel may ask for
  Junk,      \* what the words of freed memory and of a raced list may hold
  DeviceFails, \* the device may fail to read a block
  LeafFails  \* a leaf of the btree may be corrupt

EIO == 5
EFSCORRUPTED == 990

\* A record as xfs_bmbt_get_all may read it.
Cells == [br_startoff : Nat, br_startblock : Nat, br_blockcount : Nat]

ASSUME ReadAssumption ==
  /\ BlockSize \in Nat \ {0} /\ LeafSize \in Nat \ {0} /\ Size \in Nat
  /\ Btree \in BOOLEAN /\ DeviceFails \in BOOLEAN /\ LeafFails \in BOOLEAN
  /\ Requests \subseteq Nat \X (Nat \ {0})
  /\ Junk \subseteq Cells /\ Unwritten \subseteq DOMAIN Records
  /\ Records \in Seq([br_startoff : Nat, br_startblock : Nat \ {0},
                      br_blockcount : Nat \ {0}])
  /\ \A m, n \in DOMAIN Records : m < n =>
       Records[m].br_startoff + Records[m].br_blockcount <= Records[n].br_startoff

\* What xfs_iext_inline_to_direct leaves in a new record.
Blank == [br_startoff |-> 0, br_startblock |-> 0, br_blockcount |-> 0]

\* A record with the word l0, or l1, of another.
WithL0(rec, word) == [rec EXCEPT !.br_startoff = word.br_startoff]
WithL1(rec, word) == [rec EXCEPT !.br_startblock = word.br_startblock,
                                 !.br_blockcount = word.br_blockcount]

nextents == Len(Records) \* XFS_IFORK_NEXTENTS, from the inode

VARIABLES
  if_extents, \* the records of the data fork; if_bytes is its length
  loaded,     \* XFS_IFEXTENTS
  memory,     \* the list is "ok", "freed" but not yet forgotten, or "raced"
  crashed,    \* the process has dereferenced a pointer to nothing
  pc,         \* where a thread is
  offset,     \* its argument offset
  len,        \* its argument len, cut at the end of the file
  buffer,     \* the buffer it fills: position -> byte
  room,       \* xfs_bmap_read_extents: records the list has room for
  i,          \* xfs_bmap_read_extents: records copied
  extent,     \* index of the extent xfs_readfile_* looks at (from 1)
  ep,         \* where ep points: the "current" list, one "leaked", one "freed"
  rec,        \* what has been decoded of *ep
  copying,    \* copy_extent_to_buffer: [rec, block, end, ptr]
  r           \* what the read returns

fork == <<if_extents, loaded, memory>>
call == <<offset, len, r>>
load == <<room, i>>
fetch == <<extent, ep, rec>>
vars == <<fork, crashed, pc, call, buffer, load, fetch, copying>>

Nothing == [rec |-> Blank, block |-> 0, end |-> 0, ptr |-> 0]

Init ==
  /\ loaded = ~Btree
  /\ if_extents = IF Btree THEN <<>> ELSE Records
  /\ memory = "ok"
  /\ crashed = FALSE
  /\ pc = [t \in Threads |-> "idle"]
  /\ offset = [t \in Threads |-> 0] /\ len = [t \in Threads |-> 0]
  /\ buffer = [t \in Threads |-> <<>>]
  /\ room = [t \in Threads |-> 0] /\ i = [t \in Threads |-> 0]
  /\ extent = [t \in Threads |-> 1]
  /\ ep = [t \in Threads |-> "none"]
  /\ rec = [t \in Threads |-> Blank]
  /\ copying = [t \in Threads |-> Nothing]
  /\ r = [t \in Threads |-> 0]

Goto(t, label) == pc' = [pc EXCEPT ![t] = label]
Return(t, value) == Goto(t, "returned") /\ r' = [r EXCEPT ![t] = value]

\* A pointer to nothing is dereferenced: the daemon dies, the mount with it.
Crash == crashed' = TRUE /\ UNCHANGED <<fork, pc, call, buffer, load, fetch, copying>>

-----------------------------------------------------------------------------
(* fuse_xfs_read, xfs_readfile, the head of xfs_readfile_extents and _btree *)

PastEnd(o) == o >= Size

Truncated(o, n) == IF o + n > Size THEN Size - o ELSE n

Read(t) ==
  /\ pc[t] = "idle"
  /\ \E request \in Requests :
       LET o == request[1]
           n == request[2]
       IN /\ offset' = [offset EXCEPT ![t] = o]
          /\ buffer' = [buffer EXCEPT ![t] = [p \in 0 .. n - 1 |-> 0]]
          /\ IF PastEnd(o)
             THEN /\ Return(t, 0)
                  /\ UNCHANGED len
             ELSE /\ len' = [len EXCEPT ![t] = Truncated(o, n)]
                  /\ Goto(t, IF Btree THEN "check" ELSE "extent")
                  /\ UNCHANGED r
  /\ UNCHANGED <<fork, crashed, load, fetch, copying>>

\* The reply is sent; the locals of the call are gone.
Reply(t) ==
  /\ pc[t] = "returned"
  /\ Goto(t, "idle")
  /\ offset' = [offset EXCEPT ![t] = 0] /\ len' = [len EXCEPT ![t] = 0]
  /\ buffer' = [buffer EXCEPT ![t] = <<>>]
  /\ room' = [room EXCEPT ![t] = 0] /\ i' = [i EXCEPT ![t] = 0]
  /\ extent' = [extent EXCEPT ![t] = 1]
  /\ ep' = [ep EXCEPT ![t] = "none"]
  /\ rec' = [rec EXCEPT ![t] = Blank]
  /\ copying' = [copying EXCEPT ![t] = Nothing]
  /\ r' = [r EXCEPT ![t] = 0]
  /\ UNCHANGED <<fork, crashed>>

-----------------------------------------------------------------------------
(* xfs_iread_extents, xfs_bmap_read_extents *)

CheckFlag(t) ==
  /\ pc[t] = "check"
  /\ \/ (loaded \/ memory = "raced") /\ Goto(t, "extent")
     \/ (~loaded \/ memory = "raced") /\ Goto(t, "reset")
  /\ UNCHANGED <<fork, crashed, call, buffer, load, fetch, copying>>

\* A load is under way: if_bytes, the pointer and the records are its own.
Loading(t) ==
  pc[t] \in {"add", "descend", "leaf", "put0", "put1", "destroy", "clear", "unflag"}

\* Pointers into the list no longer point into it.
NowPoint(to) ==
  ep' = [t \in Threads |-> IF ep[t] = "current" THEN to ELSE ep[t]]

\* if_bytes = if_real_bytes = 0; the flag is set before anything is read.  A
\* list another thread loaded since the flag was tested is forgotten, not
\* freed; one that is being loaded now is shared from here on.
Reset(t) ==
  /\ pc[t] = "reset"
  /\ if_extents' = <<>>
  /\ loaded' = TRUE
  /\ Goto(t, "add")
  /\ \/ /\ \A u \in Threads : ~Loading(u)
        /\ NowPoint("leaked")
        /\ UNCHANGED memory
     \/ /\ \E u \in Threads : Loading(u)
        /\ NowPoint("freed")
        /\ memory' = "raced"
  /\ UNCHANGED <<crashed, call, buffer, load, extent, rec, copying>>

\* What a load finds and leaves once another runs with it.
LoadRaced(t) ==
  /\ memory = "raced" /\ Loading(t)
  /\ \/ /\ Goto(t, "extent")
        /\ UNCHANGED <<crashed, r>>
     \/ /\ Return(t, EFSCORRUPTED)
        /\ UNCHANGED crashed
     \/ /\ crashed' = TRUE
        /\ UNCHANGED <<pc, r>>
  /\ UNCHANGED <<fork, offset, len, buffer, load, fetch, copying>>

\* xfs_iext_add(ifp, 0, nextents).  The list is empty, and if_bytes, which
\* xfs_iext_get_ext tests, is set last: for the others this is one step.
NewRecords == [n \in 1 .. nextents |-> Blank]

Add(t) ==
  /\ memory # "raced" /\ pc[t] = "add"
  /\ if_extents' = NewRecords
  /\ Goto(t, "descend")
  /\ UNCHANGED <<loaded, memory, crashed, call, buffer, load, fetch, copying>>

\* Down to the leftmost leaf; room is computed there.
Descend(t) ==
  /\ memory # "raced" /\ pc[t] = "descend"
  /\ \/ /\ room' = [room EXCEPT ![t] = Len(if_extents)]
        /\ i' = [i EXCEPT ![t] = 0]
        /\ Goto(t, "leaf")
        /\ UNCHANGED crashed
     \/ /\ LeafFails
        /\ Goto(t, "destroy")
        /\ UNCHANGED <<load, crashed>>
     \/ /\ DeviceFails   \* libxfs_trans_read_buf returns 0 and no buffer
        /\ crashed' = TRUE
        /\ UNCHANGED <<pc, load>>
  /\ UNCHANGED <<fork, call, buffer, fetch, copying>>

num_recs(t) == LET left == nextents - i[t] IN IF left < LeafSize THEN left ELSE LeafSize

\* The checks before the records of a leaf are copied.
Leaf(t) ==
  /\ memory # "raced" /\ pc[t] = "leaf" /\ i[t] < nextents
  /\ \/ /\ i[t] + num_recs(t) <= room[t]
        /\ Goto(t, "put0")
        /\ UNCHANGED <<fork, crashed, call, buffer, load, fetch, copying>>
     \/ /\ i[t] > 0 /\ DeviceFails \* the sibling was not read: no buffer
        /\ Crash

\* The same checks fail, or xfs_check_nostate_extents after the copying does.
BadLeaf(t) ==
  /\ memory # "raced" /\ pc[t] = "leaf"
  /\ i[t] + num_recs(t) > room[t] \/ LeafFails
  /\ Goto(t, "destroy")
  /\ UNCHANGED <<fork, crashed, call, buffer, load, fetch, copying>>

\* trp->l0, then trp->l1; a leaf is full or the last one.
PutL0(t) ==
  /\ memory # "raced" /\ pc[t] = "put0"
  /\ if_extents' = [if_extents EXCEPT ![i[t] + 1] = WithL0(@, Records[i[t] + 1])]
  /\ Goto(t, "put1")
  /\ UNCHANGED <<loaded, memory, crashed, call, buffer, load, fetch, copying>>

PutL1(t) ==
  /\ memory # "raced" /\ pc[t] = "put1"
  /\ if_extents' = [if_extents EXCEPT ![i[t] + 1] = WithL1(@, Records[i[t] + 1])]
  /\ i' = [i EXCEPT ![t] = @ + 1]
  /\ Goto(t, IF (i[t] + 1) % LeafSize = 0 \/ i[t] + 1 = nextents THEN "leaf" ELSE "put0")
  /\ UNCHANGED <<loaded, memory, crashed, call, buffer, room, fetch, copying>>

\* After the last leaf; the two ASSERTs of xfs_bmap_read_extents are here.
Loaded(t) ==
  /\ memory # "raced" /\ pc[t] = "leaf" /\ i[t] = nextents
  /\ Goto(t, "extent")
  /\ UNCHANGED <<fork, crashed, call, buffer, load, fetch, copying>>

\* xfs_iext_destroy: the memory is freed first, if_bytes cleared last.
Free(t) ==
  /\ memory # "raced" /\ pc[t] = "destroy"
  /\ memory' = "freed"
  /\ NowPoint("freed")
  /\ Goto(t, "clear")
  /\ UNCHANGED <<if_extents, loaded, crashed, call, buffer, load, extent, rec, copying>>

Clear(t) ==
  /\ memory # "raced" /\ pc[t] = "clear"
  /\ if_extents' = <<>>
  /\ memory' = "ok"
  /\ Goto(t, "unflag")
  /\ UNCHANGED <<loaded, crashed, call, buffer, load, fetch, copying>>

\* The error is positive here (libxfs/xfs.h), and xfs_readfile_btree passes
\* it on as it is: the kernel takes it for a number of bytes.
KeepFlag(t) ==
  /\ memory # "raced" /\ pc[t] = "unflag"
  /\ Return(t, EFSCORRUPTED)
  /\ UNCHANGED <<fork, crashed, offset, len, buffer, load, fetch, copying>>
Unflag(t) ==
  /\ memory # "raced" /\ pc[t] = "unflag"
  /\ loaded' = FALSE
  /\ Return(t, EFSCORRUPTED)
  /\ UNCHANGED <<if_extents, memory, crashed, offset, len, buffer, load, fetch, copying>>

-----------------------------------------------------------------------------
(* The loop over the extents, copy_extent_to_buffer *)

\* extent_overlaps_buffer
StartsInside(cell, o, n) ==
  o <= cell.br_startoff * BlockSize /\ cell.br_startoff * BlockSize < o + n
Overlaps(cell, o, n) ==
  LET extent_start == cell.br_startoff * BlockSize
      extent_size  == cell.br_blockcount * BlockSize
  IN \/ extent_start <= o /\ o < extent_start + extent_size
     \/ StartsInside(cell, o, n)

\* The first block, the block after the last, where the data goes.
CopyStart(cell, o, n) ==
  LET extent_start == cell.br_startoff * BlockSize
      last == (o + n - extent_start - 1) \div BlockSize + 1
  IN [rec   |-> cell,
      block |-> IF o >= extent_start THEN (o - extent_start) \div BlockSize ELSE 0,
      end   |-> IF cell.br_blockcount < last THEN cell.br_blockcount ELSE last,
      ptr   |-> IF o >= extent_start THEN 0 ELSE extent_start - o]

\* xfs_iext_get_ext: a pointer, NULL if the list is empty.
GetExt(t) ==
  /\ pc[t] = "extent" /\ extent[t] <= nextents
  /\ \/ /\ memory = "ok" /\ if_extents = <<>>
        /\ Crash
     \/ /\ memory # "ok" \/ if_extents # <<>>
        /\ ep' = [ep EXCEPT ![t] = IF memory = "ok" THEN "current" ELSE "freed"]
        /\ Goto(t, "words")
        /\ UNCHANGED <<fork, crashed, call, buffer, load, extent, rec, copying>>

\* What ep->l0 and ep->l1 may hold.  A list that is leaked was whole.
Fetched(t) ==
  CASE ep[t] = "current" -> {if_extents[extent[t]]}
    [] ep[t] = "leaked"  -> {Records[extent[t]]}
    [] OTHER             -> Junk

\* ep points to nothing at all.
BadPointer(t) ==
  /\ pc[t] \in {"words", "l0", "l1"} /\ ep[t] = "freed"
  /\ Crash

\* xfs_bmbt_get_all: the compiler chooses which word is read first.
FirstWord(t) ==
  /\ pc[t] = "words"
  /\ \E word \in Fetched(t) :
       \/ rec' = [rec EXCEPT ![t] = WithL0(@, word)] /\ Goto(t, "l1")
       \/ rec' = [rec EXCEPT ![t] = WithL1(@, word)] /\ Goto(t, "l0")
  /\ UNCHANGED <<fork, crashed, call, buffer, load, extent, ep, copying>>

\* The other word, and whether the record overlaps the request.
SecondWord(t) ==
  /\ pc[t] \in {"l0", "l1"}
  /\ \E word \in Fetched(t) :
       LET cell == IF pc[t] = "l0" THEN WithL0(rec[t], word) ELSE WithL1(rec[t], word)
       IN IF Overlaps(cell, offset[t], len[t])
          THEN /\ copying' = [copying EXCEPT ![t] = CopyStart(cell, offset[t], len[t])]
               /\ Goto(t, "copy")
               /\ UNCHANGED extent
          ELSE /\ extent' = [extent EXCEPT ![t] = @ + 1]
               /\ Goto(t, "extent")
               /\ UNCHANGED copying
  /\ ep' = [ep EXCEPT ![t] = "none"]
  /\ rec' = [rec EXCEPT ![t] = Blank]
  /\ UNCHANGED <<fork, crashed, call, buffer, load>>

\* The part of one block that lies in the request: where it starts in the
\* block, and how long it is.
WholeBlock(c, o, n) == [src |-> 0, copylen |-> BlockSize]
Piece(c, o, n) ==
  LET block_start == (c.rec.br_startoff + c.block) * BlockSize
      skipped     == IF block_start < o THEN o - block_start ELSE 0
      copy_start  == block_start + skipped
  IN [src     |-> skipped,
      copylen |-> IF block_start + BlockSize > o + n THEN o + n - copy_start
                  ELSE BlockSize - skipped]

\* memcpy: the buffer's domain would grow if it wrote outside.
Written(buf, ptr, from, count) ==
  [p \in DOMAIN buf \cup (ptr .. ptr + count - 1) |->
     IF p \in ptr .. ptr + count - 1 THEN from + (p - ptr) ELSE buf[p]]

CopyBlock(t) ==
  LET c == copying[t]
      piece == Piece(c, offset[t], len[t])
  IN /\ pc[t] = "copy" /\ c.block < c.end
     /\ \/ /\ buffer' = [buffer EXCEPT ![t] =
                Written(@, c.ptr,
                        (c.rec.br_startblock + c.block) * BlockSize + piece.src,
                        piece.copylen)]
           /\ copying' = [copying EXCEPT ![t] =
                [c EXCEPT !.block = @ + 1,
                          !.ptr = @ + IF piece.copylen > 0 THEN piece.copylen ELSE 0]]
           /\ UNCHANGED <<pc, r>>
        \/ /\ DeviceFails            \* libxfs_readbuf returns NULL
           /\ Return(t, -EIO)
           /\ UNCHANGED <<buffer, copying>>
     /\ UNCHANGED <<fork, crashed, offset, len, load, fetch>>

Copied(t) ==
  /\ pc[t] = "copy" /\ copying[t].block >= copying[t].end
  /\ extent' = [extent EXCEPT ![t] = @ + 1]
  /\ copying' = [copying EXCEPT ![t] = Nothing]
  /\ Goto(t, "extent")
  /\ UNCHANGED <<fork, crashed, call, buffer, load, ep, rec>>

Finish(t) ==
  /\ pc[t] = "extent" /\ extent[t] > nextents
  /\ Return(t, len[t])
  /\ UNCHANGED <<fork, crashed, offset, len, buffer, load, fetch, copying>>

-----------------------------------------------------------------------------
Step(t) ==
  \/ Read(t) \/ Reply(t)
  \/ CheckFlag(t) \/ Reset(t) \/ LoadRaced(t) \/ Add(t) \/ Descend(t)
  \/ Leaf(t) \/ BadLeaf(t) \/ PutL0(t) \/ PutL1(t) \/ Loaded(t)
  \/ Free(t) \/ Clear(t) \/ Unflag(t)
  \/ GetExt(t) \/ BadPointer(t) \/ FirstWord(t) \/ SecondWord(t)
  \/ CopyBlock(t) \/ Copied(t) \/ Finish(t)

Next == ~crashed /\ \E t \in Threads : Step(t)
Spec == Init /\ [][Next]_vars
-----------------------------------------------------------------------------
(* Properties *)

Labels == {"idle", "check", "reset", "add", "descend", "leaf", "put0", "put1",
           "destroy", "clear", "unflag", "extent", "words", "l0", "l1", "copy",
           "returned"}
Items == {Records[n] : n \in DOMAIN Records}

\* Every variable stays in its range: no length is ever negative.
TypeOK ==
  /\ if_extents \in Seq(Cells)
  /\ loaded \in BOOLEAN /\ crashed \in BOOLEAN
  /\ memory \in {"ok", "freed", "raced"}
  /\ pc \in [Threads -> Labels]
  /\ offset \in [Threads -> Nat] /\ len \in [Threads -> Nat]
  /\ room \in [Threads -> Nat] /\ i \in [Threads -> 0 .. nextents]
  /\ extent \in [Threads -> 1 .. nextents + 1]
  /\ ep \in [Threads -> {"none", "current", "leaked", "freed"}]
  /\ rec \in [Threads -> Cells]
  /\ \A t \in Threads : /\ DOMAIN copying[t] = DOMAIN Nothing
                        /\ copying[t].rec \in Cells
  /\ r \in [Threads -> {-EIO, EFSCORRUPTED} \cup Nat]

\* What the file holds at position p, whatever the state of the extents: 0 in
\* a hole and in an extent that is not written yet.
Holds(cell, p) ==
  /\ cell.br_startoff * BlockSize <= p
  /\ p < (cell.br_startoff + cell.br_blockcount) * BlockSize
OnDisk == {Records[n] : n \in DOMAIN Records \ Unwritten}
Mapped(p) == \E cell \in OnDisk : Holds(cell, p)
FileByte(p) ==
  IF Mapped(p) /\ p < Size
  THEN LET cell == CHOOSE cell \in OnDisk : Holds(cell, p)
       IN cell.br_startblock * BlockSize + (p - cell.br_startoff * BlockSize)
  ELSE 0

\* The pieces copy_extent_to_buffer puts one after the other stay inside the
\* buffer, whatever the request and whatever record it was given: one that is
\* half loaded, or words of freed memory.
NoOverrun ==
  [][\A t \in Threads : pc[t] = "copy" => DOMAIN buffer'[t] = DOMAIN buffer[t]]_vars

\* What the kernel takes for an answer: fuse_xfs_read returns r, and only a
\* negative number is an error to it.
Answered(t) == pc[t] = "returned" /\ r[t] >= 0

\* An answer is exactly the part of the file that was asked for, up to the
\* end of the file, and 0 for the holes: the ends of the request in the middle
\* of blocks, extents before, after and around it, and the bytes of the last
\* block beyond di_size included.
ReadRight ==
  \A t \in Threads : Answered(t) =>
    LET asked == Cardinality(DOMAIN buffer[t])
        left  == IF offset[t] < Size THEN Size - offset[t] ELSE 0
    IN /\ r[t] = IF asked < left THEN asked ELSE left
       /\ \A p \in DOMAIN buffer[t] : buffer[t][p] = FileByte(offset[t] + p)

\* A load is remembered if it succeeded and only then, however many threads
\* read the list meanwhile and whichever of the loads fail: XFS_IFEXTENTS is
\* set over the whole list, or clear over none, whenever nobody loads it and
\* no two loads ever ran at once.  No length is ever negative (TypeOK).
LoadRemembered ==
  /\ TypeOK
  /\ memory # "raced" /\ (\A t \in Threads : ~Loading(t)) =>
       if_extents = IF loaded THEN Records ELSE <<>>
=============================================================================
