---------------------------- MODULE Transactions ----------------------------
(***************************************************************************)
(* The transactions of libxfs (libxfs/trans.c, logitem.c) on its buffer    *)
(* cache, as one thread of mkfs or xfs_repair uses them.  There is no log: *)
(* a transaction is a list of the buffers and inodes that are joined to it *)
(* and, at commit, those that were logged are written, by a delayed write. *)
(*                                                                         *)
(* The list is made of chunks of NumSlots descriptors, the first one part  *)
(* of the transaction.  A buffer carries its log item, an inode carries    *)
(* its own, from one transaction to the next.  An inode on the device is   *)
(* not a block here; flushing it, which may fail, is part of the commit.   *)
(* Left out: the counters of the superblock, and libxfs_trans_iput, which  *)
(* one caller has, at the end of repair.                                   *)
(*                                                                         *)
(* Where an assertion of the code would fail the model stops.  KeepFree,   *)
(* ForgetHold, ... state plausible mistakes in the definition after them;  *)
(* the specification does not use them.                                    *)
(***************************************************************************)
EXTENDS BufferCache

CONSTANTS
  Inodes,
  NumSlots,     \* XFS_LIC_NUM_SLOTS
  MaxRecur,     \* how often a client asks again for a joined buffer
  CancelDirty,  \* whether a client cancels a transaction it has logged in
  FlushFails    \* whether flushing an inode may fail

ASSUME TransactionAssumption ==
  /\ NumSlots \in Nat \ {0} /\ MaxRecur \in Nat
  /\ CancelDirty \in BOOLEAN /\ FlushFails \in BOOLEAN
  /\ Cardinality(Threads) = 1 /\ Inodes \cap Bufs = {}
  /\ IsFiniteSet(Inodes) /\ None \notin Bufs \cup Inodes
  /\ None \notin [flags : SUBSET {"HOLD", "DIRTY", "STALE"}, recur : 0 .. MaxRecur]

VARIABLES
  open,     \* there is a transaction
  tdirty,   \* XFS_TRANS_DIRTY
  chunks,   \* t_items and the chunks behind it
  free,     \* t_items_free
  logged,   \* items whose descriptor is XFS_LID_DIRTY
  item,     \* buffer -> its log item (b_fsprivate), None
  joined,   \* buffers whose b_fsprivate2 is the transaction
  trans,    \* the call under way is libxfs_trans_get_buf or _read_buf
  freed,    \* blocks a transaction has invalidated and none logged since
  ili,      \* inode -> its log item (i_itemp), None
  itransp,  \* inodes whose i_transp is the transaction
  iref,     \* inode -> cn_count
  mine,     \* inodes and buffers of which the client has a reference itself
  unflushed \* inodes with logged changes that are not on the device

tvars == <<open, tdirty, chunks, free, logged, item, joined, freed>>
ivars == <<ili, itransp, iref, unflushed>>
vars  == <<bufferVars, tvars, ivars, trans, mine>>

Slots == 1 .. NumSlots
EmptyChunk == [slots |-> [s \in Slots |-> None], unused |-> 0]
NewItem == [flags |-> {}, recur |-> 0]
T == CHOOSE t \in Threads : TRUE

Init ==
  /\ BufferInit
  /\ open = FALSE /\ tdirty = FALSE /\ chunks = <<EmptyChunk>> /\ free = NumSlots
  /\ logged = {} /\ item = [b \in Bufs |-> None] /\ joined = {} /\ trans = FALSE
  /\ freed = {} /\ ili = [i \in Inodes |-> None] /\ itransp = {}
  /\ iref = [i \in Inodes |-> 0] /\ mine = {} /\ unflushed = {}

-----------------------------------------------------------------------------
(* The descriptors: xfs_trans_add_item, xfs_trans_free_item                  *)

FreeSlots(c) == {s \in Slots : c.slots[s] = None}
Least(S) == CHOOSE n \in S : \A m \in S : n <= m
Claim(c, s, x) ==
  [slots |-> [c.slots EXCEPT ![s] = x], unused |-> IF c.unused < s THEN s ELSE c.unused]

\* A new chunk goes behind the embedded one.  In an old one the slots never
\* used come before those that are free again.
AddItem(x) ==
  LET vacant == {n \in DOMAIN chunks : FreeSlots(chunks[n]) # {}}
      n == Least(vacant)
      c == chunks[n]
      s == IF c.unused < NumSlots THEN c.unused + 1 ELSE Least(FreeSlots(c))
  IN IF free = 0
     THEN /\ chunks' = <<Head(chunks), Claim(EmptyChunk, 1, x)>> \o Tail(chunks)
          /\ free' = NumSlots - 1
     ELSE /\ chunks' = [chunks EXCEPT ![n] = Claim(c, s, x)]
          /\ free' = free - 1

\* An empty chunk that is not the embedded one goes, its slots with it.
KeepFree(n) == 0
SlotsGone(n) == n

FreeItem(x) ==
  LET n == CHOOSE n \in DOMAIN chunks : \E s \in Slots : chunks[n].slots[s] = x
      s == CHOOSE s \in Slots : chunks[n].slots[s] = x
      c == [chunks[n] EXCEPT !.slots[s] = None]
  IN IF n > 1 /\ FreeSlots(c) = Slots
     THEN /\ chunks' = SubSeq(chunks, 1, n - 1) \o SubSeq(chunks, n + 1, Len(chunks))
          /\ free' = free + 1 - SlotsGone(NumSlots)
     ELSE /\ chunks' = [chunks EXCEPT ![n] = c]
          /\ free' = free + 1

Descriptors == {d \in (DOMAIN chunks) \X Slots : chunks[d[1]].slots[d[2]] # None}
Listed == {chunks[d[1]].slots[d[2]] : d \in Descriptors}

\* xfs_trans_buf_item_match, and xfs_trans_buf_item_match_all, which takes it
\* that an empty first chunk is the only one.
Match(k) == {b \in Listed \cap Bufs : blkno[b] = k}
MatchAsserts == FreeSlots(chunks[1]) = Slots => Len(chunks) = 1

-----------------------------------------------------------------------------
(* Joining and releasing buffers                                             *)

Begin ==
  /\ ~open /\ pc[T] = "idle"
  /\ open' = TRUE
  /\ UNCHANGED <<bufferVars, tdirty, chunks, free, logged, item, joined, freed, ivars,
                 trans, mine>>

\* libxfs_trans_get_buf, libxfs_trans_read_buf
TransAgain(k) ==
  /\ open /\ pc[T] = "idle" /\ MatchAsserts
  /\ \E b \in Match(k) :
       /\ item[b].recur < MaxRecur
       /\ item' = [item EXCEPT ![b].recur = @ + 1]
  /\ UNCHANGED <<bufferVars, open, tdirty, chunks, free, logged, joined, freed, ivars,
                 trans, mine>>

TransAsk(o, k) ==
  /\ open /\ Match(k) = {} /\ MatchAsserts
  /\ o = "read" => k \notin freed
  /\ Ask(T, o, k)
  /\ trans' = TRUE
  /\ UNCHANGED <<tvars, ivars, mine>>

\* xfs_buf_item_init takes the item the buffer has; only a new one and these
\* two calls set bli_recur.
Join(b, i) ==
  /\ AddItem(b)
  /\ item' = [item EXCEPT ![b] = i]
  /\ joined' = joined \cup {b}

TransReturn ==
  LET b == cur[T] IN
  /\ trans /\ Return(T)
  /\ Join(b, IF item[b] = None THEN NewItem ELSE [item[b] EXCEPT !.recur = 0])
  /\ trans' = FALSE
  /\ UNCHANGED <<open, tdirty, logged, freed, ivars, mine>>

\* libxfs_trans_bjoin, of a buffer the client has
Bjoin(b) ==
  /\ open /\ pc[T] = "idle" /\ b \in mine \ joined
  /\ Join(b, IF item[b] = None THEN NewItem ELSE item[b])
  /\ mine' = mine \ {b}
  /\ UNCHANGED <<bufferVars, open, tdirty, logged, freed, ivars, trans>>

\* libxfs_trans_bhold: the reference comes back at the end.
Bhold(b) ==
  /\ pc[T] = "idle" /\ b \in joined \ mine
  /\ item' = [item EXCEPT ![b].flags = @ \cup {"HOLD"}]
  /\ mine' = mine \cup {b}
  /\ UNCHANGED <<bufferVars, open, tdirty, chunks, free, logged, joined, freed, ivars, trans>>

\* libxfs_trans_log_buf, with the change that is logged.  A client does not log
\* what it has invalidated in the same transaction.
LogBuf(b) ==
  /\ pc[T] = "idle" /\ b \in joined
  /\ "STALE" \in item[b].flags => b \notin logged
  /\ Modify(b)
  /\ item' = [item EXCEPT ![b].flags = @ \cup {"DIRTY"}]
  /\ logged' = logged \cup {b} /\ tdirty' = TRUE
  /\ freed' = freed \ {blkno[b]}
  /\ UNCHANGED <<disk, chain, freelist, blkno, flags, refs, lock, held, locals, open, chunks,
                 free, joined, ivars, trans, mine>>

\* libxfs_trans_binval, of a buffer whose block is freed
KeepDelay(b) == flags[b]
Undelayed(b) == flags[b] \ {"DIRTY"}

Binval(b) ==
  /\ pc[T] = "idle" /\ b \in joined
  /\ freed' = freed \cup {blkno[b]}
  /\ \/ /\ "STALE" \in item[b].flags
        /\ UNCHANGED <<flags, item, logged, tdirty>>
     \/ /\ "STALE" \notin item[b].flags
        /\ flags' = [flags EXCEPT ![b] = Undelayed(b)]
        /\ item' = [item EXCEPT ![b].flags = (@ \ {"DIRTY"}) \cup {"STALE"}]
        /\ logged' = logged \cup {b} /\ tdirty' = TRUE
  /\ UNCHANGED <<store, chain, freelist, blkno, data, refs, lock, held, locals, open, chunks,
                 free, joined, ivars, trans, mine>>

\* libxfs_trans_brelse
NotYet(b) == "STALE" \in item[b].flags \/ b \in logged

Brelse(b) ==
  /\ pc[T] = "idle" /\ b \in joined \ mine
  /\ \/ /\ item[b].recur > 0
        /\ item' = [item EXCEPT ![b].recur = @ - 1]
        /\ UNCHANGED <<lock, refs, held, chunks, free, joined>>
     \/ /\ item[b].recur = 0 /\ ~NotYet(b)
        /\ FreeItem(b)
        /\ item' = [item EXCEPT ![b].flags = @ \ {"HOLD"}]
        /\ joined' = joined \ {b}
        /\ Put(T, {b})
  /\ UNCHANGED <<store, chain, freelist, blkno, data, flags, locals, open, tdirty, logged,
                 freed, ivars, trans, mine>>

-----------------------------------------------------------------------------
(* Inodes                                                                    *)

NewIli == [fields |-> FALSE, hold |-> FALSE]
InitIli(i) == ili' = [ili EXCEPT ![i] = IF @ = None THEN NewIli ELSE @]
JoinInode(i) ==
  /\ AddItem(i)
  /\ InitIli(i)
  /\ itransp' = itransp \cup {i}

\* libxfs_iget and libxfs_iput, with no transaction; libxfs_irelse
Iget(i) ==
  /\ pc[T] = "idle" /\ iref[i] = 0
  /\ iref' = [iref EXCEPT ![i] = 1] /\ mine' = mine \cup {i}
  /\ UNCHANGED <<bufferVars, tvars, ili, itransp, unflushed, trans>>
Iput(i) ==
  /\ pc[T] = "idle" /\ i \in mine \ itransp
  /\ iref' = [iref EXCEPT ![i] = @ - 1] /\ mine' = mine \ {i}
  /\ UNCHANGED <<bufferVars, tvars, ili, itransp, unflushed, trans>>
Irelse(i) ==
  /\ iref[i] = 0 /\ ili[i] # None
  /\ ili' = [ili EXCEPT ![i] = None]
  /\ UNCHANGED <<bufferVars, tvars, itransp, iref, unflushed, trans, mine>>

TransIget(i) ==
  /\ open /\ pc[T] = "idle" /\ iref[i] = 0
  /\ iref' = [iref EXCEPT ![i] = 1]
  /\ JoinInode(i)
  /\ UNCHANGED <<bufferVars, open, tdirty, logged, item, joined, freed, unflushed, trans, mine>>

Ijoin(i) ==
  /\ open /\ pc[T] = "idle" /\ i \in mine \ Listed
  /\ i \notin itransp /\ (ili[i] # None => ~ili[i].hold)   \* the ASSERTs
  /\ JoinInode(i)
  /\ mine' = mine \ {i}
  /\ UNCHANGED <<bufferVars, open, tdirty, logged, item, joined, freed, iref, unflushed, trans>>

Ihold(i) ==
  /\ pc[T] = "idle" /\ i \in itransp \ mine
  /\ ili' = [ili EXCEPT ![i].hold = TRUE]
  /\ mine' = mine \cup {i}
  /\ UNCHANGED <<bufferVars, tvars, itransp, iref, unflushed, trans>>

LogInode(i) ==
  /\ pc[T] = "idle" /\ i \in itransp
  /\ ili' = [ili EXCEPT ![i].fields = TRUE]
  /\ logged' = logged \cup {i} /\ tdirty' = TRUE
  /\ unflushed' = unflushed \cup {i}
  /\ UNCHANGED <<bufferVars, open, chunks, free, item, joined, freed, itransp, iref, trans, mine>>

-----------------------------------------------------------------------------
(* The end of a transaction                                                  *)

ForgetHold(x) == FALSE
Held(x) == IF x \in Bufs THEN "HOLD" \in item[x].flags ELSE ili[x].hold

Close ==
  /\ open' = FALSE /\ tdirty' = FALSE /\ chunks' = <<EmptyChunk>> /\ free' = NumSlots
  /\ logged' = {} /\ joined' = {}
  /\ LET done == Listed IN
     /\ Put(T, {b \in done \cap Bufs : ~Held(b)})
     /\ iref' = [i \in Inodes |-> IF i \in done /\ ~Held(i) THEN iref[i] - 1 ELSE iref[i]]

\* buf_item_done, inode_item_done: the items go, except that of an inode held,
\* whose logged fields are flushed again with every transaction that holds it.
\* An inode whose flush fails stays with its transaction.
MissingWrite(b) == FALSE
ToWrite(b) == "DIRTY" \in item[b].flags

Commit ==
  LET done == Listed
      dirtyInodes == {i \in done \cap Inodes : ili[i].fields}
  IN
  /\ open /\ tdirty /\ pc[T] = "idle"
  /\ Close
  /\ flags' = [b \in Bufs |->
       IF b \in done /\ ToWrite(b) THEN flags[b] \cup {"DIRTY"} ELSE flags[b]]
  /\ item' = [b \in Bufs |-> IF b \in done THEN None ELSE item[b]]
  /\ \E failed \in SUBSET dirtyInodes :
       /\ failed # {} => FlushFails
       /\ unflushed' = unflushed \ (dirtyInodes \ failed)
       /\ itransp' = itransp \ (done \ failed)
       /\ ili' = [i \in Inodes |->
            IF i \in done
            THEN IF Held(i) THEN [ili[i] EXCEPT !.hold = FALSE] ELSE None
            ELSE ili[i]]
  /\ UNCHANGED <<store, chain, freelist, blkno, data, locals, freed, trans, mine>>

\* libxfs_trans_cancel, and libxfs_trans_commit with nothing logged: the items
\* stay with their buffers and inodes.
KeepIliFlags(i) == ili[i]
IliUnlocked(i) == [ili[i] EXCEPT !.hold = FALSE]

Cancel ==
  LET done == Listed IN
  /\ open /\ (tdirty => CancelDirty) /\ pc[T] = "idle"
  /\ Close
  /\ item' = [b \in Bufs |->
       IF b \in done THEN [item[b] EXCEPT !.flags = @ \ {"HOLD"}] ELSE item[b]]
  /\ itransp' = itransp \ done
  /\ ili' = [i \in Inodes |-> IF i \in done THEN IliUnlocked(i) ELSE ili[i]]
  /\ UNCHANGED <<store, chain, freelist, blkno, data, flags, locals, freed, unflushed, trans,
                 mine>>

-----------------------------------------------------------------------------
\* The buffer cache, used with no transaction.
Cache ==
  /\ \/ Inside(T) /\ UNCHANGED <<trans, mine>>
     \/ ~open /\ (Purgebuf(T) \/ Flush(T)) /\ UNCHANGED <<trans, mine>>
     \/ \E k \in Blocks \ freed : ~open /\ Ask(T, "read", k) /\ trans' = FALSE /\ UNCHANGED mine
     \/ ~trans /\ Return(T) /\ mine' = mine \cup {cur[T]} /\ UNCHANGED trans
     \/ \E b \in (mine \cap Bufs) \ joined :
          Putbuf(T, b) /\ mine' = mine \ {b} /\ UNCHANGED trans
  /\ UNCHANGED <<tvars, ivars>>

Next ==
  \/ Cache \/ Begin \/ Commit \/ Cancel \/ TransReturn
  \/ \E k \in Blocks : TransAgain(k) \/ \E o \in {"get", "read"} : TransAsk(o, k)
  \/ \E b \in Bufs : Bjoin(b) \/ Bhold(b) \/ LogBuf(b) \/ Binval(b) \/ Brelse(b)
  \/ \E i \in Inodes : Iget(i) \/ Iput(i) \/ Irelse(i) \/ TransIget(i) \/ Ijoin(i)
                       \/ Ihold(i) \/ LogInode(i)
Spec == Init /\ [][Next]_vars

-----------------------------------------------------------------------------
(* Properties *)

\* Every variable stays in its range; what is logged is listed.
TypeOK ==
  /\ BufferTypeOK
  /\ free \in 0 .. NumSlots * Len(chunks) /\ joined \subseteq Bufs /\ itransp \subseteq Inodes
  /\ \A b \in Bufs : item[b] # None => item[b].recur \in 0 .. MaxRecur
  /\ logged \subseteq Listed /\ iref \in [Inodes -> Nat]

\* t_items_free, which xfs_trans_add_item trusts, is the number of free slots
\* in all chunks, through chunks added and given back; what is joined has one
\* descriptor.
DescriptorsExact ==
  /\ TypeOK
  /\ free + Cardinality(Descriptors) = NumSlots * Len(chunks)
  /\ Cardinality(Descriptors) = Cardinality(Listed)
  /\ Listed = joined \cup {i \in itransp : open}
  /\ \A n \in DOMAIN chunks : \A s \in Slots : s > chunks[n].unused => chunks[n].slots[s] = None

\* A transaction gives back what it was given: at its end the client has the
\* references it had or asked to keep, and no others, whatever was asked for
\* twice, released early, held, logged or invalidated.
ReferencesReturned ==
  ~open /\ pc[T] = "idle" =>
    /\ held[T] = mine \cap Bufs
    /\ \A b \in Bufs : refs[b] = IF b \in mine THEN 1 ELSE 0
    /\ \A i \in Inodes : iref[i] = IF i \in mine THEN 1 ELSE 0

\* What was logged is read again, whether it is still in its buffer or not, and
\* reaches the device; except where the block has been freed.
LoggedReadBack ==
  \A b \in held[T] : Valid(b) /\ blkno[b] \notin freed => data[b] = Latest(blkno[b])
LoggedNotLost ==
  /\ \A k \in Blocks \ freed :
       \/ disk[k] = Latest(k)
       \/ \E b \in Cached \cup todo[T] :
            /\ blkno[b] = k /\ data[b] = Latest(k)
            /\ "DIRTY" \in flags[b] \/ (b \in joined /\ "DIRTY" \in item[b].flags)
  /\ ~open => unflushed = {}

\* "buffer marked as invalid": a block a transaction has freed is not written
\* any more by a delayed write from before.
FreedNotWritten ==
  ~open => \A b \in Cached : blkno[b] \in freed => "DIRTY" \notin flags[b]

\* The assertions of libxfs_trans_ijoin: an inode the client has a reference
\* to is in no transaction.
Unjoined == ~open => itransp = {} /\ \A i \in Inodes : ili[i] # None => ~ili[i].hold
=============================================================================
