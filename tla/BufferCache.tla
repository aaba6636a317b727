----------------------------- MODULE BufferCache -----------------------------
(***************************************************************************)
(* The buffer cache of libxfs (libxfs/rdwr.c): getbuf, readbuf, writebuf,  *)
(* putbuf, the release of the buffers the cache gives up, and the list     *)
(* from which their memory is used again.  A write is delayed: it sets     *)
(* LIBXFS_B_DIRTY, and the block goes to the device when the buffer        *)
(* leaves the cache or the cache is flushed.                               *)
(*                                                                         *)
(* The hash table is what PinnedStore promises, one step for a lookup and  *)
(* one for the insertion after a miss, except that the order on the chain  *)
(* is kept: of two buffers of a block the newer one is found.  The cache   *)
(* does not grow: a miss waits for a buffer it can shake.  All buffers     *)
(* have one length.  The contents of a block are its number and how often  *)
(* it has been written; a client writes a whole block.                     *)
(*                                                                         *)
(* KeepFlags states a plausible mistake in the definition after it; the    *)
(* specification does not use it.                                          *)
(***************************************************************************)
EXTENDS Integers, Sequences, FiniteSets

CONSTANTS
  Threads,
  Blocks,      \* b_blkno
  Bufs,        \* c_maxcount buffers
  UseLock,     \* use_xfs_buf_lock
  MaxHeld,     \* buffers a client holds at a time
  MaxVersion,  \* how often a client writes a block
  Faults,      \* what may fail: "read", "write"
  None

ASSUME BufferAssumption ==
  /\ IsFiniteSet(Threads) /\ IsFiniteSet(Bufs) /\ None \notin Blocks /\ UseLock \in BOOLEAN
  /\ MaxHeld \in Nat \ {0} /\ MaxVersion \in Nat
  /\ Cardinality(Threads) * MaxHeld <= Cardinality(Bufs)
  /\ Faults \subseteq {"read", "write"}

VARIABLES
  disk,     \* block -> what is on the device
  version,  \* block -> how often a client has written it
  chain,    \* the hash table: <<b, c>> when b comes no later than c on its chain
  freelist, \* xfs_buf_freelist
  blkno,    \* buffer -> b_blkno, None before it is first allocated
  data,     \* buffer -> *b_addr
  flags,    \* buffer -> b_flags
  refs,     \* buffer -> cn_count
  lock,     \* buffer -> owner of b_lock
  held,     \* thread -> the buffers its calls have returned
  pc,       \* where a thread is
  want,     \* thread -> the block of its call
  op,       \* thread -> its call
  cur,      \* thread -> "bp"
  taken,    \* thread -> the buffers it has taken out of the table
  todo      \* thread -> those it has still to look at

store  == <<disk, version>>
bufs   == <<blkno, data, flags, refs, lock>>
locals == <<pc, want, op, cur, taken, todo>>
bufferVars == <<store, chain, freelist, bufs, held, locals>>

BufferInit ==
  /\ disk = [k \in Blocks |-> <<k, 0>>] /\ version = [k \in Blocks |-> 0]
  /\ chain = {} /\ freelist = {}
  /\ blkno = [b \in Bufs |-> None] /\ data = [b \in Bufs |-> None]
  /\ flags = [b \in Bufs |-> {}] /\ refs = [b \in Bufs |-> 0]
  /\ lock = [b \in Bufs |-> None] /\ held = [t \in Threads |-> {}]
  /\ pc = [t \in Threads |-> "idle"] /\ want = [t \in Threads |-> None]
  /\ op = [t \in Threads |-> None] /\ cur = [t \in Threads |-> None]
  /\ taken = [t \in Threads |-> {}] /\ todo = [t \in Threads |-> {}]

Goto(t, label) == pc' = [pc EXCEPT ![t] = label]
Done(t) ==
  /\ Goto(t, "idle")
  /\ want' = [want EXCEPT ![t] = None] /\ op' = [op EXCEPT ![t] = None]
  /\ cur' = [cur EXCEPT ![t] = None]
Latest(k) == <<k, version[k]>>
Cached == {b \in Bufs : <<b, b>> \in chain}
Fresh == {b \in Bufs : blkno[b] = None}
Without(S) == {p \in chain : p[1] \notin S /\ p[2] \notin S}
InFront(b) == chain \cup ({b} \X (Cached \cup {b}))
Idle(b) == b \in Cached /\ refs[b] = 0
Valid(b) == flags[b] \cap {"UPTODATE", "DIRTY"} # {}

-----------------------------------------------------------------------------
(* libxfs_getbuf, libxfs_readbuf.  A client does not ask for a block it      *)
(* already holds: with the lock it would wait for itself.                    *)

Ask(t, o, k) ==
  /\ pc[t] = "idle" /\ Cardinality(held[t]) < MaxHeld
  /\ \A b \in held[t] : blkno[b] # k
  /\ op' = [op EXCEPT ![t] = o] /\ want' = [want EXCEPT ![t] = k]
  /\ Goto(t, "search")
  /\ UNCHANGED <<store, chain, freelist, bufs, held, cur, taken, todo>>

\* cache_node_get searches the chain, and again after each time it has shaken.
Search(t) ==
  LET found == {b \in Cached : blkno[b] = want[t]} IN
  /\ pc[t] = "search"
  /\ \/ /\ found # {}
        /\ LET b == CHOOSE b \in found : \A c \in found : <<b, c>> \in chain IN
           /\ cur' = [cur EXCEPT ![t] = b]
           /\ refs' = [refs EXCEPT ![b] = @ + 1]
        /\ Goto(t, "lock")
     \/ /\ found = {}
        /\ Goto(t, "allocate")
        /\ UNCHANGED <<cur, refs>>
  /\ UNCHANGED <<store, chain, freelist, blkno, data, flags, lock, held, want, op, taken, todo>>

\* libxfs_getbufr: a buffer off the free list keeps its memory, and whatever
\* else libxfs_initbuf does not set.
KeepFlags(b) == flags[b]
NewFlags(b) == {}

Allocate(t) ==
  /\ pc[t] = "allocate"
  /\ \E b \in IF freelist # {} THEN freelist ELSE Fresh :
       /\ freelist' = freelist \ {b}
       /\ blkno' = [blkno EXCEPT ![b] = want[t]]
       /\ flags' = [flags EXCEPT ![b] = NewFlags(b)]
       /\ refs' = [refs EXCEPT ![b] = 1]
       /\ cur' = [cur EXCEPT ![t] = b]
  /\ Goto(t, "insert")
  /\ UNCHANGED <<store, chain, data, lock, held, want, op, taken, todo>>

Insert(t) ==
  /\ pc[t] = "insert"
  /\ chain' = InFront(cur[t])
  /\ Goto(t, "lock")
  /\ UNCHANGED <<store, freelist, bufs, held, want, op, cur, taken, todo>>

\* b_lock; libxfs_readbuf then looks whether it has to read.
Lock(t) ==
  LET b == cur[t] IN
  /\ pc[t] = "lock"
  /\ UseLock => lock[b] = None
  /\ lock' = [lock EXCEPT ![b] = IF UseLock THEN t ELSE None]
  /\ Goto(t, IF op[t] = "read" /\ ~Valid(b) THEN "read" ELSE "return")
  /\ UNCHANGED <<store, chain, freelist, blkno, data, flags, refs, held, want, op, cur,
                 taken, todo>>

\* libxfs_readbufr; an error puts the buffer.
Read(t) ==
  LET b == cur[t] IN
  /\ pc[t] = "read"
  /\ \/ /\ data' = [data EXCEPT ![b] = disk[blkno[b]]]
        /\ flags' = [flags EXCEPT ![b] = @ \cup {"UPTODATE"}]
        /\ Goto(t, "return")
        /\ UNCHANGED <<refs, lock, want, op, cur>>
     \/ /\ "read" \in Faults
        /\ refs' = [refs EXCEPT ![b] = @ - 1]
        /\ lock' = [lock EXCEPT ![b] = None]
        /\ Done(t)
        /\ UNCHANGED <<data, flags>>
  /\ UNCHANGED <<store, chain, freelist, blkno, held, taken, todo>>

Return(t) ==
  /\ pc[t] = "return"
  /\ held' = [held EXCEPT ![t] = @ \cup {cur[t]}]
  /\ Done(t)
  /\ UNCHANGED <<store, chain, freelist, bufs, taken, todo>>

-----------------------------------------------------------------------------
(* Buffers leave the cache: libxfs_bulkrelse, libxfs_brelse                  *)

\* The cache is full; or libxfs_purgebuf.
Shake(t) ==
  /\ pc[t] = "allocate" /\ freelist = {} /\ Fresh = {}
  /\ \E S \in SUBSET {b \in Bufs : Idle(b)} \ {{}} :
       /\ chain' = Without(S)
       /\ taken' = [taken EXCEPT ![t] = S] /\ todo' = [todo EXCEPT ![t] = S]
  /\ Goto(t, "release")
  /\ UNCHANGED <<store, freelist, bufs, held, want, op, cur>>

Purgebuf(t) ==
  /\ pc[t] = "idle"
  /\ \E b \in Bufs :
       /\ Idle(b)
       /\ chain' = Without({b})
       /\ taken' = [taken EXCEPT ![t] = {b}] /\ todo' = [todo EXCEPT ![t] = {b}]
  /\ op' = [op EXCEPT ![t] = "purge"]
  /\ Goto(t, "release")
  /\ UNCHANGED <<store, freelist, bufs, held, want, cur>>

\* libxfs_writebufr for those of some buffers that are dirty, with errors for
\* some of them.
Dirty(S) == {b \in S : "DIRTY" \in flags[b]}

Writebufr(S) ==
  \E bad \in SUBSET Dirty(S) :
    LET good == Dirty(S) \ bad IN
    /\ bad # {} => "write" \in Faults
    /\ \E last \in [{blkno[b] : b \in good} -> good] :   \* of two buffers of a block
         /\ \A k \in DOMAIN last : blkno[last[k]] = k
         /\ disk' = [k \in Blocks |->
              IF k \in DOMAIN last THEN data[last[k]] ELSE disk[k]]
    /\ flags' = [b \in Bufs |->
         IF b \in good THEN (flags[b] \cup {"UPTODATE"}) \ {"DIRTY"} ELSE flags[b]]

Release(t) ==
  /\ pc[t] = "release"
  /\ \E b \in todo[t] :
       /\ Writebufr({b})
       /\ todo' = [todo EXCEPT ![t] = @ \ {b}]
  /\ UNCHANGED <<version, chain, freelist, blkno, data, refs, lock, held, pc, want, op,
                 cur, taken>>

ReleaseDone(t) ==
  /\ pc[t] = "release" /\ todo[t] = {}
  /\ freelist' = freelist \cup taken[t]
  /\ taken' = [taken EXCEPT ![t] = {}]
  /\ \/ op[t] = "purge" /\ Done(t)
     \/ op[t] # "purge" /\ Goto(t, "search") /\ UNCHANGED <<want, op, cur>>
  /\ UNCHANGED <<store, chain, bufs, held, todo>>

\* libxfs_bcache_flush, called while no other thread runs.
Flush(t) ==
  /\ \A u \in Threads : pc[u] = "idle"
  /\ Dirty(Cached) # {}
  /\ Writebufr(Cached)
  /\ UNCHANGED <<version, chain, freelist, blkno, data, refs, lock, held, locals>>

-----------------------------------------------------------------------------
(* libxfs_writebuf, libxfs_putbuf                                            *)

Modify(b) ==
  /\ version[blkno[b]] < MaxVersion
  /\ version' = [version EXCEPT ![blkno[b]] = @ + 1]
  /\ data' = [data EXCEPT ![b] = <<blkno[b], version[blkno[b]] + 1>>]

Put(t, S) ==
  /\ lock' = [b \in Bufs |-> IF b \in S THEN None ELSE lock[b]]
  /\ refs' = [b \in Bufs |-> IF b \in S THEN refs[b] - 1 ELSE refs[b]]
  /\ held' = [held EXCEPT ![t] = @ \ S]

Writebuf(t, b) ==
  /\ pc[t] = "idle" /\ b \in held[t]
  /\ Modify(b)
  /\ flags' = [flags EXCEPT ![b] = @ \cup {"DIRTY"}]
  /\ Put(t, {b})
  /\ UNCHANGED <<disk, chain, freelist, blkno, locals>>

Putbuf(t, b) ==
  /\ pc[t] = "idle" /\ b \in held[t]
  /\ Put(t, {b})
  /\ UNCHANGED <<store, chain, freelist, blkno, data, flags, locals>>

-----------------------------------------------------------------------------
Inside(t) ==
  \/ Search(t) \/ Allocate(t) \/ Insert(t) \/ Lock(t) \/ Read(t) \/ Shake(t)
  \/ Release(t) \/ ReleaseDone(t)
BufferNext ==
  \E t \in Threads :
    \/ \E k \in Blocks, o \in {"get", "read"} : Ask(t, o, k)
    \/ \E b \in Bufs : Writebuf(t, b) \/ Putbuf(t, b)
    \/ Inside(t) \/ Return(t) \/ Purgebuf(t) \/ Flush(t)
BufferSpec == BufferInit /\ [][BufferNext]_bufferVars

-----------------------------------------------------------------------------
(* Properties *)

BufferTypeOK ==
  /\ \A b \in Bufs : flags[b] \subseteq {"UPTODATE", "DIRTY"} /\ refs[b] \in Nat
  /\ chain \subseteq Cached \X Cached /\ freelist \subseteq Bufs
  /\ \A b, c \in Cached : b # c => (<<b, c>> \in chain <=> <<c, b>> \notin chain)
  /\ \A b \in Bufs : data[b] \in (Blocks \X (0 .. MaxVersion)) \cup {None}
  /\ held \in [Threads -> SUBSET Bufs]

\* "buffer is sync'd to disk": a cached buffer that is up to date and not dirty
\* has the contents of its block.
SyncedToDisk ==
  \A b \in Cached : "UPTODATE" \in flags[b] /\ "DIRTY" \notin flags[b] =>
    data[b] = disk[blkno[b]]
=============================================================================
