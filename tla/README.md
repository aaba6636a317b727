# A verification development for fuse-xfs

fuse-xfs mounts an XFS file system read-only from user space. It is a FUSE
daemon (`src/src/fuse`, `src/src/xfsutil`) on top of the xfsprogs sources, which
it carries along whole (`src/src/xfsprogs`): the library libxfs and the tools
that come with it, xfs_repair among them. `src/fusexfs-trunk` is the upstream
tree the port patches; everything here refers to `src/src`.

This directory holds TLA+ modules for the concurrent core of that code, the
configurations that check them with TLC, and proofs that TLAPS checks.

    tlc -config MCXfsCache.cfg MCXfsCache       a run
    tlapm XfsCacheProofs.tla                    a proof

`PROJECT.json` lists the components, the runs, the source lines behind every
definition, the hazards and the theorems.

## Inventory

### The parts and how they interact

| part | source | state it keeps | operations |
|---|---|---|---|
| cache | `libxfs/cache.c` | hash chains, MRU lists by priority, a count and a priority per node, the number of nodes and its maximum; four kinds of mutex | get, put, set priority, purge a node, shake, expand, purge all |
| inode interface | `libxfs/rdwr.c`, `util.c`, `init.c` | an inode per cache node: its number, whether it has been read | iget, iput, iread; the root inode held by mount |
| buffer cache | `libxfs/rdwr.c` | a block per cache node: up to date, dirty; a free list | getbuf, readbuf, writebuf, putbuf, release |
| path lookup, handlers | `xfsutil.c` find_path, `fuse_xfs.c` | what a handler holds; `fi->fh`, a pointer to the inode of an open file | getattr, opendir, readdir, readlink, open, read, release, destroy |
| read path | `xfsutil.c` xfs_readfile, `libxfs/xfs_inode.c`, `xfs_bmap.c` | the extent list of an inode and its flag XFS_IFEXTENTS | load the list, copy the extents a request overlaps |
| directory listing | `xfsutil.c` getdents | a window of block mappings, a cursor | the three directory formats |
| transactions | `libxfs/trans.c`, `logitem.c` | items joined, held, dirty | join, hold, log, commit, cancel |
| work queue | `repair/threads.c` | a linked list, a counter, a flag; one mutex, one condition variable | create, queue, work, destroy |
| prefetch | `repair/prefetch.c` | per allocation group: a queue of buffers, four flags, a semaphore | queueing thread, I/O threads, hand-over to the next group |
| progress | `repair/progress.c` | a report thread, a timer, a mutex | start, report, stop |
| repair phases | `repair/*.c` | trees of extents and inodes, block maps | phases 1 to 7 |
| xfs_copy | `copy/xfs_copy.c` | one write buffer, a mutex per target used as a gate | read, hand over, write |
| the rest of xfsprogs | `mkfs`, `db`, `io`, `quota`, ... | none that threads share | command-line tools |

FUSE runs a handler per request, on several threads: `fuse/main.c` calls
`fuse_main` without `-s`. A handler calls `find_path`, which gets the inode of
the root and of each component in turn from the inode cache (`libxfs_iget`) and
puts the one before; the handler works on the last and puts it, or keeps it
behind `fi->fh`. Reading an inode or a directory block goes through the buffer
cache, the second client of `cache.c`. Nothing locks an inode: what two handlers
do on one inode interleaves freely. xfs_repair uses the same library from the
threads of its work queues and of the prefetch.

### What is hard

- Four kinds of mutex taken in two orders. Lookup and put go chain, node, list;
  the shaker goes list first and must *try* the others.
- A pointer returned by a lookup is used with no mutex held: only the count of
  the node keeps it alive. Every path through a handler must put what it took,
  once.
- `libxfs_iget` inserts an inode before it reads it, and leaves it there when the
  read fails.
- The first read of a file in btree format loads its extent list with no lock.
- Errors: libxfs is kernel code compiled with other conventions. Without a
  transaction, `libxfs_trans_read_buf` returns 0 and no buffer; errors are
  positive in libxfs and negative in `xfsutil.c`.
- Signals on a condition variable only when the queue was empty, a `last_item`
  that dangles, a broadcast outside the mutex.
- Hand-over between threads in the prefetch and in xfs_copy, with failures.
- A miss of the cache and the insertion after it are two critical sections; writes
  are delayed, and done when the shaker gives the buffer up.
- A transaction counts references in three places (the node, `bli_recur`, the hold
  flag), and the items of buffers outlive it.

### What would make each part correct

- cache: counts are exact; a referenced node stays where lookups find it; every
  unreferenced one can be reclaimed; no capacity leaks; calls return.
- inode interface and handlers: references balance; `fi->fh` stays valid; answers
  are about inodes that have been read.
- read path: exactly the bytes of the file, inside the buffer even under races; a
  failed load leaves nothing behind.
- work queue: no item lost or done twice, no worker asleep over work, `destroy`
  a barrier that is reached.
- buffer cache: what was written is what is read next; transactions: what was
  joined is put once, what was logged is written, what was freed is not.
- prefetch: no buffer locked by two parties or forgotten locked, the phase ends;
  xfs_copy: the buffer is not refilled under a thread, targets that do not fail
  keep up, failures are reported, main ends.

`PROJECT.json` lists the hazards line by line.

## The modules

| module | models | composed with |
|---|---|---|
| `XfsCache` | `cache.c`, one action per stretch of code between two blocking points | implements `PinnedStore` |
| `PinnedStore` | the promise of the cache to its clients, no locks | |
| `XfsDriver` | the handlers, find_path, iget and iput | stands on the promise of `PinnedStore` |
| `XfsRead` | xfs_readfile and the loading of the extent list, on one inode | stands for the `read` handler of `XfsDriver` |
| `WorkQueue` | `threads.c` | |
| `Prefetch` | `prefetch.c` and the loops of phases 3, 4, 6 around it | |
| `BufferCache` | the buffers of `rdwr.c` | on the promise of `PinnedStore` |
| `Transactions` | `trans.c`, `logitem.c` | extends `BufferCache`: one thread of it |
| `XfsCopy` | the threads of `xfs_copy.c` | |
| `MC...` | instances for TLC | |
| `XfsCacheProofs`, `XfsCacheContract`, `XfsDriverProofs`, `XfsReadProofs`, `WorkQueueProofs`, `PrefetchProofs`, `TransactionsProofs`, `XfsCopyProofs` | theorems | each extends the module it is about; `XfsCacheContract` extends `XfsCacheProofs` |

**XfsCache.** `chain`, `mru`, `count`, `prio`, `total` are the fields of
`struct cache` and of its nodes; `hlock`, `nlock`, `mlock` are the owners of the
mutexes (that of the counters is held for single steps and is part of them);
`live` is the memory. A thread is at a label `pc` with the locals of the C
function it runs. A lookup is `GetStart`, `LockHash`, `SearchHit` or
`SearchMiss`, ...; a pass of the shaker is `ShakeLock`, then for each node on the
list `ShakeNode`, `ShakeHash`, `ShakeTake` or one of the `Busy` steps where a try
fails, then `ShakeUnlock`, `Release`, `Uncharge`. Chains and lists are sets: the
order, which is the replacement policy, matters to no property. Clients may call
anything they may call in C: they put only what they hold, purge a node by its
key, and purge the whole cache only while no other call is in progress, which is
how libxfs uses it.

**XfsDriver.** A node carries the inode number it is cached under, its count and
whether `libxfs_iread` has filled it. `Evict` is the cache making room. The
search, the insertion and the filling of `libxfs_iget` are three steps, because
another thread can come between any two. The on-disk tree is a constant: the kind
of each inode and a function from directory and name to inode. Metadata may turn
out corrupt (`Corrupt`), which is an error return, and the device may fail
(`DeviceFails`), which kills the daemon except where a block of a file is read.
The kernel's side is what FUSE promises: no release while a read is in progress
and unmount when no file is open.

**XfsRead.** The byte at address `a` of the device is the number `a`, so a
property can say of each byte in a buffer where it came from. Nothing locks the
inode, so what threads share is touched a word at a time: a read takes a pointer
into the list (`GetExt`) and decodes the two words of the record later, in either
order (`FirstWord`, `SecondWord`), from the list that is there then, from one that
was forgotten whole when another thread reset the fork (`ep` is "leaked"), or from
freed memory, where any words of `Junk` may be found or nothing (`BadPointer`). A
load writes `l0`, then `l1` of each record (`PutL0`, `PutL1`), between the checks of
its leaf (`Leaf`, `BadLeaf`); the error path frees the list before it clears
`if_bytes` and the flag (`Free`, `Clear`, `Unflag`). One block is copied at a time.
Two loads at once grow, move and free the same list; from there on
(`memory = "raced"`) it may hold any words, be NULL or be freed, for both
(`LoadRaced`). Words are read and written whole, stores are seen in program order,
and block numbers are below 2^43, so that `l1` has all of the start block. Not
modelled: what a raced load does to the rest of the heap, the indirection array for
very long lists, the inline list for at most two extents (in btree format there are
more). The growth of an empty list is one step: `if_bytes`, which readers test, is
set last. `FileByte`, which the properties compare with, is 0 in holes and in
extents that are not written (`Unwritten`).

**WorkQueue.** The list is real: items at addresses, `next` pointers, `free` and
reuse of addresses. The code under the mutex is one action. A sleeping worker may
wake without a signal.

**Prefetch.** Per group a queueing thread locks the buffers of the inode chunks
and queues them (`NextChunk`, `Insert`, `ChunkQueued`, `FinishQueuing`), I/O
threads take batches, read, queue the directory blocks and unlock, and the
processing thread (`main`) asks for the same buffers. `args` is the structure the
threads of a group share, `owner` the lock of a buffer, `OnQueue` while no thread
but the queue has it. Creating the second I/O thread may fail, reads may fail or
fall short. Two groups are enough for the hand-over, which only ever concerns
neighbours. A buffer the processing thread has asked for it keeps or releases at once
(phase 3 keeps a cluster, phase 6 does not, and keeps the blocks of one directory until
it has them all). The bmap btree blocks of a directory, which pf_scan_lbtree reads
itself and holds while it queues (prefetch.c:215-224), are left out: the extents of a
directory are a constant. The loop over the buffers of a batch that have been read takes them one by
one (`left`, `NextInodeBuf`). That a directory block is never an inode cluster, and
that no cluster is block 0, the superblock's, are assumptions on the constants: repair
tells the two kinds of buffer apart by the priority they were queued with.

**BufferCache.** `chain` is the hash table as an order: a pair says which of two buffers
comes first, so that of two buffers of a block the newer one is found. `freelist` is
the memory to be used again. A call is a search, on a miss an
allocation (shaking first when the cache is full, then searching again) and an
insertion, the lock, the read. Each is a step, as is each write of a shaken buffer.
Contents are a block number and how often the block has been written, so a
property can say that a buffer is stale, or another block's.

**Transactions.** One thread, as mkfs and repair use them. `chunks` and `free` are
the descriptors, `item` and `ili` the log items of buffers and inodes, `mine` the
references the client itself has. The client does what the assertions of the code
let it do, and three things are left to it by convention: it does not read a block
it has freed, does not log what it has invalidated in the same transaction, and
asks for an inode once. `CancelDirty` and `FlushFails` let it cancel a
transaction it has logged in, and let the flush of an inode fail; the run has
both FALSE, because the properties do not survive them (below).

**XfsCopy.** The mutexes are used as semaphores: locked at the start, unlocked by
another thread than the one that locked them. `Count` and `Release` are the two
loops of write_wbuf, `TailWrite` the writes that main makes itself at the end. A read
of the source that fails ends the program, at the end too (`Tail`).

Some modules hold definitions named in their header that state a plausible
mistake in the definition after them; the specifications do not use them. They
are there to show that the properties would notice.

## The runs

| run | question | instance |
|---|---|---|
| `cache` | do counts, lists, locks and the capacity account stay consistent, with no deadlock, and does the cache implement `PinnedStore`? | 2 threads, 1 reference each, 3 keys on 2 chains, 2 priorities, 2 nodes, room for 1 growing to 3 |
| `cache_returns` | does every call return, or what keeps it? | 2 threads, 2 keys on 1 chain, 2 nodes, a shake takes 1, room for 1 growing to 2, 2 priorities |
| `driver_references` | is any reference put twice, does `fi->fh` stay valid, can the assert of find_path fail, where are references left behind? | 2 threads, all handlers, 3 nodes, failures of both kinds |
| `driver_blank_inode` | are all answers from inodes that were read? | violated: 2 threads |
| `read_alone` | is what the kernel takes for an answer right, for every request? | 15 x 7 requests, blocks of 2 bytes, 3 extents with holes in 2 leaves, a device that fails |
| `read_unwritten` | the same with an extent that is not written | violated |
| `read_race` | what may two threads and failures do to a buffer, and to the list while one of them loads? | 2 threads, 3 adjacent extents, 2 requests, corrupt leaves, 2 values of freed memory |
| `queue` | list, wake-ups, barrier, end of a phase | 3 workers, 5 groups, 4 addresses |
| `prefetch` | buffers locked for one party at a time, the counter that drives the reading, assertions, lifetime of the shared structure, end of the phase | 2 groups, 2 I/O threads each or fewer or none, 4 and 1 clusters, 2 directory blocks, a semaphore of 1, a threshold of 2 |
| `transactions` | references, descriptors, what is read back, written, not written | 1 buffer for 2 blocks, 2 inodes, chunks of 2 descriptors |
| `buffers_race` | is a buffer that says it is up to date? | violated: 2 threads, 2 blocks, 3 buffers |
| `copy` | refilling, keeping up, reports, the end | 3 targets, 3 fills, 2 writes by main |

### What the violated runs show

- `driver_blank_inode`: thread 1 misses, inserts a zeroed inode and goes to read
  it; thread 2 hits it and answers from zeros: a path component that is no
  directory, a file with no type. `libxfs/util.c:161-162` takes it that an inode
  is locked before it is put where others find it.
- `buffers_race`: both threads miss the block and insert a buffer each. The lock of
  a buffer does not help, there are two. When the newer one has been written, the
  older one is up to date by its flag (`libxfs.h:237`: "buffer is sync'd to disk")
  and holds what was there before; once both are dirty the last one written wins.
  xfs_repair is exposed to it: prefetch and processing ask for the same blocks.

- `read_unwritten`: the record of an extent says that it was allocated and never
  written (`br_state`), neither loop of xfsutil.c looks at it (729-736, 766-771), and
  copy_extent_to_buffer copies the blocks: the read returns what they held before,
  another file's data it may be. man/man3/xfsctl.3:351-352: "Any subsequent read in
  the given range will return zeros until new data is written."

Met while modelling, each visible in the model with other constants or in plain
reading, and not given a run of their own:

- When reading an inode fails, `libxfs_iget` purges the node it holds
  (rdwr.c:682). `cache_node_purge` leaves a node with a count alone
  (cache.c:476 asks for a count of zero), so the inode stays in the cache, blank,
  and the next lookup is a success. With `Corrupt = TRUE` `AnswersTrue` is violated
  by a single thread.
- Two threads that both find XFS_IFEXTENTS clear load the list of an inode at once;
  the second sets `if_bytes` to 0 and adds its records in front of those of the
  first. From then on the list may hold anything (`LoadRaced`), and reads may return
  zeros or the bytes of other blocks, or kill the daemon. Without a second load they
  may too: the flag is set before a record is read (xfs_inode.c:683, against "All
  extent pointers are read in", include/xfs_inode.h:157), so another thread takes
  half of a list for all of it; and when that load fails it frees the records under
  the reader. No property denies any of this; `NoOverrun` says what holds all the
  same.
- `libxfs_umount` never puts `m_rootip` (init.c:662, 707-713); getattr never puts
  its inode, find_path keeps its directory when a lookup fails, readlink keeps its
  inode on an error, and an inode that cannot be read keeps its count. `LeaksKnown`
  says that these are all there are.
- The error of `xfs_iread_extents` is positive: xfsutil.c:761 and fuse_xfs.c:194-195
  hand it to the kernel as 990 bytes read, of a buffer that is 0 as far as it goes.
  `Answered` counts it as an answer, so `ReadRight` is violated when
  `LeafFails = TRUE`.
- A cache that is full starves a lookup while another client takes the room
  between its shake and its retry: cache_shake returns the same priority when it
  has taken a whole batch (cache.c:245), so cache_expand is never reached.
  `CallsReturn` has this as an exception and is violated without it. The cache
  doubles beyond the maximum it was given (cache.c:366 against its comment at
  295-296).
- Prefetch gets stuck (man/man8/xfs_repair.8:95-99 advises `-P`). `Finishes` names
  the three ways, and is violated when any one is struck from it. `Unread`: the
  queueing thread sleeps on the semaphore before it has queued enough to start the
  I/O threads, and the processing thread sleeps on a buffer that is on the queue;
  this takes fewer inode buffers that are not cached than IO_THRESHOLD among the
  `max_queue` + 1 chunks of clusters the semaphore lets through, so a cache that
  holds most of them. `NeverStarted`: a group has no I/O thread at all (`"first"` in
  `Faults`), does not say that its prefetch is done, and the next is not started.
  `SignalLost`: in such a group the only signal finds the processing thread not yet
  asleep. With `Stride`, or when the queueing thread cannot be created, a structure
  that has been freed is locked; neither is in the run, nor is a failed allocation of
  an I/O thread (`"memory"`), after which `Asserts` fails.
- Transactions: cancelling one that has been logged in (`CancelDirty`) leaves STALE
  and DIRTY on the item, which the buffer keeps even when it is used for another
  block (libxfs_initbuf does not touch b_fsprivate): a block freed later is then
  written (`FreedNotWritten`). An inode whose flush fails (`FlushFails`) keeps a
  pointer to its transaction, which is freed, and its changes are lost
  (`Unjoined`, `LoggedNotLost`). An error of a delayed write is dropped
  (`"write"` in `Faults`, `LoggedNotLost`). When the embedded chunk of descriptors
  has been emptied while another is in use, xfs_trans_buf_item_match_all asserts;
  the model stops there.
- xfs_copy: when all targets have failed nobody unlocks `mainwait`, and the program
  sleeps where man/man8/xfs_copy.8:108-110 has it abort; `Ends` excepts that case.
  The writes of main at the end drop their results and look at no state: a target
  whose log or secondary superblocks were not written gets `sb_inprogress` 0 and is
  reported as complete, a failed target with the others, against the comment at
  xfs_copy.c:1133, "[backwards, so inprogress bit only updated when done]". No
  property is stated about the mark: the code keeps none.

### Bounds, and why they are enough

- Cache: two threads and two nodes for three keys give every pair of conflicting calls, a
  thread that holds, one that shakes, and a free node; two priorities give the
  step from one list to the next and past the last. `MaxcountBound` stops the
  doubling. `cache_returns` has a second key on the same chain and `ShakeCount` 1
  against two nodes: a shake can take its whole batch, so that a lookup retries at
  the same priority while the other thread refills the cache, and it can take
  nothing, so that it goes on to the next list and to cache_expand. One chain is
  enough: what a second would add is less contention.
  The proofs below cover every size for what they prove.
- Driver: references interact through shared nodes, and three inodes on a path
  and a listing in progress reach every pair of places that hold one. `MaxCount`
  stops the growth that leaks cause: no new call starts over it.
- Read: an extent list of three with a hole in front, a touching pair, a hole and
  an end beyond `di_size`, and all requests from 0 to 14 with 1 to 7 bytes, reach
  every relative position of a request to a block, an extent and the end. In
  `read_race` two requests over three extents in two leaves, the second not full, let
  one thread read before, within and after each leaf of the other's load; the two
  values of `Junk` are a block of elsewhere and an extent longer than the file.
- Prefetch: a directory block behind one cluster and one in front of another, of
  which the first is or is not in the cache, give the second and third of the nested
  calls and the reads that go back; two groups give the hand-over. Four clusters
  against a semaphore of one and a threshold of two make the queueing thread sleep on
  the semaphore with the reading started and with it not started.
- Transactions: one buffer for two blocks makes every use of the other block evict
  and reuse it; three items on chunks of two descriptors make a second chunk come and
  go. `MaxVersion` and `MaxRecur` bound the writes of a block and the repeated
  requests. Instances with two buffers held at a time, and with three inodes, pass as
  well; they take minutes and show nothing else.
- Copy: three targets give two that finish or fail in either order around a third;
  the proofs cover the rest.
- Queue: more groups than workers and than addresses, so that the list empties
  and fills again and addresses are reused.

### Deadlock, symmetry, fairness

Deadlock is checked everywhere except in the runs of `XfsRead` in which the
process may die of a NULL pointer, after which nothing steps, in `prefetch`, where a
phase may get stuck in the ways `Finishes` names, and in `copy`, where main may sleep
for ever once all targets have failed. `Prefetch`, `XfsDriver` and `WorkQueue` have a
stuttering step for their proper ends. Threads, nodes, buffers,
blocks and inodes are symmetric in the safety runs; the runs with liveness use no
symmetry.

Fairness of the cache is strong fairness of each thread's next step while a call
is in progress: a mutex is held for a few instructions and handed around. It
makes no client call, nor put a reference back; the cache grows instead, which is
why calls return, except for a lookup whose room another client takes every time
between its shake and its retry, and at `MaxcountBound`, where the model lets the
cache grow no further. Fairness of the queue is weak fairness of the queueing thread
and of each worker; wake-ups without a signal are possible and never promised, so
that `Ends` does not lean on them. Fairness of the prefetch and of xfs_copy is weak
fairness of each thread: it runs when it can, its reads and writes return, and
which thread gets a mutex is left open.

## The proofs

For all values of the constants that satisfy the assumption of the module (finite
sets of threads and nodes, a hash function into the chains, positive sizes, a list
of extents that is sorted and does not overlap, one thread for a transaction, a `None`
that is no value of another kind); what a theorem assumes beyond that is in its row:

| theorem | says |
|---|---|
| `XfsCacheProofs!TypeCorrect` | `Spec => []TypeOK` |
| `CountsCorrect` | `RefCountExact`: a count is the number of references held or being handed out |
| `PinnedCorrect` | `PinnedStaysCached`: what a client holds is allocated and on its chain |
| `ReclaimableCorrect` | `Reclaimable`: what nobody holds is where the shaker looks |
| `ShakerCorrect` | `ShakerAsserts`: the ASSERTs of cache_shake, and those of cache_node_get about a node it revives |
| `CapacityCorrect` | `CapacityBound`: `c_count <= c_max <= c_maxcount` |
| `AccountCorrect` | `CapacityExact`: `c_count` is the nodes there are, charged for or not yet uncharged |
| `XfsCacheContract!StoreImplemented` | `RefinesPinnedStore`: the cache implements `PinnedStore` |
| `PurgesAll` | `PurgeComplete`: cache_purge leaves what is referenced, and its count |
| `XfsDriverProofs!TypeCorrect` | `Spec => []TypeOK` |
| `ReferencesCounted` | `HeldIsCounted`: a node has a count for every holder, the root's one more for the mount, so nothing is put twice |
| `OpenFilesPinned` | `OpenPinned`: `fi->fh` points to the cached inode of the file |
| `RootAsserted` | `RootAssert`: the assertion of find_path |
| `TruthTold` | one thread, nothing corrupt: `AnswersTrue`, answers come from inodes that were read |
| `LeaksAreKnown` | `LeaksKnown`: references are left behind in four places, one at a time, and nowhere else |
| `XfsReadProofs!TypeCorrect` | `Spec => []TypeOK` |
| `InsideBuffer` | `NoOverrun`: copies stay inside the buffer, whatever the record |
| `LoadsRemembered` | until two loads have run at once: `LoadRemembered`, the list is whole when its flag is set and nobody loads |
| `ReadsRight` | one thread, or a list read with the inode; every extent written, no leaf corrupt: `ReadRight`, an answer is exactly the bytes asked for |
| `WorkQueueProofs!TypeCorrect` | `Spec => []TypeOK` |
| `ListCorrect` | `ListExact`: the list is the items queued and not taken, in order |
| `WakeupCorrect` | `NoLostWakeup` |
| `BarrierCorrect` | `Barrier` |
| `PrefetchProofs!TypeCorrect` | `Spec => []TypeOK` |
| `LockedWhileQueued` | `QueuedLocked`: a buffer is locked for one party at a time, whatever fails |
| `QueueCounted` | `CountExact`: `inode_bufs_queued` counts the inode buffers on the queue |
| `AssertionsHold` | no allocation of an I/O thread fails: `Asserts`, the assertions of prefetch.c |
| `ArgsThere` | no stride, every queueing thread created: `ArgsAlive`, no use of freed arguments |
| `TransactionsProofs!SlotsCounted` | no flush fails: `DescriptorsExact`, `t_items_free` counts the free slots |
| `Returned` | no flush fails: `ReferencesReturned`, a transaction gives back what it took |
| `NoneJoined` | no flush fails: `Unjoined`, no inode is left in a transaction that has ended |
| `FreedStays` | nor is a dirty transaction cancelled: `FreedNotWritten`, a freed block is not written |
| `ReadBack` | nor does a write fail: `LoggedReadBack`, a valid buffer has the last version logged |
| `NotLost` | the same: `LoggedNotLost`, that version is on the device or will be written |
| `XfsCopyProofs!TypeCorrect` | `Spec => []TypeOK` |
| `TargetsKeepUp` | `KeptUp`: targets that have not failed have all parts so far |
| `FailuresReported` | `Reported`: a target that is not listed has all its thread had to write |
| `BufferKept` | `BufferStable`: no refill under a thread |

*Cache.* `RefCountExact` alone is not inductive: the shaker would have to be
trusted not to take a node that is being looked up. `IInv` adds who owns which
mutex at which label (`LocksHeld`), that chains hold live nodes under their own
hash (`ChainsOK`), that listed nodes have the priority of their list (`MrusOK`),
that references are to cached nodes, that a cached node without references is
listed or in the hands of a thread (`ZeroListed`), what a thread knows of the node
in its hands (`Solo`, `OwnOK`), and that nodes on their way out are in one place
only (`TransitDisjoint`). The argument is by rely and guarantee: the `...Guarantee`
lemmas say what any step may do to a chain, a list, a node; the `...Kept` lemmas
use them for the parts of the invariant that belong to other threads.

The account of nodes is a matter of differences: each step moves `c_count` by the
nodes it allocates or frees and by what its thread comes to owe or pays back
(`Balanced`, `DebtsMove`). The refinement needs no further invariant: a step changes
what a client sees of a node (`Cached` and its key) and of a call (the key looked for)
only where it asks, answers, unpins or evicts, and `IInv` gives the guards of those
actions. cache_purge needs two facts more: it works on one list after the other and
nobody refills those behind it (`Emptied`, since a purge has the cache to itself), and a
node allocated and not cached is in the hands of a thread (`Owned`); so when it returns
no list holds a node, and `ZeroListed` leaves only referenced ones.

*Driver.* `HeldIsCounted` alone says nothing of where the references are. `IInv` adds
what a thread holds at each label (`Place`), that held nodes are cached (`Cached`),
that open files point to the node of their inode (`Opened`), and that there is a node
`m` for the root whose count is one more than its holders (`Counted`): the reference
of the mount, which is what makes `RootAssert` true. The `LeftBy...` lemmas say of
each handler that it gives back no more than it held; `Balanced` and `KeptByBalance`
turn this into the counts. Steps that give an inode a new node, an open file, or take
a node away are lemmas of their own (`KeptByInsert`, `KeptByOpen`, `KeptByRelease`,
`KeptByFreeing`). The counts may exceed the holders, and do: that is the leaks.

`TruthTold` needs that a blank inode is one its thread is filling (`Truthful`). With a
single thread nobody meets it meanwhile; a second one would, as `driver_blank_inode`
shows, and a corrupt inode stays blank. `LeaksAreKnown` is for any number of threads
and all failures. It follows the surplus of a count over its holders, and says of every
step that it moves the count as it moves what its thread holds, or gives up a node and
lets the count stand in one of the four places (`Accounted`). The steps that insert,
open and release move a count and a holder that is no thread's, and are taken singly
(`KnownByStep`).

*Read.* The first part holds for any number of threads and any words a thread may find.
The invariant says where copy_extent_to_buffer is: the place in the buffer is that of
the block, every block up to the last begins before the end of the request, and the
current one ends after its start (`Placed`). `StartPlaced` establishes it from the test
of extent_overlaps_buffer and the two divisions, whatever record was tested, and
`PieceInside` keeps it over a block; so `NoOverrun` asks nothing of the records. A load
writes inside the list because the list is long enough for all extents (`Listing`,
`Putting`) as long as no second load frees it (`OneLoad`). Products of sizes are kept
behind the name `Bytes`.

The second part is the list until two loads have run at once. `LoadAt` says how far the
one load has got at each of its labels, in the middle of a record too, and `Whole` what
the list is when there is none; the readers that come and go meanwhile do not touch it
(`Readers`, `Untouched`).

The third part is about reads that nobody disturbs (`Undisturbed`), because there is one
thread, or because the list was read when the inode was and is never loaded. `Reading`
says that the pointer a read holds is into a list that stays, and what it has decoded so
far; so both words are those of one record, the one on disk (`Decoded`). With it,
`Progress` says how far the answer is: the request is cut at the end of the file and
nowhere else (`Cut`), the extent in work is the one of the list (`Chosen`), every byte
in the buffer is 0 or the file's (`OwnBytes`), and every position in an extent that is
done, or in a block that is copied, has the file's (`Covered`, `Filled`). Three lemmas
say that nothing is left out: extent_overlaps_buffer misses no extent with a byte of the
request (`NoneMissed`), the copy begins and ends with the bytes asked for
(`StartCovers`), and a piece is all of its block that is asked for (`PieceWhole`);
`OneHolder` is what makes a byte of the file unique. At the end every extent is done;
what is in none is a hole, where memset's 0 is right. Each condition is needed: with a
corrupt leaf 990 is an answer, unwritten extents are copied, and two threads over a
btree load at once.

*Queue.* `IInv` adds to the four properties the phases of the queueing thread
(which fields are still untouched before, and no longer needed after, each) and
that two workers never hold one item. With it the list can be described by group
numbers: the queue is always the interval from the oldest item not taken to the
newest queued.

*Prefetch.* Four layers hold whatever fails. `Shape` is the ranges and the places of
the threads. `Life` says when the threads of a group run: none before the queueing
thread has created them, none after it has joined them. `Owned` accounts for locks: a
buffer locked for the queue is on one queue (`OnOneQueue`), an I/O thread has the locks
of its batch and of the block it is inserting (`Batched`), and the jobs of a queueing
thread end with the put of the buffer it has locked (`QueuerJob`). `QueuedLocked` is not
inductive without the last two: what is put on a queue must be locked by who puts it.
`InOrder` gives `CountExact`. The counter is decremented for buffers from
`last_bno_read` on and incremented for those beyond it only, so one has to know that
each cluster still to come (`Coming`) is beyond the reads and beyond everything queued,
which rests on the order of the chunks in the tree of records. `AssertionsHold` adds
`Staffed`: while a group may still get buffers, one of its I/O threads is there to
take them. Without the first I/O thread the queueing thread returns before it has
queued anything, so that failure may happen; when the last one leaves because its
allocation fails, buffers stay on the queue, so that one may not. `ArgsThere` adds
`Reign`: which arguments are there follows from `started` and `agno`, because the loop
starts one group ahead of the processing thread and that thread joins the queueing
thread of its group before it frees them. With a stride the loop runs on by itself, and
may hand over to a group whose neighbour is freed.

*Transactions.* Three layers hold unless the flush of an inode fails. `BInv` describes
the buffer cache under one thread: where its call is (`Called`), at most one buffer for
each block, evicted ones still to be written included (`Placed`; with two threads this
is false, see `buffers_race`), and the counts (`Counted`). `InChunks` describes the
descriptors: no item has two (`Unique`), nothing is beyond the mark of a chunk, and the
free slots and the used ones make up all chunks. The lemmas on AddItem and FreeItem
work with both cases, a chunk that comes or goes and one that stays. `Joins` ties the
three places a reference is kept in together: what the descriptors list is what is
joined; the caller holds what is joined and what is its own; and the hold flag of an
item, or of an inode's, says whether it is its own. Every property of the counts
follows. Cancelling and committing walk all descriptors; what they do to an item is one
lemma each.

What buffers contain is another argument. `Invalidated` says of an item that STALE and
DIRTY exclude each other, that STALE means a freed block and DIRTY one that is not, and
that both imply a descriptor marked dirty, which is what the flags are cleared by;
cancelling a logged transaction (`CancelDirty`) breaks exactly this. `UpToDate` is the
pair of facts that need each other: a buffer that says it is valid has the last version
logged, and the disk has it too unless there is a buffer to write it. A read into a new
buffer keeps the first because of the second, as no other buffer of the block exists
then; an eviction keeps the second because of the first. The steps are sorted by what
they do to contents (`Frame`, `ReadIn`, `WriteOut`, and the log, the invalidation and
the commit), and each class is treated once. `Flushed` carries the inodes to be flushed
through the commit. The conditions of the theorems are those of the run; without them
the properties fail as described under the runs.

*xfs_copy.* The counter is the key: `num_working` is the number of targets that are
released and not finished, or still to be released (`Pending`, a set defined from
the mutexes and the places of the threads; `Countdown` says the counter is its
size). `PendingSteps` says how each step changes that set and the counter. From it
follow `Woken` (main is woken only when the set is empty) and `Quiet` (it is empty
whenever main does not wait), and with those that a refill finds every thread
asleep. `Copied` says what each target has, except the part it is `Behind` with.

## Model-checked only

Liveness under fairness, which is beyond the prover: `CallsReturn`, both `Ends`,
`Finishes`. Every other property of a passing run is the statement of a theorem.
`BufferCache` with more than one thread is only looked at by the violated run
`buffers_race`; what is proved about it is for the one thread of `Transactions`.

## Plan

Done, in this order: the cache and its contract, the driver on top of it, the
read path, the work queue, the prefetch, the buffer cache, the transactions,
xfs_copy; the invariants of the cache, its refinement and its purge, those of the
queue and of xfs_copy proved, then those of the driver and of the read path, first
for any number of threads and then for one, of the prefetch and of the transactions,
and what the driver answers and leaves behind.

Next theorem: what holds of `BufferCache` with the lock and several threads (a buffer
is in one thread's hands at a time, its count is exact), which has no run yet.

## Hazards beyond the list

`PROJECT.json` lists the hazards of the modelled core. Reading the code showed
these others, which no property covers; paths are under `src/src`, and files
without a directory are in `xfsprogs/libxfs` or, for the tools, in
`xfsprogs/<tool>`:

- `cache.c:93`: `c_maxcount` doubles without a bound.
- `init.c:711`: the inode cache is purged while `m_rootip` is referenced.
- `fuse/fuse_xfs.c:90`: an entry whose inode cannot be read is left out of a listing
  and nobody is told.
- `xfsutil/xfsutil.c:109`: the loop that drops the mapping of a directory block does
  not advance when the window ends inside it.
- `cli/cli.c:227`: the copying loop ends on 0 only, so a failed read turns it round.
- `rdwr.c:460`: a short `pread` counts as a whole one; `rdwr.c:486`: two threads with
  `use_xfs_buf_lock` off may fill one buffer at once.
- `trans.c:126`: an inode asked for twice in a transaction; `trans.c:157`:
  libxfs_trans_iput leaves `i_transp`; `trans.c:336`: a buffer invalidated and then
  logged.
- `prefetch.c:130`: the result of btree_insert is not looked at; `progress.c:214`:
  the report thread leaves its loop with the mutex locked when `running` is clear.
- `xfs_copy.c:170`: a seek that fails is followed by the write; `xfs_copy.c:232`:
  killall sends SIGKILL, which ends the process and not one thread of it.

## Not modelled, and why

- mkfs, xfs_db, xfs_fsr, xfs_io, xfs_quota, xfs_growfs, xfs_rtcp, xfs_estimate,
  xfs_logprint, xfs_mdrestore and the libraries around them: sequential tools, or
  fronts to system calls.
- The btree, allocation, directory and attribute code of libxfs: kernel code,
  sequential here; the driver reads a small part of it, of which the bmap btree is
  modelled. Directory listings (`getdents`) are the set of their entries.
- The checks of xfs_repair on what it finds on disk, and its trees of extents and
  inodes: sequential decoding. `progress.c`: it prints counters nothing else reads.
- libxlog: a sequential search and replay.
- Superblock counters of transactions, libxfs_trans_iput (one caller), the writing of
  an inode into its block.
- `cache_flush`, `cache_walk`, `cache_destroy` of the node cache: run when other
  threads are gone (what a flush does to buffers is in `BufferCache`).
- Packaging and build files; `src/fusexfs-trunk`, the same code before the port.
