------------------------------- MODULE Prefetch -------------------------------
(***************************************************************************)
(* The prefetch of xfs_repair (repair/prefetch.c) with the loops that      *)
(* start, feed and wait for it (phase3.c, dino_chunks.c, phase6.c).  For   *)
(* each allocation group a queueing thread locks the buffers of the inode  *)
(* chunks and queues them, some I/O threads take batches off the queue,    *)
(* read them, queue the directory blocks their inodes point to and unlock  *)
(* them, and a processing thread, held back until the queue has something, *)
(* locks and reads the same buffers.  The next group's queueing thread     *)
(* starts when this group's is done.                                       *)
(*                                                                         *)
(* A block is its key in io_queue (fsbno); an inode chunk is one inode     *)
(* cluster; the cache keeps every buffer, one for a block (BufferCache has *)
(* the misses that make two of them).  Which blocks make one read          *)
(* depends on distances on the disk: a batch is any run of blocks from the *)
(* front.  A chunk without a directory, which phase 6 skips in both        *)
(* threads, is left out of Clusters.  args->lock, held over several steps  *)
(* by an I/O thread, is a variable; elsewhere what it covers is one step.  *)
(*                                                                         *)
(* KeepCount, NoSignal, ... state plausible mistakes in the definition     *)
(* after them; the specification does not use them.                        *)
(***************************************************************************)
EXTENDS Integers, Sequences, FiniteSets

CONSTANTS
  AGs,          \* sb_agcount
  Clusters,     \* group -> fsbno of the cluster of each inode chunk, in order
  Dirs,         \* cluster -> directory blocks its inodes point to, in order
  Cached,       \* the sets of blocks that may be up to date at the start
  Skew,         \* group -> fsbno minus the block number on disk
  MaxQueue,     \* max_queue: initial value of ra_count
  IO_THRESHOLD,
  BatchFsbs,    \* pf_batch_fsbs
  IoThreads,    \* PF_THREAD_COUNT
  Stride,       \* ag_stride is set: a work queue runs behind the loop
  Faults,       \* what may fail: "read", "worker", "first", "memory", "queue"
  None

Groups == 0 .. AGs - 1
Blocks == (UNION {{Clusters[g][c] : c \in DOMAIN Clusters[g]} : g \in Groups})
          \cup (UNION {{Dirs[b][d] : d \in DOMAIN Dirs[b]} : b \in DOMAIN Dirs})
IsInode(b) == b \in DOMAIN Dirs   \* B_IS_INODE

\* Threads, and what can own a buffer beside them.
Main    == <<"main">>
Starter == <<"starter">>
OnQueue == <<"queue">>
Queuer(g) == <<"queuer", g>>
Io(g) == {<<"io", g, n>> : n \in 1 .. IoThreads}
Queuers == {Queuer(g) : g \in Groups}
IoAll == UNION {Io(g) : g \in Groups}
Threads == {Main, Starter} \cup Queuers \cup IoAll
AG(t) == t[2]

\* Block 0 is the superblock.  No inode cluster is a directory's block:
\* B_IS_INODE is a matter of the buffer's priority, here of its block.
ASSUME PrefetchAssumption ==
  /\ AGs \in Nat \ {0} /\ IoThreads \in Nat \ {0} /\ MaxQueue \in Nat \ {0}
  /\ IO_THRESHOLD \in Nat \ {0} /\ BatchFsbs \in Nat /\ Stride \in BOOLEAN
  /\ Clusters \in [Groups -> Seq(Nat \ {0})] /\ Skew \in [Groups -> Nat]
  /\ DOMAIN Dirs = UNION {{Clusters[g][c] : c \in DOMAIN Clusters[g]} : g \in Groups}
  /\ \A b \in DOMAIN Dirs : /\ Dirs[b] \in Seq(Nat)
                            /\ \A d \in DOMAIN Dirs[b] : ~IsInode(Dirs[b][d])
  /\ \A g \in Groups : \A c, d \in DOMAIN Clusters[g] :
       c < d => Clusters[g][c] < Clusters[g][d]
  /\ Cached \subseteq SUBSET Blocks
  /\ Faults \subseteq {"read", "worker", "first", "memory", "queue"}
  /\ None \notin Threads \cup {OnQueue}

VARIABLES
  args,     \* group -> prefetch_args_t, and whether it is there ("state")
  lock,     \* group -> owner of args->lock
  pc,       \* where a thread is
  todo,     \* what a thread has still to queue, to put or to read, in order
  owner,    \* b_lock of a buffer
  uptodate, \* LIBXFS_B_UPTODATE
  chunk,    \* thread -> number of the chunk it is at
  batch,    \* bplist of an I/O thread
  left,     \* those of it whose directories are still to be queued
  which,    \* which of the nested calls of pf_batch_read it is in
  started,  \* groups start_inode_prefetch has been called for
  agno      \* group of the processing thread

vars == <<args, lock, pc, todo, owner, uptodate, chunk, batch, left, which, started, agno>>

NoArgs ==
  [state |-> "none", io_queue |-> {}, reading |-> FALSE, processing |-> FALSE,
   queuing_done |-> FALSE, prefetch_done |-> FALSE, inode_bufs_queued |-> 0,
   last_bno_read |-> 0, ra_count |-> MaxQueue, next_args |-> FALSE]

Init ==
  /\ args = [g \in Groups |-> NoArgs] /\ lock = [g \in Groups |-> None]
  /\ pc = [t \in Threads |-> CASE t = Main -> "next" [] t = Starter -> "start"
                               [] OTHER -> "none"]
  /\ todo = [t \in Threads |-> <<>>]
  /\ owner = [b \in Blocks |-> None] /\ uptodate \in Cached
  /\ chunk = [t \in Threads |-> 0]
  /\ batch = [t \in Threads |-> {}] /\ left = [t \in Threads |-> {}]
  /\ which = [t \in Threads |-> None]
  /\ started = 0 /\ agno = 0

Goto(t, label) == pc' = [pc EXCEPT ![t] = label]
Smallest(S) == CHOOSE b \in S : \A c \in S : b <= c
Queuing(seq) == [n \in DOMAIN seq |-> [op |-> "queue", b |-> seq[n]]]

-----------------------------------------------------------------------------
(* What the flags do to sleeping threads *)

\* pf_start_io_workers and pf_start_processing: args with the flags set, and
\* the threads of the group woken if they were not.
NoSignal(g, p) == p
Woken(g, p) ==
  [t \in Threads |->
     IF t = Main /\ p[t] = "asleep" /\ agno = g THEN "wait" ELSE p[t]]
StartProcessing(g, p) == IF args[g].processing THEN p ELSE Woken(g, p)
StartReading(g, p) ==
  [t \in Threads |->
     IF t \in Io(g) /\ p[t] = "asleep" /\ ~args[g].reading THEN "woken" ELSE p[t]]

-----------------------------------------------------------------------------
(* pf_queue_io, pf_read_inode_dirs: by a queueing or an I/O thread *)

\* libxfs_getbuf, which locks the buffer.  One that is up to date is put again
\* after its directories are queued.
Getbuf(t) ==
  /\ pc[t] = "queueing" /\ todo[t] # <<>> /\ Head(todo[t]).op = "queue"
  /\ LET b == Head(todo[t]).b IN
     /\ owner[b] = None
     /\ \/ /\ b \notin uptodate
           /\ owner' = [owner EXCEPT ![b] = t]
           /\ Goto(t, "insert")
           /\ UNCHANGED todo
        \/ /\ b \in uptodate /\ IsInode(b)
           /\ owner' = [owner EXCEPT ![b] = t]
           /\ todo' = [todo EXCEPT ![t] =
                Queuing(Dirs[b]) \o <<[op |-> "put", b |-> b]>> \o Tail(@)]
           /\ UNCHANGED pc
        \/ /\ b \in uptodate /\ ~IsInode(b)
           /\ todo' = [todo EXCEPT ![t] = Tail(@)]
           /\ UNCHANGED <<owner, pc>>
  /\ UNCHANGED <<args, lock, uptodate, chunk, batch, left, which, started, agno>>

\* An inode buffer in the primary part of the queue counts.
CountAlways(g, b) == 1
Counted(g, b) == IF IsInode(b) /\ b > args[g].last_bno_read THEN 1 ELSE 0

Insert(t) ==
  LET g == AG(t)
      b == Head(todo[t]).b
      count == args[g].inode_bufs_queued + Counted(g, b)
      enough == Counted(g, b) = 1 /\ count = IO_THRESHOLD
  IN /\ pc[t] = "insert" /\ lock[g] = None
     /\ args' = [args EXCEPT ![g].io_queue = @ \cup {b},
                             ![g].inode_bufs_queued = count,
                             ![g].reading = @ \/ enough,
                             ![g].processing = TRUE]
     /\ owner' = [owner EXCEPT ![b] = OnQueue]
     /\ todo' = [todo EXCEPT ![t] = Tail(@)]
     /\ pc' = LET p == StartProcessing(g, [pc EXCEPT ![t] = "queueing"])
              IN IF enough THEN StartReading(g, p) ELSE p
     /\ UNCHANGED <<lock, uptodate, chunk, batch, left, which, started, agno>>

Putbuf(t) ==
  /\ pc[t] = "queueing" /\ todo[t] # <<>> /\ Head(todo[t]).op = "put"
  /\ owner' = [owner EXCEPT ![Head(todo[t]).b] = None]
  /\ todo' = [todo EXCEPT ![t] = Tail(@)]
  /\ UNCHANGED <<args, lock, pc, uptodate, chunk, batch, left, which, started, agno>>

-----------------------------------------------------------------------------
(* pf_queuing_worker *)

\* With no I/O thread it lets the processing go on and returns; it does not
\* hold the lock, so a thread about to sleep may miss the signal.
CreateIoThreads(q) ==
  LET g == AG(q) IN
  /\ pc[q] = "create"
  /\ \/ /\ \E n \in 1 .. IoThreads :
             /\ n = IoThreads \/ "worker" \in Faults
             /\ pc' = [t \in Threads |->
                  IF t \in {<<"io", g, m>> : m \in 1 .. n} THEN "init"
                  ELSE IF t = q THEN "chunk" ELSE pc[t]]
        /\ UNCHANGED args
     \/ /\ "first" \in Faults
        /\ args' = [args EXCEPT ![g].processing = TRUE]
        /\ LET p == [pc EXCEPT ![q] = "exited"] IN pc' = p \/ pc' = Woken(g, p)
  /\ UNCHANGED <<lock, todo, owner, uptodate, chunk, batch, left, which, started, agno>>

\* sem_wait, then the cluster of the next chunk.
NextChunk(q) ==
  LET g == AG(q) IN
  /\ pc[q] = "chunk" /\ chunk[q] < Len(Clusters[g])
  /\ args[g].ra_count > 0
  /\ args' = [args EXCEPT ![g].ra_count = @ - 1]
  /\ chunk' = [chunk EXCEPT ![q] = @ + 1]
  /\ todo' = [todo EXCEPT ![q] = Queuing(<<Clusters[g][chunk[q] + 1]>>)]
  /\ Goto(q, "queueing")
  /\ UNCHANGED <<lock, owner, uptodate, batch, left, which, started, agno>>

ChunkQueued(q) ==
  /\ q \in Queuers /\ pc[q] = "queueing" /\ todo[q] = <<>>
  /\ Goto(q, "chunk")
  /\ UNCHANGED <<args, lock, todo, owner, uptodate, chunk, batch, left, which, started, agno>>

FinishQueuing(q) ==
  LET g == AG(q) IN
  /\ pc[q] = "chunk" /\ chunk[q] = Len(Clusters[g]) /\ lock[g] = None
  /\ args' = [args EXCEPT ![g].queuing_done = TRUE, ![g].reading = TRUE,
                          ![g].processing = TRUE]
  /\ pc' = StartReading(g, StartProcessing(g, [pc EXCEPT ![q] = "join"]))
  /\ UNCHANGED <<lock, todo, owner, uptodate, chunk, batch, left, which, started, agno>>

\* pf_create_prefetch_thread: a failure frees the args, which only
\* start_inode_prefetch tells its caller.
Create(g, a, p, failed) ==
  \/ args' = a /\ pc' = [p EXCEPT ![Queuer(g)] = "create"]
  \/ "queue" \in Faults /\ args' = [a EXCEPT ![g].state = failed] /\ pc' = p

NotJoined(g) == TRUE
Joined(g) == \A w \in Io(g) : pc[w] \in {"none", "exited"}

\* The readers are joined; ASSERT(btree_is_empty(args->io_queue)) is here.
FinishPrefetch(q) ==
  LET g == AG(q)
      a == [args EXCEPT ![g].prefetch_done = TRUE]
      p == [pc EXCEPT ![q] = "exited"]
  IN /\ pc[q] = "join" /\ Joined(g) /\ lock[g] = None
     /\ IF args[g].next_args THEN Create(g + 1, a, p, "freed") ELSE args' = a /\ pc' = p
     /\ UNCHANGED <<lock, todo, owner, uptodate, chunk, batch, left, which, started, agno>>

-----------------------------------------------------------------------------
(* pf_io_worker, pf_batch_read *)

Lock(t) == lock[AG(t)] = None /\ lock' = [lock EXCEPT ![AG(t)] = t]
Unlock(t) == lock' = [lock EXCEPT ![AG(t)] = None]

IoStart(w) ==
  /\ pc[w] = "init"
  /\ \/ /\ Lock(w)
        /\ Goto(w, "test")
     \/ /\ \/ "memory" \in Faults  \* memalign
           \/ "worker" \in Faults /\ \E v \in Io(AG(w)) \ {w} : pc[v] # "none" /\ pc[v] # "exited"
        /\ Goto(w, "exited")
        /\ UNCHANGED lock
  /\ UNCHANGED <<args, todo, owner, uptodate, chunk, batch, left, which, started, agno>>

\* The outer loop's test, then the inner one's.
IoTest(w) ==
  LET g == AG(w)
      finished == pc[w] = "test" /\ args[g].queuing_done /\ args[g].io_queue = {}
      go == args[g].reading \/ args[g].queuing_done
  IN /\ pc[w] \in {"test", "retest"}
     /\ \/ /\ finished
           /\ Unlock(w)
           /\ Goto(w, "exited")
           /\ UNCHANGED which
        \/ /\ ~finished /\ ~go
           /\ Unlock(w)
           /\ Goto(w, "asleep")
           /\ UNCHANGED which
        \/ /\ ~finished /\ go
           /\ which' = [which EXCEPT ![w] = "PRIMARY"]
           /\ Goto(w, "batch")
           /\ UNCHANGED lock
     /\ UNCHANGED <<args, todo, owner, uptodate, chunk, batch, left, started, agno>>

IoWoken(w) ==
  /\ pc[w] = "woken"
  /\ Lock(w)
  /\ Goto(w, "retest")
  /\ UNCHANGED <<args, todo, owner, uptodate, chunk, batch, left, which, started, agno>>

\* The calls: PRIMARY and then SECONDARY from the worker's loop, META_ONLY and
\* then "nested" SECONDARY from within PRIMARY.
Eligible(w) ==
  LET queue == args[AG(w)].io_queue
      last == args[AG(w)].last_bno_read
  IN CASE which[w] = "PRIMARY"   -> {b \in queue : b >= last}
       [] which[w] = "META_ONLY" -> {b \in queue : b >= last /\ ~IsInode(b)}
       [] OTHER                  -> {b \in queue : b < last}

\* Metadata beyond pf_max_fsbs from the first block is out of reach.
OutOfReach(w) ==
  /\ which[w] = "META_ONLY"
  /\ \E b \in args[AG(w)].io_queue : IsInode(b) /\ b >= args[AG(w)].last_bno_read

\* bplist, the counter and last_bno_read; the lock is dropped for the read.
KeepCount(g, taken) == args[g].inode_bufs_queued
LessTaken(g, taken) ==
  args[g].inode_bufs_queued - Cardinality({b \in taken : IsInode(b)})

TakeBatch(w) ==
  LET g == AG(w) IN
  /\ pc[w] = "batch"
  /\ \E highest \in Eligible(w) :
       LET taken == {b \in Eligible(w) : b <= highest}
           first == Smallest(taken) - Skew[g]
           moves == (\E b \in taken : IsInode(b)) /\ first > BatchFsbs
       IN /\ batch' = [batch EXCEPT ![w] = taken]
          /\ owner' = [b \in Blocks |-> IF b \in taken THEN w ELSE owner[b]]
          /\ args' = [args EXCEPT
               ![g].io_queue = @ \ taken,
               ![g].inode_bufs_queued =
                 IF which[w] = "PRIMARY" THEN LessTaken(g, taken) ELSE @,
               ![g].last_bno_read =
                 IF which[w] = "PRIMARY" /\ moves THEN first ELSE @]
  /\ Unlock(w)
  /\ Goto(w, "read")
  /\ UNCHANGED <<todo, uptodate, chunk, left, which, started, agno>>

\* Nothing (more) to take: the call returns.  After the outer SECONDARY the
\* worker has run out of buffers.
BatchReturns(w) ==
  LET g == AG(w) IN
  /\ pc[w] = "batch"
  /\ Eligible(w) = {} \/ OutOfReach(w)
  /\ \/ /\ which[w] # "SECONDARY"
        /\ which' = [which EXCEPT ![w] = CASE @ = "PRIMARY" -> "SECONDARY"
                                           [] @ = "META_ONLY" -> "nested"
                                           [] OTHER -> "PRIMARY"]
        /\ UNCHANGED <<args, pc>>
     \/ /\ which[w] = "SECONDARY"
        /\ args' = [args EXCEPT ![g].reading = @ /\ args[g].queuing_done]
        /\ which' = [which EXCEPT ![w] = None]
        /\ Goto(w, "test")
  /\ UNCHANGED <<lock, todo, owner, uptodate, chunk, batch, left, started, agno>>

\* pread64: all of the batch, or the first part of it, or nothing.
ReadBatch(w) ==
  /\ pc[w] = "read"
  /\ \E got \in {{b \in batch[w] : b < limit} : limit \in batch[w]} \cup {batch[w]} :
       /\ got = batch[w] \/ "read" \in Faults
       /\ uptodate' = uptodate \cup got
       /\ left' = [left EXCEPT ![w] = {b \in got : IsInode(b)}]
  /\ Goto(w, "queueing")
  /\ UNCHANGED <<args, lock, todo, owner, chunk, batch, which, started, agno>>

\* pf_read_inode_dirs for the next buffer of the batch.
NextInodeBuf(w) ==
  LET b == Smallest(left[w]) IN
  /\ pc[w] = "queueing" /\ todo[w] = <<>> /\ left[w] # {}
  /\ todo' = [todo EXCEPT ![w] = Queuing(Dirs[b])]
  /\ left' = [left EXCEPT ![w] = @ \ {b}]
  /\ UNCHANGED <<args, lock, pc, owner, uptodate, chunk, batch, which, started, agno>>

KeepFailed(w) == batch[w] \cap uptodate
AllOfBatch(w) == batch[w]

PutBatch(w) ==
  /\ w \in IoAll /\ pc[w] = "queueing" /\ todo[w] = <<>> /\ left[w] = {}
  /\ owner' = [b \in Blocks |-> IF b \in AllOfBatch(w) THEN None ELSE owner[b]]
  /\ batch' = [batch EXCEPT ![w] = {}]
  /\ Goto(w, "relock")
  /\ UNCHANGED <<args, lock, todo, uptodate, chunk, left, which, started, agno>>

\* Few inode buffers left: the processing thread may be waiting for metadata.
Relock(w) ==
  LET g == AG(w)
      starving == which[w] = "PRIMARY" /\ ~args[g].queuing_done
                    /\ args[g].inode_bufs_queued < IO_THRESHOLD
  IN /\ pc[w] = "relock"
     /\ Lock(w)
     /\ which' = [which EXCEPT ![w] = IF starving THEN "META_ONLY" ELSE @]
     /\ Goto(w, "batch")
     /\ UNCHANGED <<args, todo, owner, uptodate, chunk, batch, left, started, agno>>

-----------------------------------------------------------------------------
(* start_inode_prefetch, called ahead of the processing thread: one group    *)
(* ahead, or as far as the loop that fills the work queues gets.             *)

Ahead == Stride \/ (pc[Main] = "next" /\ started <= agno + 1)
Before(g) == IF g = 0 THEN "none" ELSE args[g - 1].state
Start ==
  LET g == started
      a == [args EXCEPT ![g].state = "live"]
  IN /\ started < AGs /\ Ahead
     /\ \/ /\ Before(g) = "none"
           /\ Create(g, a, pc, "none")
        \/ /\ Before(g) = "live"
           /\ lock[g - 1] = None
           /\ \/ args[g - 1].prefetch_done /\ Create(g, a, pc, "none")
              \/ /\ ~args[g - 1].prefetch_done
                 /\ args' = [a EXCEPT ![g - 1].next_args = TRUE]
                 /\ UNCHANGED pc
     /\ started' = started + 1
     /\ UNCHANGED <<lock, todo, owner, uptodate, chunk, batch, left, which, agno>>

-----------------------------------------------------------------------------
(* The processing thread: wait_for_inode_prefetch, process_aginodes or       *)
(* traverse_function, cleanup_inode_prefetch                                 *)

NextGroup ==
  /\ pc[Main] = "next" /\ agno < AGs
  /\ agno < started /\ (started = AGs \/ started > agno + 1 \/ Stride)
  /\ Goto(Main, IF args[agno].state = "live" THEN "wait" ELSE "process")
  /\ UNCHANGED <<args, lock, todo, owner, uptodate, chunk, batch, left, which, started, agno>>

Wait ==
  /\ pc[Main] = "wait" /\ lock[agno] = None
  /\ Goto(Main, IF args[agno].processing THEN "process" ELSE "asleep")
  /\ UNCHANGED <<args, lock, todo, owner, uptodate, chunk, batch, left, which, started, agno>>

\* sem_post, then the blocks of the chunk: the cluster and its directories.
ProcessChunk ==
  LET b == Clusters[agno][chunk[Main] + 1] IN
  /\ pc[Main] = "process" /\ chunk[Main] < Len(Clusters[agno])
  /\ args' = [args EXCEPT ![agno].ra_count = @ + 1]
  /\ chunk' = [chunk EXCEPT ![Main] = @ + 1]
  /\ todo' = [todo EXCEPT ![Main] = Queuing(<<b>> \o Dirs[b])]
  /\ Goto(Main, "readbuf")
  /\ UNCHANGED <<lock, owner, uptodate, batch, left, which, started, agno>>

\* libxfs_readbuf: locked, and read here if it is not up to date.  Phase 3
\* keeps a cluster locked while it looks at its directories, phase 6 some
\* blocks of a directory until it has them all.
Readbuf ==
  LET b == Head(todo[Main]).b IN
  /\ pc[Main] = "readbuf" /\ todo[Main] # <<>>
  /\ owner[b] = None \/ owner[b] = Main
  /\ uptodate' = uptodate \cup {b}
  /\ owner' = owner \/ owner' = [owner EXCEPT ![b] = Main]
  /\ todo' = [todo EXCEPT ![Main] = Tail(@)]
  /\ UNCHANGED <<args, lock, pc, chunk, batch, left, which, started, agno>>

ChunkProcessed ==
  /\ pc[Main] = "readbuf" /\ todo[Main] = <<>>
  /\ owner' = [b \in Blocks |-> IF owner[b] = Main THEN None ELSE owner[b]]
  /\ Goto(Main, "process")
  /\ UNCHANGED <<args, lock, todo, uptodate, chunk, batch, left, which, started, agno>>

NotWaiting(g) == TRUE
QueuerJoined(g) == args[g].state = "live" => pc[Queuer(g)] = "exited"

\* pthread_join, free
Cleanup ==
  /\ pc[Main] = "process" /\ chunk[Main] = Len(Clusters[agno])
  /\ QueuerJoined(agno)
  /\ args' = [args EXCEPT ![agno].state = IF @ = "live" THEN "freed" ELSE @]
  /\ chunk' = [chunk EXCEPT ![Main] = 0]
  /\ agno' = agno + 1
  /\ Goto(Main, "next")
  /\ UNCHANGED <<lock, todo, owner, uptodate, batch, left, which, started>>

Ended == agno = AGs /\ UNCHANGED vars

-----------------------------------------------------------------------------
Step(t) ==
  \/ Getbuf(t) \/ Insert(t) \/ Putbuf(t)
  \/ /\ t \in Queuers
     /\ CreateIoThreads(t) \/ NextChunk(t) \/ ChunkQueued(t) \/ FinishQueuing(t)
          \/ FinishPrefetch(t)
  \/ /\ t \in IoAll
     /\ IoStart(t) \/ IoTest(t) \/ IoWoken(t) \/ TakeBatch(t) \/ BatchReturns(t)
          \/ ReadBatch(t) \/ NextInodeBuf(t) \/ PutBatch(t) \/ Relock(t)
  \/ /\ t = Main
     /\ NextGroup \/ Wait \/ ProcessChunk \/ Readbuf \/ ChunkProcessed \/ Cleanup
  \/ t = Starter /\ Start

Next == (\E t \in Threads : Step(t)) \/ Ended
Spec == Init /\ [][Next]_vars

\* Every thread is scheduled; mutexes are held for a few instructions.
FairSpec == Spec /\ \A t \in Threads : WF_vars(Step(t))

-----------------------------------------------------------------------------
(* Properties *)

\* Every variable stays in its range: neither the counter of queued inode
\* buffers nor the semaphore is ever negative.
TypeOK ==
  /\ \A g \in Groups :
       /\ args[g].state \in {"none", "live", "freed"} /\ args[g].io_queue \subseteq Blocks
       /\ args[g].inode_bufs_queued \in Nat /\ args[g].ra_count \in Nat
       /\ args[g].last_bno_read \in Nat
  /\ lock \in [Groups -> IoAll \cup {None}]
  /\ pc \in [Threads -> {"none", "next", "wait", "asleep", "process", "readbuf",
                         "start", "create", "chunk", "queueing", "insert", "join",
                         "init", "test", "woken", "retest", "batch", "read", "relock",
                         "exited"}]
  /\ owner \in [Blocks -> Threads \cup {OnQueue, None}] /\ uptodate \subseteq Blocks
  /\ batch \in [Threads -> SUBSET Blocks] /\ left \in [Threads -> SUBSET Blocks]
  /\ started \in 0 .. AGs /\ agno \in 0 .. AGs

\* A buffer is locked for the queue exactly while it is on the queue of one
\* group, and for an I/O thread while it is in its batch: none is read that
\* another thread works on, and none is forgotten with its lock held.
QueuedLocked ==
  /\ TypeOK
  /\ \A b \in Blocks :
       LET queues == {g \in Groups : b \in args[g].io_queue} IN
       /\ Cardinality(queues) <= 1
       /\ queues # {} <=> owner[b] = OnQueue
       /\ \A w \in IoAll :
            /\ b \in batch[w] => owner[b] = w
            /\ owner[b] = w => \/ b \in batch[w]
                               \/ \E n \in DOMAIN todo[w] : todo[w][n].b = b

\* The counter that starts and stops the reading of metadata is the number of
\* inode buffers on the queue, whatever the batches and the position they
\* leave last_bno_read at.
CountExact ==
  \A g \in Groups :
    args[g].inode_bufs_queued = Cardinality({b \in args[g].io_queue : IsInode(b)})

\* The assertions of pf_queue_io and pf_queuing_worker: an inode buffer is
\* never behind the reads, and nothing is left when the readers are joined.
Asserts ==
  /\ \A t \in Queuers \cup IoAll : pc[t] = "insert" /\ IsInode(Head(todo[t]).b) =>
       Head(todo[t]).b > args[AG(t)].last_bno_read
  /\ \A g \in Groups : pc[Queuer(g)] = "join" /\ Joined(g) => args[g].io_queue = {}

\* prefetch_args_t is there as long as a thread of its group runs, when the
\* next group's start locks it, and when the processing thread gets to it.
ArgsAlive ==
  /\ \A t \in Queuers \cup IoAll :
       pc[t] \notin {"none", "exited"} => args[AG(t)].state = "live"
  /\ started \in 1 .. AGs - 1 /\ Ahead => args[started - 1].state # "freed"
  /\ pc[Main] = "next" /\ agno < started => args[agno].state # "freed"

\* "Any I/O errors can be safely ignored", and the metadata is read "to avoid
\* I/O starvation as the processing thread would be waiting for a metadata
\* buffer": the phase comes to its end, with every buffer unlocked, or it gets
\* stuck for one of three reasons, and for no other.  Too few inode buffers are
\* queued to start the reading when the semaphore runs out, and the processing
\* thread waits for one that is queued.
Unread ==
  LET q == Queuer(agno) IN
  /\ pc[q] = "chunk" /\ chunk[q] < Len(Clusters[agno]) /\ args[agno].ra_count = 0
  /\ ~args[agno].reading /\ args[agno].inode_bufs_queued < IO_THRESHOLD
  /\ \A w \in Io(agno) : pc[w] \in {"none", "asleep", "exited"}
  /\ pc[Main] = "readbuf" /\ todo[Main] # <<>> /\ owner[Head(todo[Main]).b] = OnQueue
\* A group without I/O threads never says that its prefetch is done, and the
\* next is not started; or its signal finds the processing thread not asleep yet.
NeverStarted ==
  /\ agno > 0 /\ ~args[agno - 1].prefetch_done
  /\ pc[Main] = "asleep" /\ pc[Queuer(agno)] = "none"
SignalLost ==
  /\ pc[Main] = "asleep" /\ args[agno].processing
  /\ pc[Queuer(agno)] = "exited" /\ \A w \in Io(agno) : pc[w] = "none"
Finishes ==
  <>[](\/ agno = AGs /\ \A b \in Blocks : owner[b] = None
       \/ agno < AGs /\ (Unread \/ NeverStarted \/ SignalLost))
=============================================================================
