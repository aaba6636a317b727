---------------------------- MODULE PrefetchProofs ----------------------------
(***************************************************************************)
(* Theorems about Prefetch.  The invariant is built in layers, each proved *)
(* with the ones before it:                                                *)
(*   Shape    the range of the variables and where each thread can be;     *)
(*   Life     when the threads of a group run;                             *)
(*   Owned    who holds the lock of which buffer, and what is still to be  *)
(*            queued or put by whom;                                       *)
(*   InOrder  the counter of queued inode buffers, and that the clusters   *)
(*            still to come are beyond everything read or queued.          *)
(* These hold whatever fails.  Two more hold under conditions:             *)
(*   Staffed  a group that may still have buffers on its queue has an I/O  *)
(*            thread (no allocation fails);                                *)
(*   Reign    which groups' arguments are there (no stride, and every      *)
(*            queueing thread is created).                                 *)
(***************************************************************************)
EXTENDS Prefetch, FiniteSetTheorems, SequenceTheorems, WellFoundedInduction, TLAPS

-----------------------------------------------------------------------------
(* The inductive invariant *)

Jobs == [op : {"queue", "put"}, b : Blocks]

ArgsType ==
  [state : {"none", "live", "freed"}, io_queue : SUBSET Blocks, reading : BOOLEAN,
   processing : BOOLEAN, queuing_done : BOOLEAN, prefetch_done : BOOLEAN,
   inode_bufs_queued : Int, last_bno_read : Nat, ra_count : Nat, next_args : BOOLEAN]

MainPlaces == {"next", "wait", "asleep", "process", "readbuf"}
QueuerPlaces ==
  {"none", "create", "chunk", "queueing", "insert", "join", "exited"}
IoPlaces ==
  {"none", "init", "test", "retest", "asleep", "woken", "batch", "read", "queueing",
   "insert", "relock", "exited"}

Types ==
  /\ args \in [Groups -> ArgsType]
  /\ \A g \in Groups : IsFiniteSet(args[g].io_queue)
  /\ lock \in [Groups -> IoAll \cup {None}]
  /\ todo \in [Threads -> Seq(Jobs)]
  /\ owner \in [Blocks -> Threads \cup {OnQueue, None}]
  /\ uptodate \subseteq Blocks
  /\ chunk \in [Threads -> Nat]
  /\ batch \in [Threads -> SUBSET Blocks]
  /\ left \in [Threads -> SUBSET DOMAIN Dirs]
  /\ started \in 0 .. AGs /\ agno \in 0 .. AGs

InPlace(p) ==
  /\ p \in [Threads -> MainPlaces \cup {"start"} \cup QueuerPlaces \cup IoPlaces]
  /\ p[Main] \in MainPlaces /\ p[Starter] = "start"
  /\ \A q \in Queuers : p[q] \in QueuerPlaces
  /\ \A w \in IoAll : p[w] \in IoPlaces

Places ==
  /\ InPlace(pc)
  /\ pc[Main] # "next" => agno < AGs
  /\ \A t \in Queuers \cup IoAll : pc[t] = "insert" => todo[t] # <<>>
  /\ \A g \in Groups : chunk[Queuer(g)] <= Len(Clusters[g])

Shape == Types /\ Places

\* What the thread is about to insert is locked by it.
Inserting(t) ==
  pc[t] = "insert" => Head(todo[t]).op = "queue" /\ owner[Head(todo[t]).b] = t

\* A queueing thread puts an inode buffer at the very end, and holds it till
\* then; it queues one only by itself, the one of its chunk.
QueuerJob(q, n) ==
  LET job == todo[q][n] IN
  /\ job.op = "put" => n = Len(todo[q]) /\ IsInode(job.b) /\ owner[job.b] = q
  /\ job.op = "queue" /\ IsInode(job.b) =>
       /\ Len(todo[q]) = 1
       /\ chunk[q] \in DOMAIN Clusters[AG(q)] /\ job.b = Clusters[AG(q)][chunk[q]]

\* An I/O thread queues directory blocks.
IoJob(w, n) == todo[w][n].op = "queue" /\ ~IsInode(todo[w][n].b)

\* It holds the locks of its batch and of the block it is about to insert.
Batched(w) ==
  /\ batch[w] # {} => pc[w] \in {"read", "queueing", "insert"}
  /\ pc[w] = "insert" => Head(todo[w]).b \notin batch[w]
  /\ \A b \in batch[w] : owner[b] = w
  /\ \A b \in Blocks : owner[b] = w =>
       b \in batch[w] \/ (pc[w] = "insert" /\ b = Head(todo[w]).b)

Owns(t) ==
  /\ Inserting(t)
  /\ t \in Queuers => \A n \in DOMAIN todo[t] : QueuerJob(t, n)
  /\ t \in IoAll => Batched(t) /\ \A n \in DOMAIN todo[t] : IoJob(t, n)

\* What is locked for the queue is on the queue of exactly one group.
OnOneQueue ==
  /\ \A g \in Groups : \A b \in args[g].io_queue : owner[b] = OnQueue
  /\ \A g, h \in Groups : g # h => args[g].io_queue \cap args[h].io_queue = {}
  /\ \A b \in Blocks : owner[b] = OnQueue => \E g \in Groups : b \in args[g].io_queue

Owned == OnOneQueue /\ \A t \in Queuers \cup IoAll : Owns(t)

\* The inode clusters the queueing thread of a group has still to queue.
Coming(g, x) ==
  \/ \E c \in DOMAIN Clusters[g] : c > chunk[Queuer(g)] /\ x = Clusters[g][c]
  \/ \E n \in DOMAIN todo[Queuer(g)] :
       /\ todo[Queuer(g)][n].op = "queue"
       /\ IsInode(todo[Queuer(g)][n].b) /\ x = todo[Queuer(g)][n].b

Inodes(g) == {b \in args[g].io_queue : IsInode(b)}

CountOf(g) ==
  /\ args[g].inode_bufs_queued = Cardinality(Inodes(g))
  /\ \A b \in Inodes(g) : b >= args[g].last_bno_read
  /\ \A x \in Nat : Coming(g, x) =>
       x > args[g].last_bno_read /\ \A b \in Inodes(g) : x > b

InOrder == \A g \in Groups : CountOf(g)

\* The queueing thread can still queue, or has left something on the queue.
Awaited(g) ==
  \/ pc[Queuer(g)] \in {"chunk", "queueing", "insert"}
  \/ (pc[Queuer(g)] = "join" /\ args[g].io_queue # {})

Staffed ==
  \A g \in Groups :
    /\ args[g].queuing_done => pc[Queuer(g)] \in {"join", "exited"}
    /\ Awaited(g) => \E w \in Io(g) : pc[w] \notin {"none", "exited"}

LifeOf(g) ==
  /\ pc[Queuer(g)] \in {"none", "create"} => \A w \in Io(g) : pc[w] = "none"
  /\ pc[Queuer(g)] = "exited" => \A w \in Io(g) : pc[w] \in {"none", "exited"}
  /\ started <= g => pc[Queuer(g)] = "none" /\ ~args[g].next_args
  /\ args[g].next_args => g + 1 < started
  /\ args[g].next_args /\ pc[Queuer(g)] # "exited" => pc[Queuer(g + 1)] = "none"

Life == \A g \in Groups : LifeOf(g)

Reign ==
  /\ \A g \in Groups :
       /\ args[g].state = IF g < agno THEN "freed" ELSE IF g < started THEN "live" ELSE "none"
       /\ g < agno => pc[Queuer(g)] = "exited"
  /\ agno <= started
  /\ pc[Main] # "next" => started = AGs \/ started > agno + 1
  /\ pc[Main] = "next" => started = AGs \/ started > agno \/ (agno = 0 /\ started = 0)

-----------------------------------------------------------------------------
(* Facts about the threads and the helpers *)

\* Who is who: no thread is two, and each thread of a group is of that group.
LEMMA ThreadFacts ==
  /\ Main \in Threads /\ Starter \in Threads /\ Main # Starter
  /\ \A t \in Queuers \cup IoAll : t # Main /\ t # Starter /\ t \in Threads /\ AG(t) \in Groups
  /\ \A q \in Queuers : q \notin IoAll /\ q = Queuer(AG(q))
  /\ \A w \in IoAll : w \notin Queuers /\ w \in Io(AG(w))
  /\ \A g \in Groups : Queuer(g) \in Queuers /\ AG(Queuer(g)) = g
  /\ \A g \in Groups : \A w \in Io(g) : w \in IoAll /\ AG(w) = g
  /\ Threads = {Main, Starter} \cup Queuers \cup IoAll
  /\ None \notin Threads /\ OnQueue \notin Threads /\ None # OnQueue
<1>1. Main # Starter /\ \A t \in Queuers \cup IoAll : t # Main /\ t # Starter
  BY DEF Main, Starter, Queuers, IoAll, Io, Queuer
<1>2. \A q \in Queuers : q \notin IoAll /\ q = Queuer(AG(q)) /\ AG(q) \in Groups
  BY DEF Queuers, IoAll, Io, Queuer, AG
<1>3. \A w \in IoAll : w \in Io(AG(w)) /\ AG(w) \in Groups
  BY DEF IoAll, Io, AG
<1>4. \A g \in Groups : Queuer(g) \in Queuers /\ AG(Queuer(g)) = g
  BY DEF Queuers, Queuer, AG
<1>5. \A g \in Groups : \A w \in Io(g) : w \in IoAll /\ AG(w) = g
  BY DEF IoAll, Io, AG
<1>6. OnQueue \notin Threads
  BY DEF OnQueue, Threads, Main, Starter, Queuers, IoAll, Io, Queuer
<1>7. None \notin Threads /\ None # OnQueue
  BY PrefetchAssumption
<1> QED BY <1>1, <1>2, <1>3, <1>4, <1>5, <1>6, <1>7 DEF Threads

\* The shape of the constants.
LEMMA ConstantFacts ==
  /\ AGs \in Nat \ {0} /\ IoThreads \in Nat \ {0} /\ MaxQueue \in Nat \ {0}
  /\ IO_THRESHOLD \in Nat \ {0} /\ BatchFsbs \in Nat
  /\ \A g \in Groups : Clusters[g] \in Seq(Nat \ {0}) /\ Skew[g] \in Nat /\ g \in Nat
  /\ \A g \in Groups : \A c \in DOMAIN Clusters[g] :
       Clusters[g][c] \in DOMAIN Dirs /\ Clusters[g][c] \in Nat \ {0}
  /\ DOMAIN Dirs \subseteq Blocks /\ Blocks \subseteq Nat
  /\ \A b \in DOMAIN Dirs : Dirs[b] \in Seq(Blocks)
  /\ \A b \in DOMAIN Dirs : \A d \in DOMAIN Dirs[b] : ~IsInode(Dirs[b][d])
<1>1. \A g \in Groups : Clusters[g] \in Seq(Nat \ {0}) /\ Skew[g] \in Nat /\ g \in Nat
  BY PrefetchAssumption DEF Groups
<1>2. \A g \in Groups : \A c \in DOMAIN Clusters[g] :
        Clusters[g][c] \in DOMAIN Dirs /\ Clusters[g][c] \in Nat \ {0}
  BY <1>1, PrefetchAssumption
<1>3. DOMAIN Dirs \subseteq Blocks
  BY PrefetchAssumption DEF Blocks
<1>4. \A b \in DOMAIN Dirs : Dirs[b] \in Seq(Nat)
  BY PrefetchAssumption
<1>5. Blocks \subseteq Nat
  <2>1. \A b \in DOMAIN Dirs : \A d \in DOMAIN Dirs[b] : Dirs[b][d] \in Nat
    BY <1>4
  <2> QED BY <1>2, <2>1 DEF Blocks
<1>6. ASSUME NEW b \in DOMAIN Dirs PROVE Dirs[b] \in Seq(Blocks)
  <2>1. Dirs[b] \in Seq(Nat)
    BY <1>4, <1>6
  <2>2. \A d \in 1 .. Len(Dirs[b]) : Dirs[b][d] \in Blocks
    BY <1>6, <2>1 DEF Blocks
  <2> QED BY <2>1, <2>2
<1> QED BY <1>1, <1>2, <1>3, <1>5, <1>6, PrefetchAssumption

\* A set of block numbers has a smallest element.
LEMMA SmallestFact ==
  ASSUME NEW S, S \subseteq Nat, S # {}
  PROVE  Smallest(S) \in S /\ \A c \in S : Smallest(S) <= c
<1> DEFINE Less == {ss \in Nat \X Nat : ss[1] < ss[2]}
<1>1. IsWellFoundedOn(Less, Nat)
  BY NatLessThanWellFounded DEF OpToRel
<1> HIDE DEF Less
<1>2. PICK b \in S : \A c \in S : ~(<<c, b>> \in Less)
  BY <1>1, WFMin
<1>3. ASSUME NEW c \in S PROVE b <= c
  <2>1. c \in Nat /\ b \in Nat /\ ~(<<c, b>> \in Less)
    BY <1>2, <1>3
  <2>2. ~(c < b)
    BY <2>1, <<c, b>> \in Nat \X Nat, <<c, b>>[1] = c, <<c, b>>[2] = b DEF Less
  <2> QED BY <2>1, <2>2
<1> QED BY <1>3 DEF Smallest

\* The directories of a cluster as jobs.
LEMMA QueuingFact ==
  ASSUME NEW seq \in Seq(Blocks)
  PROVE  /\ Queuing(seq) \in Seq(Jobs) /\ Len(Queuing(seq)) = Len(seq)
         /\ \A n \in DOMAIN Queuing(seq) :
              n \in DOMAIN seq /\ Queuing(seq)[n] = [op |-> "queue", b |-> seq[n]]
<1>1. /\ Queuing(seq) = [n \in 1 .. Len(seq) |-> [op |-> "queue", b |-> seq[n]]]
      /\ DOMAIN seq = 1 .. Len(seq) /\ Len(seq) \in Nat
  BY DEF Queuing
<1>2. \A n \in 1 .. Len(seq) : [op |-> "queue", b |-> seq[n]] \in Jobs
  BY DEF Jobs
<1>3. Queuing(seq) \in Seq(Jobs) /\ Len(Queuing(seq)) = Len(seq)
  BY <1>1, <1>2
<1> QED BY <1>1, <1>3

-----------------------------------------------------------------------------
(* Shape: the range of the variables and the places of the threads *)

\* The specification starts in it.
LEMMA ShapeInit == Init => Shape
<1> SUFFICES ASSUME Init PROVE Shape
  OBVIOUS
<1>1. NoArgs \in ArgsType /\ NoArgs.io_queue = {}
  BY ConstantFacts DEF NoArgs, ArgsType
<1>2. args \in [Groups -> ArgsType] /\ \A g \in Groups : IsFiniteSet(args[g].io_queue)
  BY <1>1, FS_EmptySet DEF Init
<1>3. /\ lock \in [Groups -> IoAll \cup {None}] /\ owner \in [Blocks -> Threads \cup {OnQueue, None}]
      /\ uptodate \subseteq Blocks /\ started \in 0 .. AGs /\ agno \in 0 .. AGs
  BY PrefetchAssumption, ConstantFacts DEF Init
<1>4. /\ todo \in [Threads -> Seq(Jobs)] /\ chunk \in [Threads -> Nat]
      /\ batch \in [Threads -> SUBSET Blocks] /\ left \in [Threads -> SUBSET DOMAIN Dirs]
  BY DEF Init
<1>5. pc[Main] = "next" /\ pc[Starter] = "start"
  BY ThreadFacts DEF Init
<1>6. \A t \in Queuers \cup IoAll : pc[t] = "none"
  BY ThreadFacts DEF Init
<1>7. pc \in [Threads -> MainPlaces \cup {"start"} \cup QueuerPlaces \cup IoPlaces]
  <2>1. pc = [t \in Threads |-> pc[t]]
    BY DEF Init
  <2>2. \A t \in Threads : pc[t] \in {"next", "start", "none"}
    BY <1>5, <1>6, ThreadFacts
  <2> QED BY <2>1, <2>2 DEF MainPlaces, QueuerPlaces
<1>8. \A g \in Groups : chunk[Queuer(g)] <= Len(Clusters[g])
  BY ThreadFacts, ConstantFacts DEF Init
<1>9. Types BY <1>2, <1>3, <1>4 DEF Types
<1>10. Places
  BY <1>5, <1>6, <1>7, <1>8 DEF Places, InPlace, MainPlaces, QueuerPlaces, IoPlaces
<1> QED BY <1>9, <1>10 DEF Shape

\* Who can be where.
LEMMA PlaceFacts ==
  ASSUME Shape, NEW t \in Threads
  PROVE  /\ pc[t] \in {"queueing", "insert"} => t \in Queuers \cup IoAll
         /\ pc[t] \in {"create", "chunk", "join"} => t \in Queuers
         /\ pc[t] \in {"init", "test", "retest", "woken", "batch", "read", "relock"} => t \in IoAll
         /\ pc[t] \in {"next", "wait", "process", "readbuf"} => t = Main
         /\ t \in IoAll /\ pc[t] = "queueing" => t \notin Queuers
<1>1. t \in Queuers \/ t \in IoAll \/ t = Main \/ t = Starter
  BY ThreadFacts
<1> QED BY <1>1, ThreadFacts DEF Shape, Places, InPlace, QueuerPlaces, IoPlaces, MainPlaces

\* The first job of a thread that has one.
LEMMA HeadFact ==
  ASSUME Types, NEW t \in Threads, todo[t] # <<>>
  PROVE  /\ Head(todo[t]) \in Jobs /\ Head(todo[t]).b \in Blocks
         /\ Head(todo[t]) = todo[t][1] /\ 1 \in DOMAIN todo[t]
         /\ Tail(todo[t]) \in Seq(Jobs) /\ Len(Tail(todo[t])) = Len(todo[t]) - 1
         /\ Len(todo[t]) \in Nat \ {0}
         /\ \A n \in DOMAIN Tail(todo[t]) : /\ n + 1 \in DOMAIN todo[t]
                                            /\ Tail(todo[t])[n] = todo[t][n + 1]
<1>1. todo[t] \in Seq(Jobs)
  BY DEF Types
<1>2. Head(todo[t]) \in Jobs /\ Tail(todo[t]) \in Seq(Jobs)
      /\ Len(Tail(todo[t])) = Len(todo[t]) - 1 /\ Len(todo[t]) \in Nat \ {0}
  BY <1>1
<1>3. \A n \in DOMAIN Tail(todo[t]) :
        n + 1 \in DOMAIN todo[t] /\ Tail(todo[t])[n] = todo[t][n + 1]
  BY <1>1, <1>2
<1>4. Head(todo[t]) = todo[t][1] /\ 1 \in DOMAIN todo[t]
  BY <1>1, <1>2
<1> QED BY <1>2, <1>3, <1>4 DEF Jobs

\* A thread that moves among the places of its kind leaves all in place.
LEMMA MoveInPlace ==
  ASSUME NEW p, InPlace(p), NEW t \in Threads, NEW label,
         \/ t \in Queuers /\ label \in QueuerPlaces
         \/ t \in IoAll /\ label \in IoPlaces
         \/ t = Main /\ label \in MainPlaces
  PROVE  /\ InPlace([p EXCEPT ![t] = label])
         /\ t # Main => [p EXCEPT ![t] = label][Main] = p[Main]
<1> DEFINE r == [p EXCEPT ![t] = label]
<1>1. /\ r \in [Threads -> MainPlaces \cup {"start"} \cup QueuerPlaces \cup IoPlaces]
      /\ \A u \in Threads : r[u] = IF u = t THEN label ELSE p[u]
  BY DEF InPlace
<1> HIDE DEF r
<1>2. r[Main] \in MainPlaces /\ r[Starter] = "start" /\ (t # Main => r[Main] = p[Main])
  BY <1>1, ThreadFacts DEF InPlace
<1>3. \A q \in Queuers : r[q] \in QueuerPlaces
  BY <1>1, ThreadFacts DEF InPlace
<1>4. \A w \in IoAll : r[w] \in IoPlaces
  BY <1>1, ThreadFacts DEF InPlace
<1>5. InPlace(r) /\ (t # Main => r[Main] = p[Main])
  BY <1>1, <1>2, <1>3, <1>4 DEF InPlace
<1> QED BY <1>5 DEF r

\* So do the wake-ups.
LEMMA WakeInPlace ==
  ASSUME NEW g \in Groups, NEW p, InPlace(p)
  PROVE  /\ InPlace(StartProcessing(g, p)) /\ InPlace(StartReading(g, p)) /\ InPlace(Woken(g, p))
         /\ StartProcessing(g, p)[Main] = "next" <=> p[Main] = "next"
         /\ StartReading(g, p)[Main] = "next" <=> p[Main] = "next"
         /\ Woken(g, p)[Main] = "next" <=> p[Main] = "next"
         /\ \A t \in Queuers \cup IoAll :
              /\ StartProcessing(g, p)[t] = p[t] /\ Woken(g, p)[t] = p[t]
              /\ StartReading(g, p)[t] = p[t]
                   \/ (t \in Io(g) /\ p[t] = "asleep" /\ StartReading(g, p)[t] = "woken")
<1>0. \A t \in Queuers \cup IoAll :
        /\ Woken(g, p)[t] = p[t]
        /\ StartReading(g, p)[t] = p[t]
             \/ (t \in Io(g) /\ p[t] = "asleep" /\ StartReading(g, p)[t] = "woken")
  BY ThreadFacts DEF Woken, StartReading
<1>1. /\ InPlace(Woken(g, p))
      /\ Woken(g, p)[Main] = "next" <=> p[Main] = "next"
  <2>1. /\ DOMAIN Woken(g, p) = Threads /\ Woken(g, p) = [u \in Threads |-> Woken(g, p)[u]]
        /\ \A t \in Threads : t # Main => Woken(g, p)[t] = p[t]
    BY DEF Woken
  <2>2. Woken(g, p)[Main] = p[Main] \/ (p[Main] = "asleep" /\ Woken(g, p)[Main] = "wait")
    BY ThreadFacts DEF Woken
  <2>3. Woken(g, p)[Main] \in MainPlaces /\ Woken(g, p)[Starter] = "start"
    BY <2>1, <2>2, ThreadFacts DEF InPlace, MainPlaces
  <2>4. \A t \in Queuers \cup IoAll : Woken(g, p)[t] = p[t]
    BY <2>1, ThreadFacts
  <2>5. \A t \in Threads :
          Woken(g, p)[t] \in MainPlaces \cup {"start"} \cup QueuerPlaces \cup IoPlaces
    BY <2>3, <2>4, ThreadFacts DEF InPlace
  <2> QED BY <2>1, <2>2, <2>3, <2>4, <2>5, ThreadFacts DEF InPlace
<1>2. /\ InPlace(StartReading(g, p))
      /\ StartReading(g, p)[Main] = "next" <=> p[Main] = "next"
  <2> DEFINE r == StartReading(g, p)
  <2>1. DOMAIN r = Threads /\ r = [u \in Threads |-> r[u]]
        /\ \A t \in Threads : r[t] = p[t]
             \/ (t \in IoAll /\ p[t] = "asleep" /\ r[t] = "woken")
    BY ThreadFacts DEF StartReading
  <2> HIDE DEF r
  <2>2. \A t \in Threads : t \notin IoAll => r[t] = p[t]
    BY <2>1
  <2>3. \A w \in IoAll : r[w] \in IoPlaces
    BY <2>1, ThreadFacts DEF InPlace, IoPlaces
  <2>4. \A t \in Threads : r[t] \in MainPlaces \cup {"start"} \cup QueuerPlaces \cup IoPlaces
    BY <2>2, <2>3 DEF InPlace
  <2>5. InPlace(r) /\ (r[Main] = "next" <=> p[Main] = "next")
    <3>1. r \in [Threads -> MainPlaces \cup {"start"} \cup QueuerPlaces \cup IoPlaces]
      BY <2>1, <2>4, Zenon
    <3>2. r[Main] = p[Main] /\ r[Starter] = p[Starter] /\ \A q \in Queuers : r[q] = p[q]
      BY <2>2, ThreadFacts
    <3> QED BY <2>3, <3>1, <3>2 DEF InPlace
  <2> QED BY <2>5 DEF r
<1> QED BY <1>0, <1>1, <1>2 DEF StartProcessing

\* pf_start_processing, and pf_start_io_workers after it.
LEMMA WakeMoves ==
  ASSUME NEW g \in Groups, NEW p, InPlace(p), NEW s,
         s = StartProcessing(g, p) \/ s = StartReading(g, StartProcessing(g, p))
  PROVE  /\ InPlace(s) /\ (s[Main] = "next" <=> p[Main] = "next")
         /\ \A u \in Queuers \cup IoAll :
              s[u] = p[u] \/ (u \in Io(g) /\ p[u] = "asleep" /\ s[u] = "woken")
<1>1. PICK r : r = StartProcessing(g, p)
  OBVIOUS
<1>2. /\ InPlace(r) /\ (r[Main] = "next" <=> p[Main] = "next")
      /\ \A u \in Queuers \cup IoAll : r[u] = p[u]
  BY <1>1, WakeInPlace
<1>3. CASE s = r
  BY <1>2, <1>3
<1>4. CASE s = StartReading(g, r)
  <2>1. /\ InPlace(s) /\ (s[Main] = "next" <=> r[Main] = "next")
        /\ \A u \in Queuers \cup IoAll :
             s[u] = r[u] \/ (u \in Io(g) /\ r[u] = "asleep" /\ s[u] = "woken")
    BY <1>2, <1>4, WakeInPlace
  <2> QED BY <1>2, <2>1
<1> QED BY <1>1, <1>3, <1>4

\* A step that updates the arguments of one group.
LEMMA RecordUpdate ==
  ASSUME args \in [Groups -> ArgsType], NEW g \in Groups, NEW rec \in ArgsType,
         args' = [args EXCEPT ![g] = rec]
  PROVE  args' \in [Groups -> ArgsType] /\ args'[g] = rec
         /\ \A h \in Groups \ {g} : args'[h] = args[h]
OBVIOUS

\* pf_queue_io's insertion, in the fields the invariant speaks of.
LEMMA InsertEffect ==
  ASSUME Shape, NEW t \in Threads, Insert(t), NEW g, g = AG(t), NEW b, b = Head(todo[t]).b
  PROVE  /\ t \in Queuers \cup IoAll /\ t # Main /\ g \in Groups /\ pc[t] = "insert"
         /\ lock[g] = None /\ todo[t] # <<>> /\ b \in Blocks /\ Tail(todo[t]) \in Seq(Jobs)
         /\ \A h \in Groups \ {g} : args'[h] = args[h]
         /\ args' \in [Groups -> ArgsType]
         /\ args'[g].io_queue = args[g].io_queue \cup {b}
         /\ args'[g].inode_bufs_queued = args[g].inode_bufs_queued + Counted(g, b)
         /\ args'[g].last_bno_read = args[g].last_bno_read
         /\ args'[g].state = args[g].state /\ args'[g].queuing_done = args[g].queuing_done
         /\ args'[g].next_args = args[g].next_args
<1>1. t \in Queuers \cup IoAll /\ t # Main /\ g \in Groups /\ pc[t] = "insert" /\ lock[g] = None
  BY PlaceFacts, ThreadFacts DEF Insert
<1>2. todo[t] # <<>>
  BY <1>1 DEF Shape, Places
<1>3. b \in Blocks /\ Tail(todo[t]) \in Seq(Jobs)
  BY <1>2, HeadFact DEF Shape
<1>4. args \in [Groups -> ArgsType]
  BY DEF Shape, Types
<1>5. PICK a \in ArgsType : a = args[g]
  BY <1>1, <1>4
<1>6. PICK count \in Int : count = a.inode_bufs_queued + Counted(g, b)
  BY <1>5 DEF ArgsType, Counted
<1>7. PICK enough \in BOOLEAN : enough = (a.reading \/ (Counted(g, b) = 1 /\ count = IO_THRESHOLD))
  OBVIOUS
<1>8. PICK rec : rec = [a EXCEPT !.io_queue = a.io_queue \cup {b}, !.inode_bufs_queued = count,
                                 !.reading = enough, !.processing = TRUE]
  OBVIOUS
<1>9. rec \in ArgsType
  BY <1>3, <1>8 DEF ArgsType
<1>10. args' = [args EXCEPT ![g] = rec]
  BY <1>5, <1>6, <1>7, <1>8 DEF Insert
<1>11. /\ args' \in [Groups -> ArgsType] /\ args'[g] = rec
       /\ \A h \in Groups \ {g} : args'[h] = args[h]
  BY <1>1, <1>4, <1>9, <1>10, RecordUpdate
<1>12. /\ rec.io_queue = a.io_queue \cup {b} /\ rec.inode_bufs_queued = count
       /\ rec.last_bno_read = a.last_bno_read /\ rec.state = a.state
       /\ rec.queuing_done = a.queuing_done /\ rec.next_args = a.next_args
  BY <1>8 DEF ArgsType
<1> QED BY <1>1, <1>2, <1>3, <1>5, <1>6, <1>11, <1>12
\* Where the threads are after an insertion.
LEMMA InsertMoves ==
  ASSUME Shape, NEW t \in Threads, Insert(t)
  PROVE  /\ InPlace(pc') /\ (pc'[Main] = "next" <=> pc[Main] = "next")
         /\ pc'[t] = "queueing"
         /\ \A u \in (Queuers \cup IoAll) \ {t} : pc'[u] = pc[u]
              \/ (u \in Io(AG(t)) /\ pc[u] = "asleep" /\ pc'[u] = "woken")
<1>1. t \in Queuers \cup IoAll /\ t # Main /\ AG(t) \in Groups /\ InPlace(pc)
  BY InsertEffect DEF Shape, Places
<1>2. PICK g, p, s : g = AG(t) /\ p = [pc EXCEPT ![t] = "queueing"] /\ s = pc'
  OBVIOUS
<1>3. InPlace(p) /\ p[Main] = pc[Main]
  BY <1>1, <1>2, MoveInPlace DEF QueuerPlaces, IoPlaces
<1>4. p[t] = "queueing" /\ \A u \in Threads \ {t} : p[u] = pc[u]
  BY <1>1, <1>2 DEF InPlace
<1>5. s = StartProcessing(g, p) \/ s = StartReading(g, StartProcessing(g, p))
  BY <1>2 DEF Insert
<1>6. /\ InPlace(s) /\ (s[Main] = "next" <=> p[Main] = "next")
      /\ \A u \in Queuers \cup IoAll :
           s[u] = p[u] \/ (u \in Io(g) /\ p[u] = "asleep" /\ s[u] = "woken")
  <2>1. g \in Groups
    BY <1>1, <1>2
  <2> QED BY <1>3, <1>5, <2>1, WakeMoves
<1> QED BY <1>1, <1>2, <1>3, <1>4, <1>6, ThreadFacts

\* Where they are when the queueing thread has queued all.
LEMMA FinishMoves ==
  ASSUME Shape, NEW q \in Queuers, FinishQueuing(q)
  PROVE  /\ InPlace(pc') /\ (pc'[Main] = "next" <=> pc[Main] = "next")
         /\ pc'[q] = "join"
         /\ \A u \in (Queuers \cup IoAll) \ {q} : pc'[u] = pc[u]
              \/ (u \in Io(AG(q)) /\ pc[u] = "asleep" /\ pc'[u] = "woken")
<1>1. q \in Threads /\ q # Main /\ AG(q) \in Groups /\ InPlace(pc)
  BY ThreadFacts DEF Shape, Places
<1>2. PICK g, p, s : g = AG(q) /\ p = [pc EXCEPT ![q] = "join"] /\ s = pc'
  OBVIOUS
<1>3. InPlace(p) /\ p[Main] = pc[Main]
  BY <1>1, <1>2, MoveInPlace DEF QueuerPlaces
<1>4. p[q] = "join" /\ \A u \in Threads \ {q} : p[u] = pc[u]
  BY <1>1, <1>2 DEF InPlace
<1>5. s = StartReading(g, StartProcessing(g, p))
  BY <1>2 DEF FinishQueuing
<1>6. /\ InPlace(s) /\ (s[Main] = "next" <=> p[Main] = "next")
      /\ \A u \in Queuers \cup IoAll :
           s[u] = p[u] \/ (u \in Io(g) /\ p[u] = "asleep" /\ s[u] = "woken")
  <2>1. g \in Groups
    BY <1>1, <1>2
  <2> QED BY <1>3, <1>5, <2>1, WakeMoves
<1> QED BY <1>1, <1>2, <1>3, <1>4, <1>6, ThreadFacts

\* Each step of a thread that queues keeps the shape.
LEMMA ShapeQueuing ==
  ASSUME Shape, NEW t \in Threads, Getbuf(t) \/ Insert(t) \/ Putbuf(t)
  PROVE  Shape'
<1> USE DEF Shape
<1>0. Types /\ Places /\ todo[t] \in Seq(Jobs)
  BY DEF Types
<1>1. CASE Getbuf(t)
  <2> USE <1>1
  <2>1. t \in Queuers \cup IoAll /\ t # Main /\ todo[t] # <<>>
    BY PlaceFacts, ThreadFacts DEF Getbuf
  <2>2. Head(todo[t]).b \in Blocks /\ Tail(todo[t]) \in Seq(Jobs)
    BY <1>0, <2>1, HeadFact
  <2>3. pc' = pc \/ pc' = [pc EXCEPT ![t] = "insert"]
    BY DEF Getbuf, Goto
  <2>4. InPlace(pc') /\ pc'[Main] = pc[Main]
    <3>1. InPlace([pc EXCEPT ![t] = "insert"]) /\ [pc EXCEPT ![t] = "insert"][Main] = pc[Main]
      BY <1>0, <2>1, MoveInPlace DEF Places, QueuerPlaces, IoPlaces
    <3> QED BY <1>0, <2>3, <3>1 DEF Places
  <2>5. Places'
    <3>1. ASSUME NEW u \in Queuers \cup IoAll, pc'[u] = "insert" PROVE todo'[u] # <<>>
      <4>1. u \in Threads /\ (u # t => pc'[u] = pc[u] /\ todo'[u] = todo[u])
        BY <1>0, <3>1, ThreadFacts DEF Getbuf, Goto, Types, Places, InPlace
      <4>2. u = t => todo' = todo
        BY <3>1 DEF Getbuf, Goto
      <4> QED BY <1>0, <2>1, <3>1, <4>1, <4>2 DEF Places
    <3> QED BY <1>0, <2>4, <3>1 DEF Places, Getbuf
  <2>6. todo' \in [Threads -> Seq(Jobs)]
    <3>1. CASE todo' = todo BY <1>0, <3>1 DEF Types
    <3>2. CASE todo' = [todo EXCEPT ![t] = Tail(@)] BY <1>0, <2>2, <3>2 DEF Types
    <3>3. CASE IsInode(Head(todo[t]).b)
               /\ todo' = [todo EXCEPT ![t] = Queuing(Dirs[Head(todo[t]).b])
                             \o <<[op |-> "put", b |-> Head(todo[t]).b]>> \o Tail(@)]
      <4>1. Queuing(Dirs[Head(todo[t]).b]) \in Seq(Jobs)
        BY <3>3, QueuingFact, ConstantFacts DEF IsInode
      <4>2. [op |-> "put", b |-> Head(todo[t]).b] \in Jobs
        BY <2>2 DEF Jobs
      <4>3. Queuing(Dirs[Head(todo[t]).b])
              \o <<[op |-> "put", b |-> Head(todo[t]).b]>> \o Tail(todo[t]) \in Seq(Jobs)
        BY <2>2, <4>1, <4>2
      <4> QED BY <1>0, <3>3, <4>3 DEF Types
    <3> QED BY <3>1, <3>2, <3>3 DEF Getbuf
  <2>7. owner' \in [Blocks -> Threads \cup {OnQueue, None}]
    BY <1>0 DEF Types, Getbuf
  <2> QED BY <1>0, <2>5, <2>6, <2>7 DEF Types, Getbuf
<1>2. CASE Insert(t)
  <2>0. PICK g, b : g = AG(t) /\ b = Head(todo[t]).b
    OBVIOUS
  <2>1. /\ t \in Queuers \cup IoAll /\ t # Main /\ g \in Groups
        /\ b \in Blocks /\ Tail(todo[t]) \in Seq(Jobs)
        /\ args' \in [Groups -> ArgsType]
        /\ args'[g].io_queue = args[g].io_queue \cup {b}
        /\ \A h \in Groups \ {g} : args'[h] = args[h]
    BY <1>2, <2>0, InsertEffect
  <2>3. /\ InPlace(pc') /\ (pc'[Main] = "next" <=> pc[Main] = "next")
        /\ \A u \in Queuers \cup IoAll : pc'[u] = "insert" => u # t /\ pc[u] = "insert"
    BY <1>2, InsertMoves
  <2>4. \A h \in Groups : IsFiniteSet(args'[h].io_queue)
    <3>1. IsFiniteSet(args[g].io_queue \cup {b})
      BY <1>0, <2>1, FS_AddElement, Zenon DEF Types
    <3> QED BY <1>0, <2>1, <3>1 DEF Types
  <2>5. todo' = [todo EXCEPT ![t] = Tail(@)] /\ owner' = [owner EXCEPT ![b] = OnQueue]
        /\ UNCHANGED <<lock, uptodate, chunk, batch, left, started, agno>>
    BY <1>2, <2>0 DEF Insert
  <2>6. Types'
    <3>1. todo' \in [Threads -> Seq(Jobs)] /\ owner' \in [Blocks -> Threads \cup {OnQueue, None}]
      BY <1>0, <2>1, <2>5 DEF Types
    <3> QED BY <1>0, <2>1, <2>4, <2>5, <3>1 DEF Types
  <2>7. Places'
    <3>1. ASSUME NEW u \in Queuers \cup IoAll, pc'[u] = "insert" PROVE todo'[u] # <<>>
      <4>1. u # t /\ pc[u] = "insert"
        BY <2>3, <3>1
      <4> QED BY <1>0, <2>5, <3>1, <4>1, ThreadFacts DEF Places, Types
    <3> QED BY <1>0, <2>3, <2>5, <3>1 DEF Places
  <2> QED BY <2>6, <2>7
<1>3. CASE Putbuf(t)
  <2> USE <1>3
  <2>1. todo[t] # <<>>
    BY DEF Putbuf
  <2>2. Head(todo[t]).b \in Blocks /\ Tail(todo[t]) \in Seq(Jobs)
    BY <1>0, <2>1, HeadFact
  <2>3. todo' \in [Threads -> Seq(Jobs)] /\ owner' \in [Blocks -> Threads \cup {OnQueue, None}]
    BY <1>0, <2>2 DEF Types, Putbuf
  <2>4. Places'
    <3>1. ASSUME NEW u \in Queuers \cup IoAll, pc[u] = "insert" PROVE todo'[u] # <<>>
      <4>1. u # t
        BY <3>1 DEF Putbuf
      <4> QED BY <1>0, <3>1, <4>1, ThreadFacts DEF Places, Types, Putbuf
    <3> QED BY <1>0, <3>1 DEF Places, Putbuf
  <2> QED BY <1>0, <2>3, <2>4 DEF Types, Putbuf
<1> QED BY <1>1, <1>2, <1>3

\* Steps that leave the queues, the groups' state and the flag alone.
SameQueues ==
  \A h \in Groups : /\ args'[h].io_queue = args[h].io_queue
                    /\ args'[h].inode_bufs_queued = args[h].inode_bufs_queued
                    /\ args'[h].last_bno_read = args[h].last_bno_read
SameReign ==
  \A h \in Groups : args'[h].state = args[h].state /\ args'[h].next_args = args[h].next_args
SameDone ==
  \A h \in Groups : args'[h].queuing_done = args[h].queuing_done
SameArgs == args' \in [Groups -> ArgsType] /\ SameQueues /\ SameReign /\ SameDone

\* Steps that move flags nothing else depends on, or the semaphore.
LEMMA ArgsKept ==
  ASSUME Shape, NEW g \in Groups, NEW reading \in BOOLEAN, NEW processing \in BOOLEAN,
         NEW done \in BOOLEAN, NEW count \in Nat,
         args' = [args EXCEPT ![g] = [@ EXCEPT !.reading = reading, !.processing = processing,
                                               !.prefetch_done = done, !.ra_count = count]]
  PROVE  SameArgs
<1>1. args \in [Groups -> ArgsType]
  BY DEF Shape, Types
<1>2. PICK rec : rec = [args[g] EXCEPT !.reading = reading, !.processing = processing,
                                       !.prefetch_done = done, !.ra_count = count]
  OBVIOUS
<1>3. rec \in ArgsType
  BY <1>1, <1>2 DEF ArgsType
<1>4. /\ rec.io_queue = args[g].io_queue /\ rec.inode_bufs_queued = args[g].inode_bufs_queued
      /\ rec.last_bno_read = args[g].last_bno_read /\ rec.state = args[g].state
      /\ rec.next_args = args[g].next_args /\ rec.queuing_done = args[g].queuing_done
  BY <1>1, <1>2 DEF ArgsType
<1>5. args' = [args EXCEPT ![g] = rec]
  BY <1>2
<1>6. /\ args' \in [Groups -> ArgsType] /\ args'[g] = rec
      /\ \A h \in Groups \ {g} : args'[h] = args[h]
  BY <1>1, <1>3, <1>5, RecordUpdate
<1> QED BY <1>4, <1>6 DEF SameArgs, SameQueues, SameReign, SameDone

\* pf_queuing_worker's steps.
LEMMA QueuerArgs ==
  ASSUME Shape, NEW q \in Queuers
  PROVE  /\ CreateIoThreads(q) \/ NextChunk(q) => SameArgs
         /\ FinishQueuing(q) =>
              /\ args' \in [Groups -> ArgsType] /\ SameQueues /\ SameReign
              /\ \A h \in Groups :
                   args'[h].queuing_done = (args[h].queuing_done \/ h = AG(q))
         /\ FinishPrefetch(q) =>
              /\ args' \in [Groups -> ArgsType] /\ SameQueues /\ SameDone
              /\ \A h \in Groups : args'[h].next_args = args[h].next_args
              /\ SameReign \/ "queue" \in Faults
<1>1. AG(q) \in Groups
  BY ThreadFacts
<1>2. PICK g \in Groups : g = AG(q)
  BY <1>1
<1>3. args \in [Groups -> ArgsType] /\ args[g] \in ArgsType
  BY DEF Shape, Types
<1>4. ASSUME CreateIoThreads(q) PROVE SameArgs
  <2>1. CASE args' = args
    BY <1>3, <2>1 DEF SameArgs, SameQueues, SameReign, SameDone
  <2>2. CASE args' = [args EXCEPT ![g].processing = TRUE]
    <3>1. args' = [args EXCEPT ![g] = [@ EXCEPT !.reading = args[g].reading, !.processing = TRUE,
                     !.prefetch_done = args[g].prefetch_done, !.ra_count = args[g].ra_count]]
      BY <1>3, <2>2 DEF ArgsType
    <3> QED BY <1>3, <3>1, ArgsKept DEF ArgsType
  <2> QED BY <1>2, <1>4, <2>1, <2>2 DEF CreateIoThreads
<1>5. ASSUME NextChunk(q) PROVE SameArgs
  <2>1. args' = [args EXCEPT ![g].ra_count = args[g].ra_count - 1]
    BY <1>2, <1>3, <1>5 DEF NextChunk
  <2>2. PICK count \in Nat : count = args[g].ra_count - 1
    BY <1>2, <1>3, <1>5 DEF NextChunk, ArgsType
  <2>3. args' = [args EXCEPT ![g] = [@ EXCEPT !.reading = args[g].reading,
                   !.processing = args[g].processing, !.prefetch_done = args[g].prefetch_done,
                   !.ra_count = count]]
    BY <1>3, <2>1, <2>2 DEF ArgsType
  <2> QED BY <1>3, <2>3, ArgsKept DEF ArgsType
<1>6. ASSUME FinishQueuing(q)
      PROVE  /\ args' \in [Groups -> ArgsType] /\ SameQueues /\ SameReign
             /\ \A h \in Groups : args'[h].queuing_done = (args[h].queuing_done \/ h = AG(q))
  <2>1. PICK rec : rec = [args[g] EXCEPT !.queuing_done = TRUE, !.reading = TRUE,
                                         !.processing = TRUE]
    OBVIOUS
  <2>2. rec \in ArgsType
    BY <1>3, <2>1 DEF ArgsType
  <2>3. /\ rec.io_queue = args[g].io_queue /\ rec.inode_bufs_queued = args[g].inode_bufs_queued
        /\ rec.last_bno_read = args[g].last_bno_read /\ rec.state = args[g].state
        /\ rec.next_args = args[g].next_args /\ rec.queuing_done = TRUE
    BY <1>3, <2>1 DEF ArgsType
  <2>4. args' = [args EXCEPT ![g] = rec]
    BY <1>2, <1>6, <2>1 DEF FinishQueuing
  <2>5. /\ args' \in [Groups -> ArgsType] /\ args'[g] = rec
        /\ \A h \in Groups \ {g} : args'[h] = args[h]
    BY <1>3, <2>2, <2>4, RecordUpdate
  <2>6. \A h \in Groups : args'[h].queuing_done = (args[h].queuing_done \/ h = g)
    <3>1. \A h \in Groups : args[h].queuing_done \in BOOLEAN
      BY <1>3 DEF ArgsType
    <3> QED BY <2>3, <2>5, <3>1
  <2> QED BY <1>2, <2>3, <2>5, <2>6 DEF SameQueues, SameReign
<1>7. ASSUME FinishPrefetch(q)
      PROVE  /\ args' \in [Groups -> ArgsType] /\ SameQueues /\ SameDone
             /\ \A h \in Groups : args'[h].next_args = args[h].next_args
             /\ SameReign \/ "queue" \in Faults
  <2>1. PICK a : a = [args EXCEPT ![g].prefetch_done = TRUE]
    OBVIOUS
  <2>2. a \in [Groups -> ArgsType]
    BY <1>3, <2>1 DEF ArgsType
  <2>3. \A h \in Groups :
          /\ a[h].io_queue = args[h].io_queue /\ a[h].inode_bufs_queued = args[h].inode_bufs_queued
          /\ a[h].last_bno_read = args[h].last_bno_read /\ a[h].state = args[h].state
          /\ a[h].next_args = args[h].next_args /\ a[h].queuing_done = args[h].queuing_done
    BY <1>3, <2>1 DEF ArgsType
  <2>4. CASE args' = a
    BY <2>2, <2>3, <2>4 DEF SameQueues, SameReign, SameDone
  <2>5. CASE "queue" \in Faults /\ args' = [a EXCEPT ![g + 1].state = "freed"]
    <3>1. args' \in [Groups -> ArgsType]
      <4>1. CASE g + 1 \notin Groups
        <5>1. args' = a
          BY <2>2, <2>5, <4>1
        <5> QED BY <2>2, <5>1
      <4>2. CASE g + 1 \in Groups
        <5>1. PICK rec : rec = [a[g + 1] EXCEPT !.state = "freed"]
          OBVIOUS
        <5>2. rec \in ArgsType
          BY <2>2, <4>2, <5>1 DEF ArgsType
        <5>3. args' = [a EXCEPT ![g + 1] = rec]
          BY <2>5, <5>1
        <5> QED BY <2>2, <5>2, <5>3
      <4> QED BY <4>1, <4>2
    <3>2. \A h \in Groups :
            /\ args'[h].io_queue = a[h].io_queue /\ args'[h].inode_bufs_queued = a[h].inode_bufs_queued
            /\ args'[h].last_bno_read = a[h].last_bno_read
            /\ args'[h].next_args = a[h].next_args /\ args'[h].queuing_done = a[h].queuing_done
      BY <2>2, <2>5 DEF ArgsType
    <3> QED BY <2>3, <2>5, <3>1, <3>2 DEF SameQueues, SameDone
  <2> QED BY <1>2, <1>7, <2>1, <2>4, <2>5 DEF FinishPrefetch, Create
<1> QED BY <1>4, <1>5, <1>6, <1>7

\* The return from pf_batch_read and the post of the semaphore.
LEMMA OtherArgs ==
  ASSUME Shape
  PROVE  /\ \A w \in IoAll : BatchReturns(w) => SameArgs
         /\ ProcessChunk => SameArgs
<1>1. args \in [Groups -> ArgsType] /\ \A h \in Groups : args[h] \in ArgsType
  BY DEF Shape, Types
<1>2. ASSUME NEW w \in IoAll, BatchReturns(w) PROVE SameArgs
  <2>1. PICK g \in Groups : g = AG(w)
    BY <1>2, ThreadFacts
  <2>2. CASE args' = args
    BY <1>1, <2>2 DEF SameArgs, SameQueues, SameReign, SameDone
  <2>3. CASE args' = [args EXCEPT ![g].reading = @ /\ args[g].queuing_done]
    <3>1. PICK reading \in BOOLEAN : reading = (args[g].reading /\ args[g].queuing_done)
      OBVIOUS
    <3>2. args' = [args EXCEPT ![g] = [@ EXCEPT !.reading = reading,
                     !.processing = args[g].processing, !.prefetch_done = args[g].prefetch_done,
                     !.ra_count = args[g].ra_count]]
      BY <1>1, <2>3, <3>1 DEF ArgsType
    <3> QED BY <1>1, <3>2, ArgsKept DEF ArgsType
  <2> QED BY <1>2, <2>1, <2>2, <2>3 DEF BatchReturns
<1>3. ASSUME ProcessChunk PROVE SameArgs
  <2>1. agno \in Groups
    BY <1>3, PlaceFacts, ConstantFacts DEF Shape, Types, Places, ProcessChunk, Groups
  <2>2. PICK count \in Nat : count = args[agno].ra_count + 1
    BY <1>1, <2>1 DEF ArgsType
  <2>3. args' = [args EXCEPT ![agno].ra_count = count]
    BY <1>1, <1>3, <2>1, <2>2 DEF ProcessChunk
  <2>4. args' = [args EXCEPT ![agno] = [@ EXCEPT !.reading = args[agno].reading,
                   !.processing = args[agno].processing,
                   !.prefetch_done = args[agno].prefetch_done, !.ra_count = count]]
    BY <1>1, <2>1, <2>3 DEF ArgsType
  <2> QED BY <1>1, <2>1, <2>4, ArgsKept DEF ArgsType
<1> QED BY <1>2, <1>3

\* The arguments of a group that start_inode_prefetch makes, and what it leaves
\* to the queueing thread of the group before.
LEMMA StartArgs ==
  ASSUME Shape, Start
  PROVE  /\ started \in Groups
         /\ args' \in [Groups -> ArgsType] /\ SameQueues /\ SameDone
         /\ \/ /\ \A h \in Groups : args'[h].next_args = args[h].next_args
               /\ pc' = pc \/ pc' = [pc EXCEPT ![Queuer(started)] = "create"]
            \/ /\ started - 1 \in Groups /\ pc' = pc
               /\ args'[started - 1].next_args
               /\ \A h \in Groups \ {started - 1} : args'[h].next_args = args[h].next_args
         /\ \/ "queue" \in Faults
            \/ /\ args'[started].state = "live"
               /\ \A h \in Groups \ {started} : args'[h].state = args[h].state
<1>1. args \in [Groups -> ArgsType]
  BY DEF Shape, Types
<1>2. PICK g \in Groups : g = started
  BY ConstantFacts DEF Shape, Types, Start, Groups
<1>3. PICK a : a = [args EXCEPT ![g].state = "live"]
  OBVIOUS
<1>4. /\ a \in [Groups -> ArgsType] /\ a[g].state = "live"
      /\ \A h \in Groups \ {g} : a[h].state = args[h].state
      /\ \A h \in Groups :
           /\ a[h].io_queue = args[h].io_queue /\ a[h].inode_bufs_queued = args[h].inode_bufs_queued
           /\ a[h].last_bno_read = args[h].last_bno_read /\ a[h].queuing_done = args[h].queuing_done
           /\ a[h].next_args = args[h].next_args
  BY <1>1, <1>3 DEF ArgsType
<1>5. \/ args' = a /\ pc' = [pc EXCEPT ![Queuer(g)] = "create"]
      \/ "queue" \in Faults /\ args' = [a EXCEPT ![g].state = "none"] /\ pc' = pc
      \/ g - 1 \in Groups /\ args' = [a EXCEPT ![g - 1].next_args = TRUE] /\ pc' = pc
  <2>1. Before(g) = "live" => g - 1 \in Groups
    BY <1>2, ConstantFacts DEF Before, Groups
  <2>2. \/ Create(g, a, pc, "none")
        \/ (Before(g) = "live" /\ args' = [a EXCEPT ![g - 1].next_args = TRUE] /\ pc' = pc)
    BY <1>2, <1>3 DEF Start
  <2>3. Create(g, a, pc, "none") =>
          \/ args' = a /\ pc' = [pc EXCEPT ![Queuer(g)] = "create"]
          \/ "queue" \in Faults /\ args' = [a EXCEPT ![g].state = "none"] /\ pc' = pc
    BY Zenon DEF Create
  <2> QED BY <2>1, <2>2, <2>3
<1>6. CASE args' = a /\ pc' = [pc EXCEPT ![Queuer(g)] = "create"]
  BY <1>2, <1>4, <1>6 DEF SameQueues, SameDone
<1>7. CASE "queue" \in Faults /\ args' = [a EXCEPT ![g].state = "none"] /\ pc' = pc
  <2>1. args' \in [Groups -> ArgsType]
    BY <1>4, <1>7 DEF ArgsType
  <2>2. \A h \in Groups :
          /\ args'[h].io_queue = a[h].io_queue /\ args'[h].inode_bufs_queued = a[h].inode_bufs_queued
          /\ args'[h].last_bno_read = a[h].last_bno_read /\ args'[h].queuing_done = a[h].queuing_done
          /\ args'[h].next_args = a[h].next_args
    BY <1>4, <1>7 DEF ArgsType
  <2> QED BY <1>2, <1>4, <1>7, <2>1, <2>2 DEF SameQueues, SameDone
<1>8. CASE g - 1 \in Groups /\ args' = [a EXCEPT ![g - 1].next_args = TRUE] /\ pc' = pc
  <2>1. PICK k \in Groups : k = g - 1 /\ args' = [a EXCEPT ![k].next_args = TRUE]
    BY <1>8
  <2>2. PICK rec : rec = [a[k] EXCEPT !.next_args = TRUE]
    OBVIOUS
  <2>3. /\ rec \in ArgsType /\ rec.next_args /\ rec.state = a[k].state
        /\ rec.io_queue = a[k].io_queue /\ rec.inode_bufs_queued = a[k].inode_bufs_queued
        /\ rec.last_bno_read = a[k].last_bno_read /\ rec.queuing_done = a[k].queuing_done
    BY <1>4, <2>2 DEF ArgsType
  <2>4. args' = [a EXCEPT ![k] = rec]
    BY <2>1, <2>2
  <2>5. args' \in [Groups -> ArgsType] /\ args'[k] = rec /\ \A h \in Groups \ {k} : args'[h] = a[h]
    BY <1>4, <2>3, <2>4
  <2>6. SameQueues /\ SameDone
    BY <1>4, <2>3, <2>5 DEF SameQueues, SameDone
  <2>7. args'[k].next_args /\ \A h \in Groups \ {k} : args'[h].next_args = args[h].next_args
    BY <1>4, <2>3, <2>5
  <2>8. args'[g].state = "live" /\ \A h \in Groups \ {g} : args'[h].state = args[h].state
    BY <1>4, <2>3, <2>5
  <2> QED BY <1>2, <1>8, <2>1, <2>5, <2>6, <2>7, <2>8
<1> QED BY <1>5, <1>6, <1>7, <1>8

\* The arguments that cleanup_inode_prefetch frees.
LEMMA CleanupArgs ==
  ASSUME Shape, Cleanup
  PROVE  /\ agno \in Groups
         /\ args' \in [Groups -> ArgsType] /\ SameQueues /\ SameDone
         /\ \A h \in Groups : args'[h].next_args = args[h].next_args
         /\ \A h \in Groups \ {agno} : args'[h].state = args[h].state
         /\ args[agno].state = "live" => args'[agno].state = "freed"
<1>1. args \in [Groups -> ArgsType]
  BY DEF Shape, Types
<1>2. PICK g \in Groups : g = agno
  BY PlaceFacts, ConstantFacts DEF Shape, Types, Places, Cleanup, Groups
<1>3. PICK st \in {"none", "live", "freed"} :
        args' = [args EXCEPT ![g].state = st] /\ (args[g].state = "live" => st = "freed")
  BY <1>1, <1>2 DEF Cleanup, ArgsType
<1>4. args' \in [Groups -> ArgsType]
  BY <1>1, <1>3 DEF ArgsType
<1>5. \A h \in Groups :
        /\ args'[h].io_queue = args[h].io_queue /\ args'[h].inode_bufs_queued = args[h].inode_bufs_queued
        /\ args'[h].last_bno_read = args[h].last_bno_read /\ args'[h].queuing_done = args[h].queuing_done
        /\ args'[h].next_args = args[h].next_args
        /\ args'[h].state = IF h = g THEN st ELSE args[h].state
  BY <1>1, <1>3 DEF ArgsType
<1> QED BY <1>2, <1>3, <1>4, <1>5 DEF SameQueues, SameDone

\* pf_batch_read takes a run of blocks from the front of the eligible ones.
LEMMA TakeBatchEffect ==
  ASSUME Shape, NEW w \in IoAll, TakeBatch(w), NEW g, g = AG(w)
  PROVE  /\ g \in Groups
         /\ \E highest \in Eligible(w) : \E S :
              /\ S = {b \in Eligible(w) : b <= highest}
              /\ S \subseteq args[g].io_queue /\ highest \in S
              /\ batch' = [batch EXCEPT ![w] = S]
              /\ owner' = [b \in Blocks |-> IF b \in S THEN w ELSE owner[b]]
              /\ args'[g].io_queue = args[g].io_queue \ S
              /\ args'[g].inode_bufs_queued =
                   IF which[w] = "PRIMARY" THEN LessTaken(g, S) ELSE args[g].inode_bufs_queued
              /\ \E f \in Int :
                   /\ \E b \in S : f <= b /\ \A c \in S : f <= c
                   /\ \/ args'[g].last_bno_read = args[g].last_bno_read
                      \/ /\ which[w] = "PRIMARY" /\ \E b \in S : IsInode(b)
                         /\ args'[g].last_bno_read = f
         /\ \A h \in Groups \ {g} : args'[h] = args[h]
         /\ args' \in [Groups -> ArgsType] /\ SameReign /\ SameDone
<1>1. g \in Groups /\ args \in [Groups -> ArgsType] /\ args[g] \in ArgsType
      /\ IsFiniteSet(args[g].io_queue)
  BY ThreadFacts DEF Shape, Types
<1>2. args[g].io_queue \subseteq Nat /\ Skew[g] \in Nat
  BY <1>1, ConstantFacts DEF ArgsType
<1>25. PICK highest \in Eligible(w) :
         LET S == {b \in Eligible(w) : b <= highest}
             f == Smallest(S) - Skew[g]
             m == (\E b \in S : IsInode(b)) /\ f > BatchFsbs
         IN /\ batch' = [batch EXCEPT ![w] = S]
            /\ owner' = [b \in Blocks |-> IF b \in S THEN w ELSE owner[b]]
            /\ args' = [args EXCEPT
                 ![g].io_queue = @ \ S,
                 ![g].inode_bufs_queued = IF which[w] = "PRIMARY" THEN LessTaken(g, S) ELSE @,
                 ![g].last_bno_read = IF which[w] = "PRIMARY" /\ m THEN f ELSE @]
  BY Zenon DEF TakeBatch
<1>3. PICK taken, first, moves :
        /\ taken = {b \in Eligible(w) : b <= highest}
        /\ first = Smallest(taken) - Skew[g]
        /\ moves = ((\E b \in taken : IsInode(b)) /\ first > BatchFsbs)
        /\ batch' = [batch EXCEPT ![w] = taken]
        /\ owner' = [b \in Blocks |-> IF b \in taken THEN w ELSE owner[b]]
        /\ args' = [args EXCEPT
             ![g].io_queue = @ \ taken,
             ![g].inode_bufs_queued = IF which[w] = "PRIMARY" THEN LessTaken(g, taken) ELSE @,
             ![g].last_bno_read = IF which[w] = "PRIMARY" /\ moves THEN first ELSE @]
  BY <1>25, Zenon
<1>4. Eligible(w) \subseteq args[g].io_queue
  <2>1. CASE which[w] = "PRIMARY" BY <2>1 DEF Eligible
  <2>2. CASE which[w] = "META_ONLY" BY <2>2 DEF Eligible
  <2>3. CASE which[w] \notin {"PRIMARY", "META_ONLY"} BY <2>3 DEF Eligible
  <2> QED BY <2>1, <2>2, <2>3
<1>5. taken \subseteq args[g].io_queue /\ highest \in taken
  <2>1. highest \in Nat
    BY <1>2, <1>4
  <2>2. highest <= highest
    BY <2>1
  <2> QED BY <1>3, <1>4, <2>2
<1>6. Smallest(taken) \in taken /\ (\A c \in taken : Smallest(taken) <= c) /\ taken \subseteq Nat
  BY <1>2, <1>5, SmallestFact
<1>7. PICK low \in taken : low = Smallest(taken)
  BY <1>6
<1>8. low \in Nat /\ first = low - Skew[g] /\ first \in Int /\ first <= low
      /\ \A c \in taken : first <= c
  <2>1. low \in Nat /\ first = low - Skew[g] /\ \A c \in taken : low <= c /\ c \in Nat
    BY <1>3, <1>6, <1>7
  <2> QED BY <1>2, <2>1
<1>9. PICK count : count = IF which[w] = "PRIMARY" THEN LessTaken(g, taken)
                                               ELSE args[g].inode_bufs_queued
  OBVIOUS
<1>10. count \in Int
  <2>1. IsFiniteSet({b \in taken : IsInode(b)})
    BY <1>1, <1>5, FS_Subset, {b \in taken : IsInode(b)} \in SUBSET args[g].io_queue
  <2>2. Cardinality({b \in taken : IsInode(b)}) \in Nat
    BY <2>1, FS_CardinalityType
  <2>3. LessTaken(g, taken) \in Int
    BY <1>1, <2>2 DEF LessTaken, ArgsType
  <2> QED BY <1>1, <1>9, <2>3 DEF ArgsType
<1>11. PICK last : last = IF which[w] = "PRIMARY" /\ moves THEN first ELSE args[g].last_bno_read
  OBVIOUS
<1>12. last \in Nat
  <2>1. moves => first > BatchFsbs
    BY <1>3
  <2> QED BY <1>1, <1>8, <1>11, <2>1, ConstantFacts DEF ArgsType
<1>13. PICK rec : rec = [args[g] EXCEPT !.io_queue = args[g].io_queue \ taken,
                                        !.inode_bufs_queued = count, !.last_bno_read = last]
  OBVIOUS
<1>14. rec \in ArgsType
  BY <1>1, <1>10, <1>12, <1>13 DEF ArgsType
<1>15. args' = [args EXCEPT ![g] = rec]
  BY <1>3, <1>9, <1>11, <1>13
<1>16. /\ args' \in [Groups -> ArgsType] /\ args'[g] = rec
       /\ \A h \in Groups \ {g} : args'[h] = args[h]
  BY <1>1, <1>14, <1>15, RecordUpdate
<1>17. /\ rec.io_queue = args[g].io_queue \ taken /\ rec.inode_bufs_queued = count
       /\ rec.last_bno_read = last /\ rec.state = args[g].state
       /\ rec.next_args = args[g].next_args /\ rec.queuing_done = args[g].queuing_done
  BY <1>1, <1>13 DEF ArgsType
<1>18. SameReign /\ SameDone
  BY <1>16, <1>17 DEF SameReign, SameDone
<1>19. \/ last = args[g].last_bno_read
       \/ which[w] = "PRIMARY" /\ (\E b \in taken : IsInode(b)) /\ last = first
  BY <1>3, <1>11
<1> QED
  <2>1. \E b \in taken : first <= b /\ \A c \in taken : first <= c
    BY <1>8, <1>6, <1>7
  <2>2. args'[g].inode_bufs_queued =
          IF which[w] = "PRIMARY" THEN LessTaken(g, taken) ELSE args[g].inode_bufs_queued
    BY <1>9, <1>16, <1>17, Zenon
  <2>3. args'[g].io_queue = args[g].io_queue \ taken
    BY <1>16, <1>17, Zenon
  <2>4. \/ args'[g].last_bno_read = args[g].last_bno_read
        \/ /\ which[w] = "PRIMARY" /\ \E b \in taken : IsInode(b)
           /\ args'[g].last_bno_read = first
    BY <1>16, <1>17, <1>19, Zenon
  <2>5. \E f \in Int :
          /\ \E b \in taken : f <= b /\ \A c \in taken : f <= c
          /\ \/ args'[g].last_bno_read = args[g].last_bno_read
             \/ /\ which[w] = "PRIMARY" /\ \E b \in taken : IsInode(b)
                /\ args'[g].last_bno_read = f
    BY <1>8, <2>1, <2>4, Zenon
  <2>6. \E S : /\ S = {b \in Eligible(w) : b <= highest}
               /\ S \subseteq args[g].io_queue /\ highest \in S
               /\ batch' = [batch EXCEPT ![w] = S]
               /\ owner' = [b \in Blocks |-> IF b \in S THEN w ELSE owner[b]]
               /\ args'[g].io_queue = args[g].io_queue \ S
               /\ args'[g].inode_bufs_queued =
                    IF which[w] = "PRIMARY" THEN LessTaken(g, S) ELSE args[g].inode_bufs_queued
               /\ \E f \in Int :
                    /\ \E b \in S : f <= b /\ \A c \in S : f <= c
                    /\ \/ args'[g].last_bno_read = args[g].last_bno_read
                       \/ /\ which[w] = "PRIMARY" /\ \E b \in S : IsInode(b)
                          /\ args'[g].last_bno_read = f
    <3> WITNESS taken
    <3> QED BY <1>3, <1>5, <2>2, <2>3, <2>5
  <2> QED BY <1>1, <1>3, <1>16, <1>18, <2>6, Zenon

\* A thread that goes to another place, none of them an insertion.
LEMMA GotoFact ==
  ASSUME Shape, NEW t \in Threads, NEW label, pc' = [pc EXCEPT ![t] = label],
         \/ t \in Queuers /\ label \in QueuerPlaces
         \/ t \in IoAll /\ label \in IoPlaces
         \/ t = Main /\ label \in MainPlaces
  PROVE  InPlace(pc') /\ pc'[t] = label /\ \A u \in Threads \ {t} : pc'[u] = pc[u]
<1>1. InPlace(pc)
  BY DEF Shape, Places
<1>2. InPlace(pc')
  BY <1>1, MoveInPlace
<1>3. pc \in [Threads -> MainPlaces \cup {"start"} \cup QueuerPlaces \cup IoPlaces]
  BY <1>1 DEF InPlace
<1> QED BY <1>2, <1>3

\* What a step has to leave for the places to be kept.
LEMMA PlacesKept ==
  ASSUME Places, InPlace(pc'), agno' = agno, pc'[Main] = "next" <=> pc[Main] = "next",
         \A u \in Queuers \cup IoAll : pc'[u] = "insert" => pc[u] = "insert" /\ todo'[u] = todo[u],
         \A g \in Groups : chunk'[Queuer(g)] = chunk[Queuer(g)]
  PROVE  Places'
BY DEF Places

\* pf_io_worker's steps move one thread, and queue nothing while inserting.
LEMMA IoMoves ==
  ASSUME Shape, NEW w \in IoAll,
         \/ IoStart(w) \/ IoTest(w) \/ IoWoken(w) \/ TakeBatch(w) \/ BatchReturns(w)
         \/ ReadBatch(w) \/ NextInodeBuf(w) \/ PutBatch(w) \/ Relock(w)
  PROVE  /\ InPlace(pc') /\ (\A u \in Threads \ {w} : pc'[u] = pc[u])
         /\ pc'[w] # "insert" /\ UNCHANGED <<chunk, started, agno>>
         /\ \A u \in Threads \ {w} : todo'[u] = todo[u]
<1>0. w \in Threads /\ InPlace(pc) /\ todo \in [Threads -> Seq(Jobs)]
  BY ThreadFacts DEF Shape, Places, Types
<1>1. CASE NextInodeBuf(w)
  BY <1>0, <1>1 DEF NextInodeBuf
<1>2. CASE BatchReturns(w) /\ pc' = pc
  BY <1>0, <1>2 DEF BatchReturns
<1>3. CASE ~NextInodeBuf(w) /\ ~(BatchReturns(w) /\ pc' = pc)
  <2>1. PICK label \in {"test", "exited", "asleep", "batch", "retest", "read", "queueing", "relock"} :
          pc' = [pc EXCEPT ![w] = label]
    <3>1. CASE IoStart(w) BY <3>1 DEF IoStart, Goto
    <3>2. CASE IoTest(w) BY <3>2 DEF IoTest, Goto
    <3>3. CASE IoWoken(w) BY <3>3 DEF IoWoken, Goto
    <3>4. CASE TakeBatch(w) BY <3>4 DEF TakeBatch, Goto
    <3>5. CASE BatchReturns(w) BY <1>3, <3>5 DEF BatchReturns, Goto
    <3>6. CASE ReadBatch(w) BY <3>6 DEF ReadBatch, Goto
    <3>7. CASE PutBatch(w) BY <3>7 DEF PutBatch, Goto
    <3>8. CASE Relock(w) BY <3>8 DEF Relock, Goto
    <3> QED BY <1>3, <3>1, <3>2, <3>3, <3>4, <3>5, <3>6, <3>7, <3>8
  <2>2. UNCHANGED <<todo, chunk, started, agno>>
    BY <1>3 DEF IoStart, IoTest, IoWoken, TakeBatch, BatchReturns, ReadBatch, PutBatch, Relock
  <2>3. InPlace(pc') /\ pc'[w] = label /\ \A u \in Threads \ {w} : pc'[u] = pc[u]
    <3>1. label \in IoPlaces
      BY DEF IoPlaces
    <3> QED BY <1>0, <2>1, <3>1, GotoFact
  <2> QED BY <2>2, <2>3
<1> QED BY <1>1, <1>2, <1>3

\* Each step of an I/O thread keeps the shape.
LEMMA ShapeIo ==
  ASSUME Shape, NEW w \in IoAll,
         \/ IoStart(w) \/ IoTest(w) \/ IoWoken(w) \/ TakeBatch(w) \/ BatchReturns(w)
         \/ ReadBatch(w) \/ NextInodeBuf(w) \/ PutBatch(w) \/ Relock(w)
  PROVE  Shape'
<1>0. /\ Types /\ Places /\ w \in Threads /\ w # Main /\ AG(w) \in Groups
  BY ThreadFacts DEF Shape
<1>1. /\ InPlace(pc') /\ (\A u \in Threads \ {w} : pc'[u] = pc[u])
      /\ pc'[w] # "insert" /\ UNCHANGED <<chunk, started, agno>>
      /\ \A u \in Threads \ {w} : todo'[u] = todo[u]
  BY IoMoves
<1>2. Places'
  <2>1. pc'[Main] = pc[Main]
    BY <1>0, <1>1, ThreadFacts
  <2>2. \A u \in Queuers \cup IoAll : pc'[u] = "insert" => pc[u] = "insert" /\ todo'[u] = todo[u]
    BY <1>1, ThreadFacts
  <2> QED BY <1>0, <1>1, <2>1, <2>2, PlacesKept
<1>3. Types'
  <2> USE <1>0
  <2>1. CASE IoStart(w)
    BY <2>1 DEF Types, IoStart, Lock
  <2>2. CASE IoTest(w)
    BY <2>2 DEF Types, IoTest, Unlock
  <2>3. CASE IoWoken(w)
    BY <2>3 DEF Types, IoWoken, Lock
  <2>4. CASE TakeBatch(w)
    <3>1. PICK g : g = AG(w)
      OBVIOUS
    <3>2. PICK S : /\ S \subseteq args[g].io_queue /\ batch' = [batch EXCEPT ![w] = S]
                   /\ owner' = [b \in Blocks |-> IF b \in S THEN w ELSE owner[b]]
                   /\ args'[g].io_queue = args[g].io_queue \ S
                   /\ \A h \in Groups \ {g} : args'[h] = args[h]
                   /\ args' \in [Groups -> ArgsType]
      BY <2>4, <3>1, TakeBatchEffect
    <3>3. IsFiniteSet(args[g].io_queue) /\ args[g].io_queue \subseteq Blocks
      BY <3>1 DEF Types, ArgsType
    <3>4. \A h \in Groups : IsFiniteSet(args'[h].io_queue)
      <4>1. IsFiniteSet(args[g].io_queue \ S)
        BY <3>3, FS_Difference
      <4> QED BY <3>2, <4>1 DEF Types
    <3>5. batch' \in [Threads -> SUBSET Blocks]
      BY <3>2, <3>3 DEF Types
    <3>6. owner' \in [Blocks -> Threads \cup {OnQueue, None}]
      BY <3>2 DEF Types
    <3>7. lock' \in [Groups -> IoAll \cup {None}]
          /\ UNCHANGED <<todo, uptodate, chunk, left, started, agno>>
      BY <2>4 DEF Types, TakeBatch, Unlock
    <3> QED BY <3>2, <3>4, <3>5, <3>6, <3>7 DEF Types
  <2>5. CASE BatchReturns(w)
    <3>1. args' \in [Groups -> ArgsType] /\ \A h \in Groups : args'[h].io_queue = args[h].io_queue
      BY <2>5, OtherArgs DEF SameArgs, SameQueues
    <3> QED BY <2>5, <3>1 DEF Types, BatchReturns
  <2>6. CASE ReadBatch(w)
    <3>1. PICK got : /\ uptodate' = uptodate \cup got
                     /\ left' = [left EXCEPT ![w] = {b \in got : IsInode(b)}]
                     /\ got \in {{b \in batch[w] : b < limit} : limit \in batch[w]} \cup {batch[w]}
      BY <2>6 DEF ReadBatch
    <3>2. got \subseteq batch[w]
      BY <3>1
    <3>3. batch[w] \subseteq Blocks
      BY DEF Types
    <3>4. uptodate' \subseteq Blocks /\ left' \in [Threads -> SUBSET DOMAIN Dirs]
      BY <3>1, <3>2, <3>3 DEF Types, IsInode
    <3> QED BY <2>6, <3>4 DEF Types, ReadBatch
  <2>7. CASE NextInodeBuf(w)
    <3>1. PICK b : b = Smallest(left[w]) /\ todo' = [todo EXCEPT ![w] = Queuing(Dirs[b])]
                   /\ left' = [left EXCEPT ![w] = @ \ {b}]
      BY <2>7 DEF NextInodeBuf
    <3>2. left[w] \subseteq DOMAIN Dirs /\ left[w] # {} /\ left[w] \subseteq Nat
      BY <2>7, ConstantFacts DEF Types, NextInodeBuf
    <3>3. b \in DOMAIN Dirs
      BY <3>1, <3>2, SmallestFact
    <3>4. Queuing(Dirs[b]) \in Seq(Jobs)
      BY <3>3, QueuingFact, ConstantFacts
    <3> QED BY <2>7, <3>1, <3>4 DEF Types, NextInodeBuf
  <2>8. CASE PutBatch(w)
    BY <2>8 DEF Types, PutBatch
  <2>9. CASE Relock(w)
    BY <2>9 DEF Types, Relock, Lock
  <2> QED BY <2>1, <2>2, <2>3, <2>4, <2>5, <2>6, <2>7, <2>8, <2>9
<1> QED BY <1>2, <1>3 DEF Shape

\* The creation of a queueing thread.
LEMMA CreateInPlace ==
  ASSUME NEW p, InPlace(p), NEW k
  PROVE  /\ InPlace([p EXCEPT ![Queuer(k)] = "create"])
         /\ [p EXCEPT ![Queuer(k)] = "create"][Main] = p[Main]
<1>1. CASE Queuer(k) \in Threads
  <2>1. Queuer(k) \in Queuers
    BY <1>1 DEF Threads, Main, Starter, Queuer, Queuers, IoAll, Io
  <2> QED BY <1>1, <2>1, MoveInPlace, ThreadFacts DEF QueuerPlaces
<1>2. CASE Queuer(k) \notin Threads
  <2>1. DOMAIN p = Threads /\ p = [u \in Threads |-> p[u]]
    BY DEF InPlace
  <2>2. [p EXCEPT ![Queuer(k)] = "create"] = p
    BY <1>2, <2>1
  <2> QED BY <2>2
<1> QED BY <1>1, <1>2

\* Each step of a queueing thread keeps the shape.
LEMMA ShapeQueuer ==
  ASSUME Shape, NEW q \in Queuers,
         \/ CreateIoThreads(q) \/ NextChunk(q) \/ ChunkQueued(q) \/ FinishQueuing(q)
         \/ FinishPrefetch(q)
  PROVE  Shape'
<1>0. /\ Types /\ Places /\ InPlace(pc) /\ q \in Threads /\ q # Main /\ AG(q) \in Groups
  BY ThreadFacts DEF Shape, Places
<1>1. PICK g \in Groups : g = AG(q)
  BY <1>0
<1>2. CASE CreateIoThreads(q)
  <2>1. Types'
    <3>1. args' \in [Groups -> ArgsType] /\ \A h \in Groups : args'[h].io_queue = args[h].io_queue
      BY <1>2, QueuerArgs DEF SameArgs, SameQueues
    <3> QED BY <1>0, <1>2, <3>1 DEF Types, CreateIoThreads
  <2>2. /\ InPlace(pc') /\ (pc'[Main] = "next" <=> pc[Main] = "next")
        /\ \A u \in Queuers \cup IoAll : pc'[u] \in {pc[u], "init", "chunk", "exited"}
    <3>1. ASSUME NEW n \in 1 .. IoThreads,
                 pc' = [t \in Threads |->
                   IF t \in {<<"io", g, m>> : m \in 1 .. n} THEN "init"
                   ELSE IF t = q THEN "chunk" ELSE pc[t]]
          PROVE  /\ InPlace(pc') /\ (pc'[Main] = "next" <=> pc[Main] = "next")
                 /\ \A u \in Queuers \cup IoAll : pc'[u] \in {pc[u], "init", "chunk", "exited"}
      <4>1. {<<"io", g, m>> : m \in 1 .. n} \subseteq IoAll
        BY <3>1, ConstantFacts DEF IoAll, Io
      <4>2. \A t \in Threads : /\ t \notin IoAll /\ t # q => pc'[t] = pc[t]
                               /\ t \in IoAll => pc'[t] \in {"init", pc[t]}
                               /\ t = q => pc'[t] = "chunk"
        BY <3>1, <4>1, ThreadFacts
      <4>3. pc' = [t \in Threads |-> pc'[t]]
        BY <3>1
      <4>4. \A w \in IoAll : pc'[w] \in IoPlaces
        BY <1>0, <4>2, ThreadFacts DEF InPlace, IoPlaces
      <4>5. \A r \in Queuers : pc'[r] \in QueuerPlaces
        BY <1>0, <4>2, ThreadFacts DEF InPlace, QueuerPlaces
      <4>6. pc'[Main] = pc[Main] /\ pc'[Starter] = pc[Starter]
        BY <4>2, ThreadFacts
      <4>7. \A t \in Threads : pc'[t] \in MainPlaces \cup {"start"} \cup QueuerPlaces \cup IoPlaces
        BY <1>0, <4>4, <4>5, <4>6, ThreadFacts DEF InPlace
      <4>8. InPlace(pc')
        BY <1>0, <4>3, <4>4, <4>5, <4>6, <4>7 DEF InPlace
      <4> QED BY <4>2, <4>6, <4>8, ThreadFacts
    <3>2. ASSUME NEW p, p = [pc EXCEPT ![q] = "exited"], pc' = p \/ pc' = Woken(g, p)
          PROVE  /\ InPlace(pc') /\ (pc'[Main] = "next" <=> pc[Main] = "next")
                 /\ \A u \in Queuers \cup IoAll : pc'[u] \in {pc[u], "init", "chunk", "exited"}
      <4>1. InPlace(p) /\ p[Main] = pc[Main]
        BY <1>0, <3>2, MoveInPlace DEF QueuerPlaces
      <4>2. \A u \in Queuers \cup IoAll : p[u] \in {pc[u], "exited"}
        BY <1>0, <3>2, ThreadFacts DEF InPlace
      <4>3. PICK s : s = Woken(g, p)
        OBVIOUS
      <4>4. g \in Groups
        BY <1>0, <1>1
      <4>5. /\ InPlace(s) /\ (s[Main] = "next" <=> p[Main] = "next")
            /\ \A u \in Queuers \cup IoAll : s[u] = p[u]
        BY <4>1, <4>3, <4>4, WakeInPlace
      <4> QED BY <3>2, <4>1, <4>2, <4>3, <4>5
    <3> QED BY <1>1, <1>2, <3>1, <3>2 DEF CreateIoThreads
  <2>3. Places'
    BY <1>0, <1>2, <2>2, PlacesKept, ThreadFacts DEF CreateIoThreads
  <2> QED BY <2>1, <2>3 DEF Shape
<1>3. CASE NextChunk(q)
  <2>1. chunk[q] + 1 \in DOMAIN Clusters[g] /\ Clusters[g][chunk[q] + 1] \in Blocks
    <3>1. chunk[q] \in Nat /\ chunk[q] < Len(Clusters[g]) /\ Clusters[g] \in Seq(Nat \ {0})
      BY <1>0, <1>1, <1>3, ConstantFacts DEF Types, NextChunk
    <3>2. chunk[q] + 1 \in DOMAIN Clusters[g]
      BY <3>1
    <3> QED BY <3>2, ConstantFacts
  <2>2. Types'
    <3>1. args' \in [Groups -> ArgsType] /\ \A h \in Groups : args'[h].io_queue = args[h].io_queue
      BY <1>3, QueuerArgs DEF SameArgs, SameQueues
    <3>2. <<Clusters[g][chunk[q] + 1]>> \in Seq(Blocks)
      BY <2>1
    <3>3. Queuing(<<Clusters[g][chunk[q] + 1]>>) \in Seq(Jobs)
      BY <3>2, QueuingFact
    <3>4. todo' \in [Threads -> Seq(Jobs)]
      BY <1>0, <1>1, <1>3, <3>3 DEF Types, NextChunk
    <3>5. chunk' \in [Threads -> Nat]
      BY <1>0, <1>3 DEF Types, NextChunk
    <3> QED BY <1>0, <1>3, <3>1, <3>4, <3>5 DEF Types, NextChunk
  <2>3. InPlace(pc') /\ pc'[q] = "queueing" /\ \A u \in Threads \ {q} : pc'[u] = pc[u]
    BY <1>0, <1>3, GotoFact DEF NextChunk, Goto, QueuerPlaces
  <2>4. \A u \in Queuers \cup IoAll : pc'[u] = "insert" => todo'[u] # <<>>
    <3>1. \A u \in Queuers \cup IoAll : pc'[u] = "insert" => u # q /\ pc[u] = "insert"
      BY <2>3, ThreadFacts
    <3> QED BY <1>0, <1>3, <3>1, ThreadFacts DEF NextChunk, Types, Places
  <2>5. \A h \in Groups : chunk'[Queuer(h)] <= Len(Clusters[h])
    <3>1. ASSUME NEW h \in Groups PROVE chunk'[Queuer(h)] <= Len(Clusters[h])
      <4>1. CASE Queuer(h) = q
        <5>1. h = g /\ chunk'[q] = chunk[q] + 1
          BY <1>0, <1>1, <1>3, <3>1, <4>1, ThreadFacts DEF NextChunk, Types
        <5>2. chunk[q] \in Nat /\ Len(Clusters[g]) \in Nat /\ chunk[q] < Len(Clusters[g])
          BY <1>0, <1>1, <1>3, ConstantFacts DEF Types, NextChunk
        <5> QED BY <4>1, <5>1, <5>2
      <4>2. CASE Queuer(h) # q
        BY <1>0, <1>3, <3>1, <4>2, ThreadFacts DEF Types, Places, NextChunk
      <4> QED BY <4>1, <4>2
    <3> QED BY <3>1
  <2>6. Places'
    <3>1. pc'[Main] = pc[Main] /\ agno' = agno
      BY <1>0, <1>3, <2>3, ThreadFacts DEF NextChunk
    <3> QED BY <1>0, <2>3, <2>4, <2>5, <3>1 DEF Places
  <2> QED BY <2>2, <2>6 DEF Shape
<1>4. CASE ChunkQueued(q)
  <2>1. InPlace(pc') /\ pc'[q] = "chunk" /\ \A u \in Threads \ {q} : pc'[u] = pc[u]
    BY <1>0, <1>4, GotoFact DEF ChunkQueued, Goto, QueuerPlaces
  <2>2. pc'[Main] = pc[Main] /\ \A u \in Queuers \cup IoAll : pc'[u] = "insert" => pc[u] = "insert"
    BY <1>0, <2>1, ThreadFacts
  <2>3. Places'
    BY <1>0, <1>4, <2>1, <2>2, PlacesKept DEF ChunkQueued
  <2> QED BY <1>0, <1>4, <2>3 DEF Shape, Types, ChunkQueued
<1>5. CASE FinishQueuing(q)
  <2>1. Types'
    <3>1. args' \in [Groups -> ArgsType] /\ \A h \in Groups : args'[h].io_queue = args[h].io_queue
      BY <1>5, QueuerArgs DEF SameQueues
    <3> QED BY <1>0, <1>5, <3>1 DEF Types, FinishQueuing
  <2>2. /\ InPlace(pc') /\ (pc'[Main] = "next" <=> pc[Main] = "next")
        /\ \A u \in Queuers \cup IoAll : pc'[u] = "insert" => pc[u] = "insert"
    BY <1>5, FinishMoves
  <2>3. Places'
    BY <1>0, <1>5, <2>2, PlacesKept DEF FinishQueuing
  <2> QED BY <2>1, <2>3 DEF Shape
<1>6. CASE FinishPrefetch(q)
  <2>1. Types'
    <3>1. args' \in [Groups -> ArgsType] /\ \A h \in Groups : args'[h].io_queue = args[h].io_queue
      BY <1>6, QueuerArgs DEF SameQueues
    <3> QED BY <1>0, <1>6, <3>1 DEF Types, FinishPrefetch
  <2>2. PICK p : /\ p = [pc EXCEPT ![q] = "exited"]
                 /\ pc' = p \/ pc' = [p EXCEPT ![Queuer(g + 1)] = "create"]
    BY <1>1, <1>6 DEF FinishPrefetch, Create
  <2>3. InPlace(p) /\ p[Main] = pc[Main]
    BY <1>0, <2>2, MoveInPlace DEF QueuerPlaces
  <2>4. InPlace(pc') /\ pc'[Main] = pc[Main]
    <3>1. PICK k : k = g + 1
      OBVIOUS
    <3>2. /\ InPlace([p EXCEPT ![Queuer(k)] = "create"])
          /\ [p EXCEPT ![Queuer(k)] = "create"][Main] = p[Main]
      BY <2>3, CreateInPlace
    <3> QED BY <2>2, <2>3, <3>1, <3>2
  <2>5. \A u \in Queuers \cup IoAll : pc'[u] = "insert" => pc[u] = "insert"
    BY <1>0, <2>2, <2>3, ThreadFacts DEF InPlace
  <2>6. Places'
    BY <1>0, <1>6, <2>4, <2>5, PlacesKept DEF FinishPrefetch
  <2> QED BY <2>1, <2>6 DEF Shape
<1> QED BY <1>2, <1>3, <1>4, <1>5, <1>6

\* Each step of the processing thread keeps the shape.
LEMMA ShapeMain ==
  ASSUME Shape, NextGroup \/ Wait \/ ProcessChunk \/ Readbuf \/ ChunkProcessed \/ Cleanup
  PROVE  Shape'
<1>0. /\ Types /\ Places /\ InPlace(pc) /\ Main \in Threads
      /\ agno \in Nat /\ AGs \in Nat
  BY ThreadFacts, ConstantFacts DEF Shape, Places, Types
<1>1. \A u \in Queuers \cup IoAll : u # Main /\ u \in Threads
  BY ThreadFacts
<1>2. \A h \in Groups : Queuer(h) # Main /\ Queuer(h) \in Threads
  BY ThreadFacts
<1>3. ASSUME NEW label \in MainPlaces, pc' = [pc EXCEPT ![Main] = label],
             \A u \in Threads \ {Main} : todo'[u] = todo[u] /\ chunk'[u] = chunk[u],
             label # "next" => agno' < AGs
      PROVE  Places'
  <2>1. InPlace(pc') /\ pc'[Main] = label /\ \A u \in Threads \ {Main} : pc'[u] = pc[u]
    BY <1>0, <1>3, GotoFact
  <2> QED BY <1>0, <1>1, <1>2, <1>3, <2>1 DEF Places
<1>4. CASE NextGroup
  <2>1. Places'
    <3>1. \E label \in MainPlaces : pc' = [pc EXCEPT ![Main] = label]
      BY <1>4 DEF NextGroup, Goto, MainPlaces
    <3>2. agno' < AGs
      BY <1>0, <1>4 DEF NextGroup
    <3> QED BY <1>3, <1>4, <3>1, <3>2 DEF NextGroup
  <2> QED BY <1>0, <1>4, <2>1 DEF Shape, Types, NextGroup
<1>5. CASE Wait
  <2>1. Places'
    <3>1. \E label \in MainPlaces : pc' = [pc EXCEPT ![Main] = label]
      BY <1>5 DEF Wait, Goto, MainPlaces
    <3>2. agno' < AGs
      BY <1>0, <1>5 DEF Wait, Places
    <3> QED BY <1>3, <1>5, <3>1, <3>2 DEF Wait
  <2> QED BY <1>0, <1>5, <2>1 DEF Shape, Types, Wait
<1>6. CASE ProcessChunk
  <2>1. agno < AGs /\ agno \in Groups /\ Clusters[agno] \in Seq(Nat \ {0})
    BY <1>0, <1>6, ConstantFacts DEF ProcessChunk, Places, Types, Groups
  <2>2. Places'
    <3>1. \E label \in MainPlaces : pc' = [pc EXCEPT ![Main] = label]
      BY <1>6 DEF ProcessChunk, Goto, MainPlaces
    <3>2. \A u \in Threads \ {Main} : todo'[u] = todo[u] /\ chunk'[u] = chunk[u]
      BY <1>0, <1>6 DEF ProcessChunk, Types
    <3>3. agno' < AGs
      BY <1>6, <2>1 DEF ProcessChunk
    <3> QED BY <1>3, <3>1, <3>2, <3>3
  <2>3. args' \in [Groups -> ArgsType] /\ \A h \in Groups : args'[h].io_queue = args[h].io_queue
    BY <1>6, OtherArgs DEF SameArgs, SameQueues
  <2>4. PICK b : b = Clusters[agno][chunk[Main] + 1]
    OBVIOUS
  <2>5. b \in DOMAIN Dirs /\ b \in Blocks
    <3>1. chunk[Main] \in Nat /\ chunk[Main] < Len(Clusters[agno])
      BY <1>0, <1>6 DEF ProcessChunk, Types
    <3>2. chunk[Main] + 1 \in DOMAIN Clusters[agno]
      BY <2>1, <3>1
    <3> QED BY <2>1, <2>4, <3>2, ConstantFacts
  <2>6. <<b>> \o Dirs[b] \in Seq(Blocks)
    <3>1. Dirs[b] \in Seq(Blocks)
      BY <2>5, ConstantFacts
    <3> QED BY <2>5, <3>1
  <2>7. Queuing(<<b>> \o Dirs[b]) \in Seq(Jobs)
    BY <2>6, QueuingFact
  <2>8. todo' \in [Threads -> Seq(Jobs)] /\ chunk' \in [Threads -> Nat]
    BY <1>0, <1>6, <2>4, <2>7 DEF ProcessChunk, Types
  <2> QED BY <1>0, <1>6, <2>2, <2>3, <2>8 DEF Shape, Types, ProcessChunk
<1>7. CASE Readbuf
  <2>1. /\ Head(todo[Main]).b \in Blocks /\ Tail(todo[Main]) \in Seq(Jobs)
    BY <1>0, <1>7, HeadFact DEF Readbuf
  <2>2. /\ todo' \in [Threads -> Seq(Jobs)] /\ owner' \in [Blocks -> Threads \cup {OnQueue, None}]
        /\ uptodate' \subseteq Blocks /\ \A u \in Threads \ {Main} : todo'[u] = todo[u]
    BY <1>0, <1>7, <2>1 DEF Readbuf, Types
  <2>3. Places'
    BY <1>0, <1>1, <1>7, <2>2 DEF Places, Readbuf
  <2> QED BY <1>0, <1>7, <2>2, <2>3 DEF Shape, Types, Readbuf
<1>8. CASE ChunkProcessed
  <2>1. Places'
    <3>1. \E label \in MainPlaces : pc' = [pc EXCEPT ![Main] = label]
      BY <1>8 DEF ChunkProcessed, Goto, MainPlaces
    <3>2. agno' < AGs
      BY <1>0, <1>8 DEF ChunkProcessed, Places
    <3> QED BY <1>3, <1>8, <3>1, <3>2 DEF ChunkProcessed
  <2> QED BY <1>0, <1>8, <2>1 DEF Shape, Types, ChunkProcessed
<1>9. CASE Cleanup
  <2>1. args' \in [Groups -> ArgsType] /\ \A h \in Groups : args'[h].io_queue = args[h].io_queue
    BY <1>9, CleanupArgs DEF SameQueues
  <2>2. chunk' \in [Threads -> Nat] /\ \A u \in Threads \ {Main} : chunk'[u] = chunk[u]
    BY <1>0, <1>9 DEF Cleanup, Types
  <2>3. agno' \in 0 .. AGs
    BY <1>0, <1>9 DEF Cleanup, Places
  <2>4. Places'
    <3>1. "next" \in MainPlaces /\ pc' = [pc EXCEPT ![Main] = "next"]
      BY <1>9 DEF Cleanup, Goto, MainPlaces
    <3> QED BY <1>3, <1>9, <2>2, <3>1 DEF Cleanup
  <2> QED BY <1>0, <1>9, <2>1, <2>2, <2>3, <2>4 DEF Shape, Types, Cleanup
<1> QED BY <1>4, <1>5, <1>6, <1>7, <1>8, <1>9

\* start_inode_prefetch keeps the shape.
LEMMA ShapeStart ==
  ASSUME Shape, Start
  PROVE  Shape'
<1>0. Types /\ Places /\ InPlace(pc) /\ started \in Nat /\ AGs \in Nat
  BY ConstantFacts DEF Shape, Places, Types
<1>1. args' \in [Groups -> ArgsType] /\ \A h \in Groups : args'[h].io_queue = args[h].io_queue
  BY StartArgs DEF SameQueues
<1>2. pc' = pc \/ pc' = [pc EXCEPT ![Queuer(started)] = "create"]
  BY DEF Start, Create
<1>3. InPlace(pc') /\ pc'[Main] = pc[Main]
  BY <1>0, <1>2, CreateInPlace
<1>4. \A u \in Queuers \cup IoAll : pc'[u] = "insert" => pc[u] = "insert"
  BY <1>0, <1>2, ThreadFacts DEF InPlace
<1>5. Places'
  BY <1>0, <1>3, <1>4, PlacesKept DEF Start
<1>6. started' \in 0 .. AGs
  BY <1>0 DEF Start
<1> QED BY <1>0, <1>1, <1>5, <1>6 DEF Shape, Types, Start

\* The actions of each thread.
LEMMA StepCases ==
  ASSUME [Next]_vars
  PROVE  \/ UNCHANGED vars
         \/ \E t \in Threads : Getbuf(t) \/ Insert(t) \/ Putbuf(t)
         \/ \E q \in Queuers : \/ CreateIoThreads(q) \/ NextChunk(q) \/ ChunkQueued(q)
                               \/ FinishQueuing(q) \/ FinishPrefetch(q)
         \/ \E w \in IoAll : \/ IoStart(w) \/ IoTest(w) \/ IoWoken(w) \/ TakeBatch(w)
                             \/ BatchReturns(w) \/ ReadBatch(w) \/ NextInodeBuf(w)
                             \/ PutBatch(w) \/ Relock(w)
         \/ NextGroup \/ Wait \/ ProcessChunk \/ Readbuf \/ ChunkProcessed \/ Cleanup
         \/ Start
BY DEF Next, Step, Ended

\* The shape is inductive.
LEMMA ShapeStep == Shape /\ [Next]_vars => Shape'
<1> SUFFICES ASSUME Shape, [Next]_vars PROVE Shape'
  OBVIOUS
<1>1. CASE UNCHANGED vars
  BY <1>1 DEF Shape, Types, Places, InPlace, vars
<1> QED BY <1>1, StepCases, ShapeQueuing, ShapeQueuer, ShapeIo, ShapeMain, ShapeStart

-----------------------------------------------------------------------------
(* Life: when the threads of a group run *)

\* Nothing runs at the start.
LEMMA LifeInit == Init => Life
<1> SUFFICES ASSUME Init PROVE Life
  OBVIOUS
<1>1. \A t \in Queuers \cup IoAll : pc[t] = "none"
  BY ThreadFacts DEF Init
<1>2. \A g \in Groups : ~args[g].next_args /\ \A w \in Io(g) : w \in IoAll
  BY ThreadFacts DEF Init, NoArgs
<1> QED BY <1>1, <1>2, ThreadFacts DEF Life, LifeOf

\* A queueing thread that runs, an I/O thread that runs.
Running(t, place) ==
  /\ t \in Queuers => place \in {"chunk", "queueing", "insert", "join"}
  /\ t \in IoAll => place \notin {"none", "exited"}

\* Steps in which no thread begins to run, and only an I/O thread ends.
LEMMA LifeKept ==
  ASSUME Shape, Life, started' = started,
         \A h \in Groups : args'[h].next_args = args[h].next_args,
         \A u \in Queuers \cup IoAll : \/ pc'[u] = pc[u]
                                       \/ /\ Running(u, pc[u])
                                          /\ Running(u, pc'[u]) \/ (u \in IoAll /\ pc'[u] = "exited")
  PROVE  Life'
<1> SUFFICES ASSUME NEW g \in Groups PROVE LifeOf(g)'
  BY DEF Life
<1>1. LifeOf(g) /\ Queuer(g) \in Queuers /\ Queuer(g) \notin IoAll
  BY ThreadFacts DEF Life
<1>2. \A w \in Io(g) : w \in IoAll /\ w \notin Queuers
  BY ThreadFacts
<1>3. pc'[Queuer(g)] = pc[Queuer(g)]
      \/ (pc[Queuer(g)] \in {"chunk", "queueing", "insert", "join"}
            /\ pc'[Queuer(g)] \in {"chunk", "queueing", "insert", "join"})
  BY <1>1 DEF Running
<1>4. \A w \in Io(g) : /\ pc[w] = "none" => pc'[w] = "none"
                       /\ pc[w] \in {"none", "exited"} => pc'[w] \in {"none", "exited"}
  BY <1>2 DEF Running
<1>5. args[g].next_args /\ pc[Queuer(g + 1)] = "none" => pc'[Queuer(g + 1)] = "none"
  <2>1. args[g].next_args => g + 1 \in Groups
    BY <1>1, ConstantFacts DEF LifeOf, Shape, Types, Groups
  <2>2. g + 1 \in Groups => Queuer(g + 1) \in Queuers
    BY ThreadFacts
  <2> QED BY <2>1, <2>2 DEF Running
<1> QED BY <1>1, <1>3, <1>4, <1>5 DEF LifeOf

\* pf_queuing_worker creates the I/O threads of its group, or returns.
LEMMA LifeCreate ==
  ASSUME Shape, Life, NEW q \in Queuers, CreateIoThreads(q)
  PROVE  Life'
<1>0. PICK g \in Groups : g = AG(q) /\ q = Queuer(g)
  BY ThreadFacts
<1>1. LifeOf(g) /\ pc[q] = "create" /\ started' = started
      /\ \A h \in Groups : args'[h].next_args = args[h].next_args
  BY <1>0, QueuerArgs DEF Life, CreateIoThreads, SameArgs, SameReign
<1>2. pc'[q] \in {"chunk", "exited"}
      /\ (pc'[q] = "exited" => \A w \in Io(g) : pc'[w] = pc[w])
      /\ \A u \in (Queuers \cup IoAll) \ ({q} \cup Io(g)) : pc'[u] = pc[u]
  <2>1. q \in Threads /\ InPlace(pc) /\ \A u \in Queuers \cup IoAll : u \in Threads /\ u # Main
    BY ThreadFacts DEF Shape, Places
  <2>2. q \notin Io(g) /\ \A w \in Io(g) : w \in IoAll
    BY <1>0, ThreadFacts
  <2>3. ASSUME NEW n \in 1 .. IoThreads,
               pc' = [t \in Threads |->
                 IF t \in {<<"io", g, m>> : m \in 1 .. n} THEN "init"
                 ELSE IF t = q THEN "chunk" ELSE pc[t]]
        PROVE  pc'[q] = "chunk" /\ \A u \in (Queuers \cup IoAll) \ ({q} \cup Io(g)) : pc'[u] = pc[u]
    <3>1. {<<"io", g, m>> : m \in 1 .. n} \subseteq Io(g)
      BY <2>3, ConstantFacts DEF Io
    <3> QED BY <2>1, <2>2, <2>3, <3>1
  <2>4. ASSUME NEW p, p = [pc EXCEPT ![q] = "exited"], pc' = p \/ pc' = Woken(g, p)
        PROVE  pc'[q] = "exited" /\ \A u \in (Queuers \cup IoAll) \ {q} : pc'[u] = pc[u]
    <3>1. p[q] = "exited" /\ DOMAIN p = Threads /\ \A u \in (Queuers \cup IoAll) \ {q} : p[u] = pc[u]
      BY <2>1, <2>4 DEF InPlace
    <3>2. \A u \in Queuers \cup IoAll : Woken(g, p)[u] = p[u]
      BY <2>1 DEF Woken
    <3> QED BY <2>4, <3>1, <3>2
  <2>5. \/ \E n \in 1 .. IoThreads :
             pc' = [t \in Threads |->
                 IF t \in {<<"io", g, m>> : m \in 1 .. n} THEN "init"
                 ELSE IF t = q THEN "chunk" ELSE pc[t]]
        \/ \E p : p = [pc EXCEPT ![q] = "exited"] /\ (pc' = p \/ pc' = Woken(g, p))
    BY <1>0 DEF CreateIoThreads
  <2> QED BY <2>2, <2>3, <2>4, <2>5
<1>3. ASSUME NEW h \in Groups PROVE LifeOf(h)'
  <2>0. LifeOf(h) /\ Queuer(h) \in Queuers /\ Queuer(h) \notin IoAll
        /\ AG(Queuer(h)) = h /\ \A w \in Io(h) : w \in IoAll /\ w \notin Queuers /\ AG(w) = h
    BY <1>3, ThreadFacts DEF Life
  <2>1. args[h].next_args /\ pc[Queuer(h + 1)] = "none" => pc'[Queuer(h + 1)] = "none"
    <3>1. args[h].next_args => h + 1 \in Groups
      BY <2>0, ConstantFacts DEF LifeOf, Shape, Types, Groups
    <3>2. h + 1 \in Groups => Queuer(h + 1) \in Queuers /\ Queuer(h + 1) \notin Io(g)
      BY ThreadFacts
    <3> QED BY <1>1, <1>2, <3>1, <3>2
  <2>2. CASE h = g
    <3>1. args[g].next_args => g + 1 < started /\ pc[Queuer(g + 1)] = "none"
      BY <1>0, <1>1 DEF LifeOf
    <3>2. ~(started <= g)
      BY <1>0, <1>1 DEF LifeOf
    <3>3. \A w \in Io(g) : pc[w] = "none"
      BY <1>0, <1>1 DEF LifeOf
    <3> QED BY <1>0, <1>1, <1>2, <2>1, <2>2, <3>1, <3>2, <3>3 DEF LifeOf
  <2>3. CASE h # g
    <3>1. pc'[Queuer(h)] = pc[Queuer(h)] /\ \A w \in Io(h) : pc'[w] = pc[w]
      BY <1>0, <1>2, <2>0, <2>3, ThreadFacts
    <3> QED BY <1>1, <2>0, <2>1, <3>1 DEF LifeOf
  <2> QED BY <2>2, <2>3
<1> QED BY <1>3 DEF Life

\* The end of a queueing thread, which may create the next one.
LEMMA FinishPrefetchMoves ==
  ASSUME Shape, NEW q \in Queuers, FinishPrefetch(q), NEW g, g = AG(q)
  PROVE  /\ pc[q] = "join" /\ Joined(g) /\ started' = started
         /\ \E p : /\ p = [pc EXCEPT ![q] = "exited"]
                   /\ \/ pc' = p
                      \/ args[g].next_args /\ pc' = [p EXCEPT ![Queuer(g + 1)] = "create"]
<1>1. pc[q] = "join" /\ Joined(g) /\ started' = started
  BY DEF FinishPrefetch
<1>2. PICK p : p = [pc EXCEPT ![q] = "exited"]
  OBVIOUS
<1>3. pc' = p \/ (args[g].next_args /\ pc' = [p EXCEPT ![Queuer(g + 1)] = "create"])
  BY <1>2 DEF FinishPrefetch, Create
<1> QED BY <1>1, <1>2, <1>3

\* The end of a group's queueing thread: its readers have ended, and the next
\* group's thread, if this one was to start it, begins.
LEMMA LifeFinish ==
  ASSUME Shape, Life, NEW q \in Queuers, FinishPrefetch(q)
  PROVE  Life'
<1>0. PICK g \in Groups : g = AG(q) /\ q = Queuer(g)
  BY ThreadFacts
<1>1. PICK p : /\ p = [pc EXCEPT ![q] = "exited"]
               /\ \/ pc' = p
                  \/ args[g].next_args /\ pc' = [p EXCEPT ![Queuer(g + 1)] = "create"]
  BY <1>0, FinishPrefetchMoves
<1>2. /\ pc[q] = "join" /\ started' = started /\ LifeOf(g)
      /\ \A w \in Io(g) : pc[w] \in {"none", "exited"}
      /\ \A h \in Groups : args'[h].next_args = args[h].next_args
  BY <1>0, FinishPrefetchMoves, QueuerArgs DEF Life, Joined
<1>3. g \in Nat /\ g # g + 1 /\ (args[g].next_args => g + 1 \in Groups)
  BY <1>0, <1>2, ConstantFacts DEF LifeOf, Shape, Types, Groups
<1>4. p[q] = "exited" /\ \A u \in (Queuers \cup IoAll) \ {q} : p[u] = pc[u] /\ u # q
  BY <1>1, ThreadFacts DEF Shape, Places, InPlace
<1>5. pc'[q] = "exited"
  <2>1. args[g].next_args => Queuer(g + 1) # q
    BY <1>0, <1>3, ThreadFacts
  <2>2. DOMAIN p = Threads /\ q \in Threads
    BY <1>1, ThreadFacts DEF Shape, Places, InPlace
  <2> QED BY <1>1, <1>4, <2>1, <2>2
<1>6. \A u \in (Queuers \cup IoAll) \ {q} :
        \/ pc'[u] = pc[u]
        \/ args[g].next_args /\ u = Queuer(g + 1) /\ pc'[u] = "create"
  <2>1. DOMAIN p = Threads /\ \A u \in Queuers \cup IoAll : u \in Threads
    BY <1>1, ThreadFacts DEF Shape, Places, InPlace
  <2> QED BY <1>1, <1>4, <2>1
<1>7. args[g].next_args => g + 1 < started /\ pc[Queuer(g + 1)] = "none"
                           /\ (\A w \in Io(g + 1) : pc[w] = "none")
                           /\ (args[g + 1].next_args => pc[Queuer(g + 2)] = "none")
  <2>1. args[g].next_args => g + 1 < started /\ pc[Queuer(g + 1)] = "none"
    BY <1>0, <1>2 DEF LifeOf
  <2>2. args[g].next_args => LifeOf(g + 1) /\ g + 1 + 1 = g + 2
    BY <1>3 DEF Life
  <2> QED BY <2>1, <2>2 DEF LifeOf
<1>8. ASSUME NEW h \in Groups PROVE LifeOf(h)'
  <2>0. LifeOf(h) /\ Queuer(h) \in Queuers /\ h \in Nat
        /\ AG(Queuer(h)) = h /\ \A w \in Io(h) : w \in IoAll /\ w \notin Queuers
    BY <1>8, ThreadFacts, ConstantFacts DEF Life
  <2>1. \A w \in Io(h) : pc'[w] = pc[w]
    <3>1. args[g].next_args => Queuer(g + 1) \in Queuers
      BY <1>3, ThreadFacts
    <3> QED BY <1>6, <2>0, <3>1, ThreadFacts
  <2>2. args[h].next_args /\ h # g /\ pc[Queuer(h + 1)] = "none" => pc'[Queuer(h + 1)] = "none"
    <3>1. SUFFICES ASSUME args[h].next_args, h # g, pc[Queuer(h + 1)] = "none"
                   PROVE  pc'[Queuer(h + 1)] = "none"
      OBVIOUS
    <3>2. h + 1 \in Groups /\ h + 1 # g + 1
      BY <2>0, <1>3, <3>1, ConstantFacts DEF LifeOf, Shape, Types, Groups
    <3>3. Queuer(h + 1) \in Queuers /\ Queuer(h + 1) # q
      BY <1>2, <3>1, <3>2, ThreadFacts
    <3>4. args[g].next_args => Queuer(h + 1) # Queuer(g + 1)
      BY <1>3, <3>2, ThreadFacts
    <3> QED BY <1>6, <3>1, <3>3, <3>4
  <2>3. CASE h = g
    <3>1. ~(started <= g)
      BY <1>0, <1>2 DEF LifeOf
    <3> QED BY <1>0, <1>2, <1>5, <1>7, <2>1, <2>3, <3>1 DEF LifeOf
  <2>4. CASE h = g + 1 /\ args[g].next_args
    <3>1. ~(started <= h)
      BY <1>3, <1>7, <2>0, <2>4, ConstantFacts DEF Shape, Types
    <3>2. pc'[Queuer(h)] \in {"none", "create"}
      BY <1>0, <1>2, <1>6, <1>7, <2>0, <2>4
    <3>3. \A w \in Io(h) : pc'[w] = "none"
      BY <1>7, <2>1, <2>4
    <3>4. args[h].next_args => pc'[Queuer(h + 1)] = "none"
      <4>1. h # g /\ g + 2 = h + 1
        BY <1>3, <2>4
      <4> QED BY <1>7, <2>2, <2>4, <4>1
    <3> QED BY <1>2, <2>0, <3>1, <3>2, <3>3, <3>4 DEF LifeOf
  <2>5. CASE h # g /\ ~(h = g + 1 /\ args[g].next_args)
    <3>1. pc'[Queuer(h)] = pc[Queuer(h)]
      <4>1. Queuer(h) # q /\ (args[g].next_args => Queuer(h) # Queuer(g + 1))
        BY <1>0, <1>3, <2>0, <2>5, ThreadFacts
      <4> QED BY <1>6, <2>0, <4>1
    <3> QED BY <1>2, <2>0, <2>1, <2>2, <2>5, <3>1 DEF LifeOf
  <2> QED BY <2>3, <2>4, <2>5
<1> QED BY <1>8 DEF Life

\* The start of a group, or the request that the group before it start it.
LEMMA LifeStart ==
  ASSUME Shape, Life, Start
  PROVE  Life'
<1>1. PICK g \in Groups : g = started
  BY StartArgs
<1>2. LifeOf(g) /\ g \in Nat /\ started' = g + 1
  BY <1>1, ConstantFacts DEF Life, Start
<1>3. pc[Queuer(g)] = "none" /\ ~args[g].next_args /\ \A w \in Io(g) : pc[w] = "none"
  BY <1>1, <1>2 DEF LifeOf
<1>4. /\ pc'[Queuer(g)] \in {"none", "create"}
      /\ \A u \in (Queuers \cup IoAll) \ {Queuer(g)} : pc'[u] = pc[u]
  <2>1. pc' = pc \/ pc' = [pc EXCEPT ![Queuer(g)] = "create"]
    BY <1>1, StartArgs
  <2>2. DOMAIN pc = Threads /\ \A u \in Queuers \cup IoAll : u \in Threads
    BY ThreadFacts DEF Shape, Places, InPlace
  <2> QED BY <1>3, <2>1, <2>2, ThreadFacts
<1>5. ASSUME NEW h \in Groups PROVE LifeOf(h)'
  <2>0. LifeOf(h) /\ Queuer(h) \in Queuers /\ h \in Nat
        /\ \A w \in Io(h) : w \in IoAll /\ w \notin Queuers
    BY <1>5, ThreadFacts, ConstantFacts DEF Life
  <2>1. \A w \in Io(h) : pc'[w] = pc[w]
    BY <1>4, <2>0, ThreadFacts
  <2>2. args[h].next_args => h + 1 < g /\ h + 1 \in Groups
    BY <1>1, <2>0, ConstantFacts DEF LifeOf, Shape, Types, Groups
  <2>3. args[h].next_args => pc'[Queuer(h + 1)] = pc[Queuer(h + 1)]
    <3>1. args[h].next_args => Queuer(h + 1) \in Queuers /\ Queuer(h + 1) # Queuer(g)
      BY <1>1, <1>2, <2>0, <2>2, ThreadFacts
    <3> QED BY <1>4, <3>1
  <2>4. CASE h = g
    <3>1. ~args'[g].next_args
      <4>1. g - 1 # g
        BY <1>2
      <4> QED BY <1>1, <1>3, <4>1, StartArgs
    <3>2. ~(started' <= g)
      BY <1>2
    <3> QED BY <1>3, <1>4, <2>1, <2>4, <3>1, <3>2 DEF LifeOf
  <2>5. CASE h # g /\ args'[h].next_args = args[h].next_args
    <3>1. pc'[Queuer(h)] = pc[Queuer(h)]
      BY <1>1, <1>4, <2>0, <2>5, ThreadFacts
    <3>2. started' <= h => started <= h
      BY <1>1, <1>2, <2>0
    <3>3. args[h].next_args => h + 1 < started'
      BY <1>2, <2>0, <2>2
    <3> QED BY <2>0, <2>1, <2>3, <2>5, <3>1, <3>2, <3>3 DEF LifeOf
  <2>6. CASE h = g - 1 /\ pc' = pc
    <3>1. ~(started' <= h) /\ h + 1 < started' /\ h + 1 = g
      BY <1>2, <2>0, <2>6
    <3> QED BY <1>3, <2>0, <2>6, <3>1 DEF LifeOf
  <2> QED BY <1>1, <2>4, <2>5, <2>6, StartArgs
<1> QED BY <1>5 DEF Life

\* The other steps move threads that run.
LEMMA RunningMoves ==
  ASSUME Shape, NEW u \in Queuers \cup IoAll,
         \/ \E t \in Threads : Getbuf(t) \/ Insert(t) \/ Putbuf(t)
         \/ \E q \in Queuers : NextChunk(q) \/ ChunkQueued(q) \/ FinishQueuing(q)
         \/ \E w \in IoAll : \/ IoStart(w) \/ IoTest(w) \/ IoWoken(w) \/ TakeBatch(w)
                             \/ BatchReturns(w) \/ ReadBatch(w) \/ NextInodeBuf(w)
                             \/ PutBatch(w) \/ Relock(w)
         \/ NextGroup \/ Wait \/ ProcessChunk \/ Readbuf \/ ChunkProcessed \/ Cleanup
  PROVE  \/ pc'[u] = pc[u]
         \/ /\ Running(u, pc[u])
            /\ Running(u, pc'[u]) \/ (u \in IoAll /\ pc'[u] = "exited")
<1>0. /\ u \in Threads /\ u # Main /\ (u \in Queuers => u \notin IoAll)
      /\ DOMAIN pc = Threads /\ InPlace(pc)
  BY ThreadFacts DEF Shape, Places, InPlace
<1>1. ASSUME NEW t \in Threads, Getbuf(t) \/ Putbuf(t)
      PROVE  pc'[u] = pc[u] \/ (Running(u, pc[u]) /\ Running(u, pc'[u]))
  BY <1>0, <1>1 DEF Getbuf, Putbuf, Goto, Running
<1>2. ASSUME NEW t \in Threads, Insert(t)
      PROVE  pc'[u] = pc[u] \/ (Running(u, pc[u]) /\ Running(u, pc'[u]))
  <2>1. pc[t] = "insert" /\ pc'[t] = "queueing" /\ AG(t) \in Groups
        /\ (u # t => \/ pc'[u] = pc[u]
                     \/ u \in Io(AG(t)) /\ pc[u] = "asleep" /\ pc'[u] = "woken")
    BY <1>2, InsertMoves, InsertEffect
  <2>2. u \in Io(AG(t)) => u \notin Queuers
    BY <2>1, ThreadFacts
  <2> QED BY <2>1, <2>2 DEF Running
<1>3. ASSUME NEW q \in Queuers, NextChunk(q) \/ ChunkQueued(q)
      PROVE  pc'[u] = pc[u] \/ (Running(u, pc[u]) /\ Running(u, pc'[u]))
  BY <1>0, <1>3, ThreadFacts DEF NextChunk, ChunkQueued, Goto, Running
<1>4. ASSUME NEW q \in Queuers, FinishQueuing(q)
      PROVE  pc'[u] = pc[u] \/ (Running(u, pc[u]) /\ Running(u, pc'[u]))
  <2>1. pc[q] = "chunk" /\ pc'[q] = "join" /\ AG(q) \in Groups /\ q \notin IoAll
        /\ (u # q => \/ pc'[u] = pc[u]
                     \/ u \in Io(AG(q)) /\ pc[u] = "asleep" /\ pc'[u] = "woken")
    BY <1>4, FinishMoves, ThreadFacts DEF FinishQueuing
  <2>2. u \in Io(AG(q)) => u \notin Queuers
    BY <2>1, ThreadFacts
  <2> QED BY <2>1, <2>2 DEF Running
<1>5. ASSUME NEW w \in IoAll,
             \/ IoStart(w) \/ IoTest(w) \/ IoWoken(w) \/ TakeBatch(w) \/ BatchReturns(w)
             \/ ReadBatch(w) \/ NextInodeBuf(w) \/ PutBatch(w) \/ Relock(w)
      PROVE  \/ pc'[u] = pc[u]
             \/ Running(u, pc[u]) /\ u \in IoAll /\ (Running(u, pc'[u]) \/ pc'[u] = "exited")
  <2>1. u # w => pc'[u] = pc[u]
    BY <1>0, <1>5, IoMoves
  <2>2. w \in Threads /\ w \notin Queuers
    BY ThreadFacts
  <2>3. pc[w] \notin {"none", "exited"}
    BY <1>5 DEF IoStart, IoTest, IoWoken, TakeBatch, BatchReturns, ReadBatch,
                NextInodeBuf, PutBatch, Relock
  <2>4. pc'[w] # "none"
    <3>1. CASE pc' = pc
      BY <2>3, <3>1
    <3>2. CASE \E label : label # "none" /\ pc' = [pc EXCEPT ![w] = label]
      BY <1>0, <2>2, <3>2
    <3>3. pc' = pc \/ \E label : label # "none" /\ pc' = [pc EXCEPT ![w] = label]
      <4>1. CASE IoStart(w) BY <4>1 DEF IoStart, Goto
      <4>2. CASE IoTest(w) BY <4>2 DEF IoTest, Goto
      <4>3. CASE IoWoken(w) BY <4>3 DEF IoWoken, Goto
      <4>4. CASE TakeBatch(w) BY <4>4 DEF TakeBatch, Goto
      <4>5. CASE BatchReturns(w) BY <4>5 DEF BatchReturns, Goto
      <4>6. CASE ReadBatch(w) BY <4>6 DEF ReadBatch, Goto
      <4>7. CASE PutBatch(w) BY <4>7 DEF PutBatch, Goto
      <4>8. CASE Relock(w) BY <4>8 DEF Relock, Goto
      <4>9. CASE NextInodeBuf(w) BY <4>9 DEF NextInodeBuf
      <4> QED BY <1>5, <4>1, <4>2, <4>3, <4>4, <4>5, <4>6, <4>7, <4>8, <4>9
    <3> QED BY <3>1, <3>2, <3>3
  <2> QED BY <2>1, <2>2, <2>3, <2>4 DEF Running
<1>6. ASSUME NextGroup \/ Wait \/ ProcessChunk \/ Readbuf \/ ChunkProcessed \/ Cleanup
      PROVE  pc'[u] = pc[u]
  BY <1>0, <1>6 DEF NextGroup, Wait, ProcessChunk, Readbuf, ChunkProcessed, Cleanup, Goto
<1> QED BY <1>1, <1>2, <1>3, <1>4, <1>5, <1>6

\* They leave next_args and what has been started alone.
LEMMA NextArgsKept ==
  ASSUME Shape,
         \/ \E t \in Threads : Getbuf(t) \/ Insert(t) \/ Putbuf(t)
         \/ \E q \in Queuers : NextChunk(q) \/ ChunkQueued(q) \/ FinishQueuing(q)
         \/ \E w \in IoAll : \/ IoStart(w) \/ IoTest(w) \/ IoWoken(w) \/ TakeBatch(w)
                             \/ BatchReturns(w) \/ ReadBatch(w) \/ NextInodeBuf(w)
                             \/ PutBatch(w) \/ Relock(w)
         \/ NextGroup \/ Wait \/ ProcessChunk \/ Readbuf \/ ChunkProcessed \/ Cleanup
  PROVE  started' = started /\ \A h \in Groups : args'[h].next_args = args[h].next_args
<1>1. CASE args' = args
  BY <1>1 DEF Getbuf, Insert, Putbuf, NextChunk, ChunkQueued, FinishQueuing, IoStart, IoTest,
              IoWoken, TakeBatch, BatchReturns, ReadBatch, NextInodeBuf, PutBatch, Relock,
              NextGroup, Wait, ProcessChunk, Readbuf, ChunkProcessed, Cleanup
<1>2. ASSUME NEW t \in Threads, Insert(t)
      PROVE  started' = started /\ \A h \in Groups : args'[h].next_args = args[h].next_args
  <2>1. PICK g : g = AG(t)
    OBVIOUS
  <2>2. /\ args'[g].next_args = args[g].next_args
        /\ \A h \in Groups \ {g} : args'[h] = args[h]
    BY <1>2, <2>1, InsertEffect
  <2>3. started' = started
    BY <1>2 DEF Insert
  <2> QED BY <2>2, <2>3
<1>3. ASSUME NEW q \in Queuers, NextChunk(q) \/ FinishQueuing(q)
      PROVE  started' = started /\ \A h \in Groups : args'[h].next_args = args[h].next_args
  BY <1>3, QueuerArgs DEF NextChunk, FinishQueuing, SameArgs, SameReign
<1>4. ASSUME NEW w \in IoAll, TakeBatch(w) \/ BatchReturns(w)
      PROVE  started' = started /\ \A h \in Groups : args'[h].next_args = args[h].next_args
  <2>1. CASE TakeBatch(w)
    <3>1. PICK g : g = AG(w)
      OBVIOUS
    <3>2. SameReign
      BY <2>1, <3>1, TakeBatchEffect
    <3> QED BY <2>1, <3>2 DEF TakeBatch, SameReign
  <2>2. CASE BatchReturns(w)
    BY <2>2, OtherArgs DEF BatchReturns, SameArgs, SameReign
  <2> QED BY <1>4, <2>1, <2>2
<1>5. ASSUME ProcessChunk \/ Cleanup
      PROVE  started' = started /\ \A h \in Groups : args'[h].next_args = args[h].next_args
  BY <1>5, OtherArgs, CleanupArgs DEF ProcessChunk, Cleanup, SameArgs, SameReign
<1>6. \/ args' = args
      \/ \E t \in Threads : Insert(t)
      \/ \E q \in Queuers : NextChunk(q) \/ FinishQueuing(q)
      \/ \E w \in IoAll : TakeBatch(w) \/ BatchReturns(w)
      \/ ProcessChunk \/ Cleanup
  BY DEF Getbuf, Putbuf, ChunkQueued, IoStart, IoTest, IoWoken, ReadBatch, NextInodeBuf,
         PutBatch, Relock, NextGroup, Wait, Readbuf, ChunkProcessed
<1> QED BY <1>1, <1>2, <1>3, <1>4, <1>5, <1>6

\* Life is inductive.
LEMMA LifeStep == Shape /\ Life /\ [Next]_vars => Life'
<1> SUFFICES ASSUME Shape, Life, [Next]_vars PROVE Life'
  OBVIOUS
<1>1. CASE UNCHANGED vars
  BY <1>1 DEF Life, LifeOf, vars
<1>2. CASE \/ \E t \in Threads : Getbuf(t) \/ Insert(t) \/ Putbuf(t)
           \/ \E q \in Queuers : NextChunk(q) \/ ChunkQueued(q) \/ FinishQueuing(q)
           \/ \E w \in IoAll : \/ IoStart(w) \/ IoTest(w) \/ IoWoken(w) \/ TakeBatch(w)
                               \/ BatchReturns(w) \/ ReadBatch(w) \/ NextInodeBuf(w)
                               \/ PutBatch(w) \/ Relock(w)
           \/ NextGroup \/ Wait \/ ProcessChunk \/ Readbuf \/ ChunkProcessed \/ Cleanup
  <2>1. started' = started /\ \A h \in Groups : args'[h].next_args = args[h].next_args
    BY <1>2, NextArgsKept
  <2>2. \A u \in Queuers \cup IoAll :
          \/ pc'[u] = pc[u]
          \/ /\ Running(u, pc[u])
             /\ Running(u, pc'[u]) \/ (u \in IoAll /\ pc'[u] = "exited")
    BY <1>2, RunningMoves
  <2> QED BY <2>1, <2>2, LifeKept
<1>3. CASE \E q \in Queuers : CreateIoThreads(q) \/ FinishPrefetch(q)
  BY <1>3, LifeCreate, LifeFinish
<1>4. CASE Start
  BY <1>4, LifeStart
<1> QED BY <1>1, <1>2, <1>3, <1>4, StepCases

-----------------------------------------------------------------------------
(* Owned: the locks of the buffers *)

\* No lock is held at the start.
LEMMA OwnedInit == Init => Owned
<1> SUFFICES ASSUME Init PROVE Owned
  OBVIOUS
<1>1. \A g \in Groups : args[g].io_queue = {}
  BY DEF Init, NoArgs
<1>2. \A b \in Blocks : owner[b] = None
  BY DEF Init
<1>3. OnOneQueue
  BY <1>1, <1>2, PrefetchAssumption DEF OnOneQueue
<1>4. ASSUME NEW t \in Queuers \cup IoAll PROVE Owns(t)
  <2>1. pc[t] = "none" /\ todo[t] = <<>> /\ batch[t] = {} /\ t # None
    BY <1>4, ThreadFacts DEF Init
  <2> QED BY <1>2, <2>1 DEF Owns, Inserting, Batched
<1> QED BY <1>3, <1>4 DEF Owned

\* A thread whose jobs, batch and locks are left alone keeps what it owns.
LEMMA OwnsKept ==
  ASSUME Shape, NEW u \in Queuers \cup IoAll, Owns(u),
         todo'[u] = todo[u], batch'[u] = batch[u], chunk'[u] = chunk[u],
         \A b \in Blocks : owner'[b] = u <=> owner[b] = u,
         \/ pc'[u] = pc[u]
         \/ /\ pc[u] # "insert" /\ pc'[u] # "insert"
            /\ u \in IoAll /\ pc[u] \in {"read", "queueing"} => pc'[u] = "queueing"
  PROVE  Owns(u)'
<1>0. u \in Threads /\ Types /\ Places
  BY ThreadFacts DEF Shape
<1>1. Inserting(u)'
  <2>1. CASE pc'[u] = "insert"
    <3>1. pc[u] = "insert" /\ Head(todo[u]).b \in Blocks
      BY <1>0, <2>1, HeadFact DEF Places
    <3> QED BY <3>1 DEF Owns, Inserting
  <2>2. CASE pc'[u] # "insert"
    BY <2>2 DEF Inserting
  <2> QED BY <2>1, <2>2
<1>2. ASSUME u \in Queuers, NEW n \in DOMAIN todo[u] PROVE QueuerJob(u, n)'
  <2>1. todo[u][n].b \in Blocks
    <3>1. todo[u] \in Seq(Jobs)
      BY <1>0 DEF Types
    <3>2. todo[u][n] \in Jobs
      BY <1>2, <3>1
    <3> QED BY <3>2 DEF Jobs
  <2>2. QueuerJob(u, n)
    BY <1>2 DEF Owns
  <2> QED BY <2>1, <2>2 DEF QueuerJob
<1>3. ASSUME u \in IoAll, NEW n \in DOMAIN todo[u] PROVE IoJob(u, n)'
  BY <1>3 DEF Owns, IoJob
<1>4. ASSUME u \in IoAll PROVE Batched(u)'
  <2>1. Batched(u) /\ batch[u] \subseteq Blocks
    BY <1>0, <1>4 DEF Owns, Types
  <2>2. \A b \in batch'[u] : owner'[b] = u
    BY <2>1 DEF Batched
  <2>3. batch'[u] # {} => pc'[u] \in {"read", "queueing", "insert"}
    BY <1>4, <2>1 DEF Batched
  <2>4. pc'[u] = "insert" => Head(todo'[u]).b \notin batch'[u]
    BY <2>1 DEF Batched
  <2>5. ASSUME NEW b \in Blocks, owner'[b] = u
        PROVE  b \in batch'[u] \/ (pc'[u] = "insert" /\ b = Head(todo'[u]).b)
    BY <2>1, <2>5 DEF Batched
  <2> QED BY <2>2, <2>3, <2>4, <2>5 DEF Batched
<1> QED BY <1>1, <1>2, <1>3, <1>4 DEF Owns

\* The queues are sound as long as neither they nor their locks change.
LEMMA QueuesKept ==
  ASSUME Shape, OnOneQueue, \A h \in Groups : args'[h].io_queue = args[h].io_queue,
         \A b \in Blocks : owner'[b] = OnQueue <=> owner[b] = OnQueue
  PROVE  OnOneQueue'
<1>1. \A g \in Groups : args[g].io_queue \subseteq Blocks
  BY DEF Shape, Types, ArgsType
<1> QED BY <1>1 DEF OnOneQueue

\* The jobs that are left when the first is done.
LEMMA TailOwned ==
  ASSUME Shape, NEW t \in Queuers \cup IoAll, Owns(t), todo[t] # <<>>
  PROVE  /\ t \in Queuers => \A n \in DOMAIN Tail(todo[t]) :
              LET job == Tail(todo[t])[n] IN
              /\ job.op = "put" => /\ n = Len(Tail(todo[t])) /\ IsInode(job.b)
                                   /\ owner[job.b] = t /\ ~IsInode(Head(todo[t]).b)
              /\ ~(job.op = "queue" /\ IsInode(job.b))
         /\ t \in IoAll => \A n \in DOMAIN Tail(todo[t]) :
              Tail(todo[t])[n].op = "queue" /\ ~IsInode(Tail(todo[t])[n].b)
<1>0. /\ Head(todo[t]) = todo[t][1] /\ 1 \in DOMAIN todo[t]
      /\ Len(Tail(todo[t])) = Len(todo[t]) - 1 /\ Len(todo[t]) \in Nat \ {0}
      /\ \A n \in DOMAIN Tail(todo[t]) : /\ n + 1 \in DOMAIN todo[t]
                                         /\ Tail(todo[t])[n] = todo[t][n + 1]
      /\ Tail(todo[t]) \in Seq(Jobs) /\ todo[t] \in Seq(Jobs) /\ Head(todo[t]) \in Jobs
  BY ThreadFacts, HeadFact DEF Shape, Types
<1>1. ASSUME t \in Queuers, NEW n \in DOMAIN Tail(todo[t])
      PROVE  LET job == Tail(todo[t])[n] IN
             /\ job.op = "put" => /\ n = Len(Tail(todo[t])) /\ IsInode(job.b)
                                  /\ owner[job.b] = t /\ ~IsInode(Head(todo[t]).b)
             /\ ~(job.op = "queue" /\ IsInode(job.b))
  <2>1. QueuerJob(t, n + 1) /\ QueuerJob(t, 1)
    BY <1>0, <1>1 DEF Owns
  <2>2. n \in Nat \ {0} /\ n <= Len(todo[t]) - 1
    <3>1. n \in 1 .. Len(Tail(todo[t])) /\ Len(Tail(todo[t])) = Len(todo[t]) - 1
          /\ Len(todo[t]) \in Nat
      BY <1>0, <1>1
    <3> QED BY <3>1
  <2>3. Len(todo[t]) # 1
    <3>1. \A k \in Nat : n <= k - 1 => k # 1
      BY <2>2
    <3>2. Len(todo[t]) \in Nat
      BY <1>0
    <3> QED BY <2>2, <3>1, <3>2, Zenon
  <2>4. PICK job : job = Tail(todo[t])[n] /\ job = todo[t][n + 1]
    BY <1>0, <1>1
  <2>5. job.op = "put" => n + 1 = Len(todo[t]) /\ IsInode(job.b) /\ owner[job.b] = t
    BY <2>1, <2>4 DEF QueuerJob
  <2>6. ~(job.op = "queue" /\ IsInode(job.b))
    BY <2>1, <2>3, <2>4 DEF QueuerJob
  <2>7. ~IsInode(Head(todo[t]).b)
    <3>1. Head(todo[t]).op = "queue" => ~IsInode(Head(todo[t]).b)
      BY <1>0, <2>1, <2>3 DEF QueuerJob
    <3>2. Head(todo[t]).op # "put"
      BY <1>0, <2>1, <2>3 DEF QueuerJob
    <3> QED BY <1>0, <3>1, <3>2 DEF Jobs
  <2>8. n + 1 = Len(todo[t]) => n = Len(Tail(todo[t]))
    BY <1>0, <2>2
  <2> QED BY <2>4, <2>5, <2>6, <2>7, <2>8
<1>2. ASSUME t \in IoAll, NEW n \in DOMAIN Tail(todo[t])
      PROVE  Tail(todo[t])[n].op = "queue" /\ ~IsInode(Tail(todo[t])[n].b)
  BY <1>0, <1>2 DEF Owns, IoJob
<1> QED BY <1>1, <1>2

\* pf_queue_io up to the insertion, and the release of an inode buffer.
LEMMA OwnedGetbuf ==
  ASSUME Shape, Shape', Owned, NEW t \in Threads, Getbuf(t) \/ Putbuf(t)
  PROVE  Owned'
<1>1. t \in Queuers \cup IoAll /\ t # None /\ t # OnQueue /\ None # OnQueue
  BY PlaceFacts, ThreadFacts DEF Getbuf, Putbuf
<1>2. /\ Owns(t) /\ OnOneQueue /\ pc[t] = "queueing" /\ todo[t] # <<>>
      /\ UNCHANGED <<args, batch, chunk>>
  BY <1>1 DEF Owned, Getbuf, Putbuf
<1>3. PICK b : b = Head(todo[t]).b
  OBVIOUS
<1>4. /\ b \in Blocks /\ Head(todo[t]) \in Jobs /\ Head(todo[t]) = todo[t][1]
      /\ 1 \in DOMAIN todo[t] /\ todo[t] \in Seq(Jobs) /\ t \in Threads
      /\ owner \in [Blocks -> Threads \cup {OnQueue, None}]
      /\ pc[t] # "insert" /\ DOMAIN pc = Threads /\ DOMAIN todo = Threads
  BY <1>2, <1>3, HeadFact, ThreadFacts DEF Shape, Types, Places, InPlace
<1>5. \A u \in (Queuers \cup IoAll) \ {t} : Owns(u)'
  <2>1. ASSUME NEW u \in (Queuers \cup IoAll) \ {t} PROVE Owns(u)'
    <3>1. u \in Threads /\ u # None /\ u # t /\ Owns(u)
      BY <2>1, ThreadFacts DEF Owned
    <3>2. todo'[u] = todo[u] /\ pc'[u] = pc[u]
      BY <1>4, <3>1 DEF Getbuf, Putbuf, Goto
    <3>3. \A c \in Blocks : owner'[c] = u <=> owner[c] = u
      <4>1. CASE Getbuf(t)
        BY <1>4, <3>1, <4>1 DEF Getbuf
      <4>2. CASE Putbuf(t)
        <5>1. owner[b] = t
          <6>1. t \in Queuers /\ Head(todo[t]).op = "put"
            BY <1>1, <1>2, <1>4, <4>2 DEF Owns, IoJob, Putbuf
          <6>2. QueuerJob(t, 1)
            BY <1>2, <1>4, <6>1 DEF Owns
          <6> QED BY <1>3, <1>4, <6>1, <6>2 DEF QueuerJob
        <5> QED BY <1>3, <1>4, <3>1, <4>2, <5>1 DEF Putbuf
      <4> QED BY <4>1, <4>2
    <3> QED BY <1>2, <3>1, <3>2, <3>3, OwnsKept
  <2> QED BY <2>1
<1>6. CASE Getbuf(t) /\ b \notin uptodate
  <2>1. /\ owner[b] = None /\ owner' = [owner EXCEPT ![b] = t] /\ todo' = todo
        /\ pc'[t] = "insert" /\ Head(todo[t]).op = "queue"
    BY <1>3, <1>4, <1>6 DEF Getbuf, Goto
  <2>2. owner'[b] = t /\ \A c \in Blocks \ {b} : owner'[c] = owner[c]
    BY <1>4, <2>1
  <2>3. Inserting(t)'
    BY <1>3, <2>1, <2>2 DEF Inserting
  <2>4. ASSUME t \in Queuers, NEW n \in DOMAIN todo[t] PROVE QueuerJob(t, n)'
    <3>1. QueuerJob(t, n)
      BY <1>2, <2>4 DEF Owns
    <3>2. todo[t][n] \in Jobs
      BY <1>4, <2>4
    <3>3. todo[t][n].b \in Blocks
      BY <3>2 DEF Jobs
    <3>4. owner[todo[t][n].b] = t => owner'[todo[t][n].b] = t
      BY <1>1, <2>1, <2>2, <3>3
    <3> QED BY <1>2, <2>1, <3>1, <3>4 DEF QueuerJob
  <2>5. ASSUME t \in IoAll PROVE Batched(t)' /\ \A n \in DOMAIN todo'[t] : IoJob(t, n)'
    <3>1. Batched(t) /\ \A n \in DOMAIN todo[t] : IoJob(t, n)
      BY <1>2, <2>5 DEF Owns
    <3>2. b \notin batch[t]
      BY <1>1, <2>1, <3>1 DEF Batched
    <3>3. \A c \in batch[t] : owner'[c] = t
      BY <1>4, <2>2, <3>1, ThreadFacts DEF Batched, Shape, Types
    <3>4. \A c \in Blocks : owner'[c] = t => c \in batch[t] \/ c = b
      BY <1>2, <2>2, <3>1 DEF Batched
    <3>5. Batched(t)'
      BY <1>2, <1>3, <2>1, <3>2, <3>3, <3>4 DEF Batched
    <3> QED BY <2>1, <3>1, <3>5 DEF IoJob
  <2>6. Owns(t)'
    BY <2>1, <2>3, <2>4, <2>5 DEF Owns
  <2>7. OnOneQueue'
    <3>1. \A c \in Blocks : owner'[c] = OnQueue <=> owner[c] = OnQueue
      BY <1>1, <2>1, <2>2
    <3> QED BY <1>2, <3>1, QueuesKept
  <2> QED BY <1>5, <2>6, <2>7 DEF Owned
<1>7. CASE Getbuf(t) /\ b \in uptodate /\ IsInode(b)
  <2>1. /\ owner[b] = None /\ owner' = [owner EXCEPT ![b] = t]
        /\ todo'[t] = Queuing(Dirs[b]) \o <<[op |-> "put", b |-> b]>> \o Tail(todo[t])
        /\ pc'[t] = pc[t] /\ Head(todo[t]).op = "queue"
    BY <1>3, <1>4, <1>7 DEF Getbuf
  <2>2. owner'[b] = t /\ \A c \in Blocks \ {b} : owner'[c] = owner[c]
    BY <1>4, <2>1
  <2>3. t \in Queuers /\ t \notin IoAll
    BY <1>1, <1>2, <1>3, <1>4, <1>7, ThreadFacts DEF Owns, IoJob
  <2>4. Tail(todo[t]) = <<>>
    <3>1. QueuerJob(t, 1)
      BY <1>2, <1>4, <2>3 DEF Owns
    <3>2. Len(todo[t]) = 1
      BY <1>3, <1>4, <1>7, <2>1, <3>1 DEF QueuerJob
    <3>3. Tail(todo[t]) \in Seq(Jobs) /\ Len(Tail(todo[t])) = Len(todo[t]) - 1
      BY <1>2, <1>4, HeadFact DEF Shape
    <3>4. Len(Tail(todo[t])) = 0
      BY <3>2, <3>3
    <3> QED BY <3>3, <3>4, EmptySeq
  <2>5. PICK dirs : dirs = Queuing(Dirs[b])
    OBVIOUS
  <2>6. /\ dirs \in Seq(Jobs) /\ Len(dirs) \in Nat
        /\ \A n \in DOMAIN dirs : dirs[n].op = "queue" /\ ~IsInode(dirs[n].b)
    <3>1. b \in DOMAIN Dirs /\ Dirs[b] \in Seq(Blocks)
      BY <1>7, ConstantFacts DEF IsInode
    <3>2. \A n \in DOMAIN Dirs[b] : ~IsInode(Dirs[b][n])
      BY <3>1, ConstantFacts
    <3>3. /\ dirs \in Seq(Jobs)
          /\ \A n \in DOMAIN dirs : n \in DOMAIN Dirs[b] /\ dirs[n] = [op |-> "queue", b |-> Dirs[b][n]]
      BY <2>5, <3>1, QueuingFact
    <3> QED BY <3>2, <3>3
  <2>7. PICK put : put = [op |-> "put", b |-> b] /\ put \in Jobs
    <3>1. b \in Blocks
      BY <1>4
    <3>2. [op |-> "put", b |-> b] \in Jobs
      BY <3>1 DEF Jobs
    <3> QED BY <3>2
  <2>8. todo'[t] = Append(dirs, put)
    <3>1. dirs \o <<put>> \in Seq(Jobs)
      BY <2>6, <2>7
    <3>2. (dirs \o <<put>>) \o <<>> = dirs \o <<put>>
      BY <3>1
    <3>3. dirs \o <<put>> = Append(dirs, put)
      BY <2>6, <2>7
    <3> QED BY <2>1, <2>4, <2>5, <2>7, <3>2, <3>3, Zenon
  <2>9. /\ Len(todo'[t]) = Len(dirs) + 1 /\ DOMAIN todo'[t] = 1 .. Len(dirs) + 1
        /\ \A n \in DOMAIN todo'[t] : \/ n \in DOMAIN dirs /\ todo'[t][n] = dirs[n]
                                      \/ n = Len(dirs) + 1 /\ todo'[t][n] = put
    BY <2>6, <2>7, <2>8
  <2>10. ASSUME NEW n \in DOMAIN todo'[t] PROVE QueuerJob(t, n)'
    <3>1. PICK job : job = todo'[t][n]
      OBVIOUS
    <3>2. CASE n \in DOMAIN dirs /\ job = dirs[n]
      <4>1. job.op = "queue" /\ ~IsInode(job.b)
        BY <2>6, <3>2
      <4> QED BY <3>1, <4>1 DEF QueuerJob
    <3>3. CASE n = Len(dirs) + 1 /\ job = put
      <4>1. job.op = "put" /\ job.b = b
        BY <2>7, <3>3
      <4>2. n = Len(todo'[t]) /\ IsInode(job.b) /\ owner'[job.b] = t /\ job.op # "queue"
        BY <1>7, <2>2, <2>9, <3>3, <4>1
      <4> QED BY <3>1, <4>2 DEF QueuerJob
    <3> QED BY <2>9, <2>10, <3>1, <3>2, <3>3
  <2>11. Inserting(t)'
    BY <1>2, <2>1 DEF Inserting
  <2>12. Owns(t)'
    BY <2>3, <2>10, <2>11 DEF Owns
  <2>13. OnOneQueue'
    <3>1. \A c \in Blocks : owner'[c] = OnQueue <=> owner[c] = OnQueue
      BY <1>1, <2>1, <2>2
    <3> QED BY <1>2, <3>1, QueuesKept
  <2> QED BY <1>5, <2>12, <2>13 DEF Owned
<1>8. CASE (Getbuf(t) /\ b \in uptodate /\ ~IsInode(b)) \/ Putbuf(t)
  <2>1. todo'[t] = Tail(todo[t]) /\ pc'[t] = pc[t]
    BY <1>3, <1>4, <1>8 DEF Getbuf, Putbuf
  <2>2. \/ owner' = owner
        \/ Head(todo[t]).op = "put" /\ owner' = [owner EXCEPT ![b] = None]
    BY <1>3, <1>8 DEF Getbuf, Putbuf
  <2>3. Head(todo[t]).op = "put" => t \in Queuers /\ t \notin IoAll /\ IsInode(b) /\ owner[b] = t
    <3>1. Head(todo[t]).op = "put" => t \in Queuers
      BY <1>1, <1>2, <1>4 DEF Owns, IoJob
    <3>2. t \in Queuers => QueuerJob(t, 1) /\ t \notin IoAll
      BY <1>2, <1>4, ThreadFacts DEF Owns
    <3> QED BY <1>3, <1>4, <3>1, <3>2 DEF QueuerJob
  <2>4. Inserting(t)'
    BY <1>2, <2>1 DEF Inserting
  <2>5. ASSUME t \in Queuers, NEW n \in DOMAIN todo'[t] PROVE QueuerJob(t, n)'
    <3>1. PICK job : job = todo'[t][n] /\ job = Tail(todo[t])[n]
      BY <2>1
    <3>2. /\ job.op = "put" => /\ n = Len(todo'[t]) /\ IsInode(job.b)
                               /\ owner[job.b] = t /\ ~IsInode(b)
          /\ ~(job.op = "queue" /\ IsInode(job.b))
      BY <1>1, <1>2, <1>3, <2>1, <2>5, <3>1, TailOwned
    <3>3. job.op = "put" => owner' = owner
      BY <2>2, <2>3, <3>2
    <3> QED BY <3>1, <3>2, <3>3 DEF QueuerJob
  <2>6. ASSUME t \in IoAll PROVE Batched(t)' /\ \A n \in DOMAIN todo'[t] : IoJob(t, n)'
    <3>1. owner' = owner
      BY <2>2, <2>3, <2>6
    <3>2. Batched(t)
      BY <1>2, <2>6 DEF Owns
    <3>3. Batched(t)'
      BY <1>2, <2>1, <3>1, <3>2 DEF Batched
    <3>4. \A n \in DOMAIN todo'[t] : IoJob(t, n)'
      BY <1>1, <1>2, <2>1, <2>6, TailOwned DEF IoJob
    <3> QED BY <3>3, <3>4
  <2>7. Owns(t)'
    BY <2>4, <2>5, <2>6 DEF Owns
  <2>8. OnOneQueue'
    <3>1. \A c \in Blocks : owner'[c] = OnQueue <=> owner[c] = OnQueue
      BY <1>1, <1>4, <2>2, <2>3
    <3> QED BY <1>2, <3>1, QueuesKept
  <2> QED BY <1>5, <2>7, <2>8 DEF Owned
<1> QED BY <1>3, <1>6, <1>7, <1>8

\* The insertion: the block is locked for the queue from here on.
LEMMA OwnedInsert ==
  ASSUME Shape, Owned, NEW t \in Threads, Insert(t)
  PROVE  Owned'
<1>1. PICK g : g = AG(t)
  OBVIOUS
<1>2. PICK b : b = Head(todo[t]).b
  OBVIOUS
<1>3. /\ t \in Queuers \cup IoAll /\ g \in Groups /\ pc[t] = "insert" /\ todo[t] # <<>>
      /\ b \in Blocks /\ \A h \in Groups \ {g} : args'[h] = args[h]
      /\ args'[g].io_queue = args[g].io_queue \cup {b}
  BY <1>1, <1>2, InsertEffect
<1>4. /\ owner' = [owner EXCEPT ![b] = OnQueue] /\ todo' = [todo EXCEPT ![t] = Tail(@)]
      /\ batch' = batch /\ chunk' = chunk
  BY <1>2 DEF Insert
<1>5. Owns(t) /\ OnOneQueue /\ owner[b] = t /\ t # OnQueue
  BY <1>2, <1>3, ThreadFacts DEF Owned, Owns, Inserting
<1>6. owner'[b] = OnQueue /\ \A c \in Blocks \ {b} : owner'[c] = owner[c]
  BY <1>3, <1>4 DEF Shape, Types
<1>7. todo'[t] = Tail(todo[t]) /\ \A u \in Threads \ {t} : todo'[u] = todo[u]
  BY <1>4 DEF Shape, Types
<1>8. /\ pc'[t] = "queueing"
      /\ \A u \in (Queuers \cup IoAll) \ {t} :
           pc'[u] = pc[u] \/ (pc[u] = "asleep" /\ pc'[u] = "woken")
  BY InsertMoves
<1>9. ASSUME NEW u \in (Queuers \cup IoAll) \ {t} PROVE Owns(u)'
  <2>1. u \in Threads /\ u # OnQueue /\ Owns(u)
    BY <1>9, ThreadFacts DEF Owned
  <2>2. \A c \in Blocks : owner'[c] = u <=> owner[c] = u
    BY <1>5, <1>6, <1>9, <2>1
  <2>3. todo'[u] = todo[u] /\ batch'[u] = batch[u] /\ chunk'[u] = chunk[u]
    BY <1>4, <1>7, <1>9, <2>1
  <2> QED BY <1>8, <1>9, <2>1, <2>2, <2>3, OwnsKept
<1>10. ASSUME t \in Queuers, NEW n \in DOMAIN todo'[t] PROVE QueuerJob(t, n)'
  <2>1. PICK job : job = todo'[t][n] /\ job = Tail(todo[t])[n]
    BY <1>7
  <2>2. /\ job.op = "put" => /\ n = Len(todo'[t]) /\ IsInode(job.b)
                             /\ owner[job.b] = t /\ ~IsInode(b)
        /\ ~(job.op = "queue" /\ IsInode(job.b))
    BY <1>2, <1>3, <1>5, <1>7, <1>10, <2>1, TailOwned
  <2>3. job.op = "put" => owner'[job.b] = t
    <3>1. IsInode(job.b) => job.b \in Blocks
      BY ConstantFacts DEF IsInode
    <3>2. job.op = "put" => job.b \in Blocks \ {b} /\ owner[job.b] = t
      BY <2>2, <3>1
    <3> QED BY <1>6, <3>2
  <2> QED BY <2>1, <2>2, <2>3 DEF QueuerJob
<1>11. ASSUME t \in IoAll PROVE Batched(t)' /\ \A n \in DOMAIN todo'[t] : IoJob(t, n)'
  <2>1. Batched(t)
    BY <1>5, <1>11 DEF Owns
  <2>2. b \notin batch[t] /\ batch[t] \subseteq Blocks
    BY <1>2, <1>3, <2>1, ThreadFacts DEF Batched, Shape, Types
  <2>3. \A c \in batch[t] : owner'[c] = t
    BY <1>6, <2>1, <2>2 DEF Batched
  <2>4. \A c \in Blocks : owner'[c] = t => c \in batch[t]
    BY <1>2, <1>5, <1>6, <2>1 DEF Batched
  <2>5. Batched(t)'
    BY <1>4, <1>8, <2>3, <2>4 DEF Batched
  <2>6. \A n \in DOMAIN todo'[t] : IoJob(t, n)'
    BY <1>3, <1>5, <1>7, <1>11, TailOwned DEF IoJob
  <2> QED BY <2>5, <2>6
<1>12. Owns(t)'
  BY <1>8, <1>10, <1>11 DEF Owns, Inserting
<1>13. \A h \in Groups : b \notin args[h].io_queue
  BY <1>5 DEF OnOneQueue
<1>14. \A h \in Groups : args[h].io_queue \subseteq Blocks
  BY DEF Shape, Types, ArgsType
<1>15. OnOneQueue'
  <2>1. \A h \in Groups : \A c \in args'[h].io_queue : owner'[c] = OnQueue
    <3>1. ASSUME NEW h \in Groups, NEW c \in args'[h].io_queue PROVE owner'[c] = OnQueue
      <4>1. CASE c = b
        BY <1>6, <4>1
      <4>2. CASE c # b
        <5>1. c \in args[h].io_queue
          BY <1>3, <3>1, <4>2
        <5> QED BY <1>5, <1>6, <1>14, <4>2, <5>1 DEF OnOneQueue
      <4> QED BY <4>1, <4>2
    <3> QED BY <3>1
  <2>2. \A h, k \in Groups : h # k => args'[h].io_queue \cap args'[k].io_queue = {}
    <3>1. ASSUME NEW h \in Groups, NEW k \in Groups, h # k
          PROVE  args'[h].io_queue \cap args'[k].io_queue = {}
      <4>1. args[h].io_queue \cap args[k].io_queue = {}
        BY <1>5, <3>1 DEF OnOneQueue
      <4>2. /\ args'[h].io_queue = IF h = g THEN args[h].io_queue \cup {b} ELSE args[h].io_queue
            /\ args'[k].io_queue = IF k = g THEN args[k].io_queue \cup {b} ELSE args[k].io_queue
        BY <1>3, <3>1
      <4> QED BY <1>13, <3>1, <4>1, <4>2
    <3> QED BY <3>1
  <2>3. \A c \in Blocks : owner'[c] = OnQueue => \E h \in Groups : c \in args'[h].io_queue
    <3>1. \A h \in Groups : args[h].io_queue \subseteq args'[h].io_queue
      BY <1>3
    <3> QED BY <1>3, <1>5, <1>6, <3>1 DEF OnOneQueue
  <2> QED BY <2>1, <2>2, <2>3 DEF OnOneQueue
<1> QED BY <1>9, <1>12, <1>15 DEF Owned

\* The steps that change no lock of a buffer and no job; where one moves a
\* thread, the thread works on no buffer before or after.
LEMMA OwnedInert ==
  ASSUME Shape, Owned, owner' = owner, todo' = todo, batch' = batch,
         \A h \in Groups : args'[h].io_queue = args[h].io_queue,
         NEW t \in Threads, t \notin Queuers => chunk' = chunk, t \in Queuers => todo[t] = <<>>,
         \A u \in Threads \ {t} : chunk'[u] = chunk[u],
         \A u \in Queuers \cup IoAll :
           \/ pc'[u] = pc[u]
           \/ /\ pc[u] \notin {"insert", "read", "queueing"}
              /\ pc'[u] # "insert"
           \/ u \in Queuers /\ pc[u] # "insert" /\ pc'[u] # "insert"
           \/ pc[u] = "read" /\ pc'[u] = "queueing"
  PROVE  Owned'
<1>1. OnOneQueue'
  BY QueuesKept DEF Owned
<1>2. ASSUME NEW u \in Queuers \cup IoAll PROVE Owns(u)'
  <2>1. Owns(u) /\ u \in Threads /\ (u \in Queuers => u \notin IoAll)
    BY <1>2, ThreadFacts DEF Owned
  <2>2. \/ pc'[u] = pc[u]
        \/ /\ pc[u] # "insert" /\ pc'[u] # "insert"
           /\ u \in IoAll /\ pc[u] \in {"read", "queueing"} => pc'[u] = "queueing"
    BY <1>2, <2>1
  <2>3. CASE chunk'[u] = chunk[u]
    BY <2>1, <2>2, <2>3, OwnsKept
  <2>4. CASE u = t /\ u \in Queuers
    <3>1. todo'[u] = <<>> /\ DOMAIN todo'[u] = {}
      BY <2>4
    <3>2. Inserting(u)'
      <4>1. pc'[u] = "insert" => pc[u] = "insert"
        BY <2>2
      <4> QED BY <2>1, <4>1 DEF Owns, Inserting
    <3> QED BY <2>1, <2>4, <3>1, <3>2 DEF Owns
  <2> QED BY <1>2, <2>1, <2>3, <2>4
<1> QED BY <1>1, <1>2 DEF Owned

\* The steps of pf_io_worker that take and put no buffer, the read included.
LEMMA OwnedIo ==
  ASSUME Shape, Owned, NEW w \in IoAll,
         \/ IoStart(w) \/ IoTest(w) \/ IoWoken(w) \/ BatchReturns(w) \/ ReadBatch(w) \/ Relock(w)
  PROVE  Owned'
<1>1. /\ owner' = owner /\ todo' = todo /\ batch' = batch /\ chunk' = chunk
      /\ \/ pc[w] = "read" /\ pc'[w] = "queueing"
         \/ pc[w] \notin {"insert", "read", "queueing"}
  <2>1. w \in DOMAIN pc
    BY ThreadFacts DEF Shape, Places, InPlace
  <2>2. CASE ReadBatch(w)
    BY <2>1, <2>2 DEF ReadBatch, Goto
  <2>3. CASE IoStart(w) \/ IoTest(w) \/ IoWoken(w) \/ BatchReturns(w) \/ Relock(w)
    <3>1. owner' = owner /\ todo' = todo /\ batch' = batch /\ chunk' = chunk
      BY <2>3 DEF IoStart, IoTest, IoWoken, BatchReturns, Relock
    <3>2. pc[w] \in {"init", "test", "retest", "woken", "batch", "relock"}
      BY <2>3 DEF IoStart, IoTest, IoWoken, BatchReturns, Relock
    <3> QED BY <3>1, <3>2
  <2> QED BY <2>2, <2>3
<1>2. pc'[w] # "insert" /\ \A u \in Threads \ {w} : pc'[u] = pc[u]
  BY IoMoves
<1>3. \A h \in Groups : args'[h].io_queue = args[h].io_queue
  <2>1. CASE BatchReturns(w)
    BY <2>1, OtherArgs DEF SameArgs, SameQueues
  <2>2. CASE IoStart(w) \/ IoTest(w) \/ IoWoken(w) \/ ReadBatch(w) \/ Relock(w)
    BY <2>2 DEF IoStart, IoTest, IoWoken, ReadBatch, Relock
  <2> QED BY <2>1, <2>2
<1>4. \A u \in Queuers \cup IoAll :
        \/ pc'[u] = pc[u]
        \/ /\ pc[u] \notin {"insert", "read", "queueing"}
           /\ pc'[u] # "insert"
        \/ u \in Queuers /\ pc[u] # "insert" /\ pc'[u] # "insert"
        \/ pc[u] = "read" /\ pc'[u] = "queueing"
  BY <1>1, <1>2, ThreadFacts
<1> QED BY <1>1, <1>3, <1>4, ThreadFacts, OwnedInert

\* Those of pf_queuing_worker, and the start of a queueing thread.
LEMMA OwnedQueuer ==
  ASSUME Shape, Owned, Life,
         \/ Start
         \/ \E q \in Queuers : \/ CreateIoThreads(q) \/ ChunkQueued(q) \/ FinishQueuing(q)
                               \/ FinishPrefetch(q)
  PROVE  Owned'
<1>1. owner' = owner /\ todo' = todo /\ batch' = batch /\ chunk' = chunk
  BY DEF Start, CreateIoThreads, ChunkQueued, FinishQueuing, FinishPrefetch
<1>2. \A h \in Groups : args'[h].io_queue = args[h].io_queue
  <2>1. CASE Start
    BY <2>1, StartArgs DEF SameQueues
  <2>2. ASSUME NEW q \in Queuers, CreateIoThreads(q) \/ FinishQueuing(q) \/ FinishPrefetch(q)
        PROVE  \A h \in Groups : args'[h].io_queue = args[h].io_queue
    BY <2>2, QueuerArgs DEF SameArgs, SameQueues
  <2>3. ASSUME NEW q \in Queuers, ChunkQueued(q)
        PROVE  \A h \in Groups : args'[h].io_queue = args[h].io_queue
    BY <2>3 DEF ChunkQueued
  <2> QED BY <2>1, <2>2, <2>3
<1>3. ASSUME NEW u \in Queuers \cup IoAll
      PROVE  \/ pc'[u] = pc[u]
             \/ /\ pc[u] \notin {"insert", "read", "queueing"}
                /\ pc'[u] # "insert"
             \/ u \in Queuers /\ pc[u] # "insert" /\ pc'[u] # "insert"
  <2>0. u \in Threads /\ DOMAIN pc = Threads /\ InPlace(pc)
    BY <1>3, ThreadFacts DEF Shape, Places, InPlace
  <2>1. CASE Start
    <3>1. started \in Groups /\ (pc' = pc \/ pc' = [pc EXCEPT ![Queuer(started)] = "create"])
      BY <2>1, StartArgs
    <3>2. pc[Queuer(started)] = "none"
      <4>1. started <= started
        BY <3>1 DEF Groups
      <4> QED BY <3>1, <4>1 DEF Life, LifeOf
    <3> QED BY <2>0, <3>1, <3>2
  <2>2. ASSUME NEW q \in Queuers, CreateIoThreads(q)
        PROVE  \/ pc'[u] = pc[u]
               \/ /\ pc[u] \notin {"insert", "read", "queueing"}
                  /\ pc'[u] # "insert"
               \/ u \in Queuers /\ pc[u] # "insert" /\ pc'[u] # "insert"
    <3>1. PICK g : g = AG(q) /\ g \in Groups /\ q = Queuer(g)
      BY ThreadFacts
    <3>2. pc[q] = "create" /\ \A v \in Io(g) : pc[v] = "none"
      BY <2>2, <3>1 DEF CreateIoThreads, Life, LifeOf
    <3>3. ASSUME NEW n \in 1 .. IoThreads,
                 pc' = [t \in Threads |->
                   IF t \in {<<"io", g, m>> : m \in 1 .. n} THEN "init"
                   ELSE IF t = q THEN "chunk" ELSE pc[t]]
          PROVE  \/ pc'[u] = pc[u]
                 \/ /\ pc[u] \notin {"insert", "read", "queueing"}
                    /\ pc'[u] # "insert"
      <4>1. CASE u \in {<<"io", g, m>> : m \in 1 .. n}
        <5>1. u \in Io(g)
          BY <3>3, <4>1, ConstantFacts DEF Io
        <5> QED BY <2>0, <3>2, <3>3, <4>1, <5>1
      <4>2. CASE u \notin {<<"io", g, m>> : m \in 1 .. n}
        BY <2>0, <3>2, <3>3, <4>2
      <4> QED BY <4>1, <4>2
    <3>4. ASSUME NEW p, p = [pc EXCEPT ![q] = "exited"], pc' = p \/ pc' = Woken(g, p)
          PROVE  \/ pc'[u] = pc[u]
                 \/ /\ pc[u] \notin {"insert", "read", "queueing"}
                    /\ pc'[u] # "insert"
      <4>1. InPlace(p)
        BY <2>0, <3>4, ThreadFacts, MoveInPlace DEF QueuerPlaces
      <4>2. pc'[u] = p[u]
        <5>1. g \in Groups
          BY <3>1
        <5>2. \A v \in Queuers \cup IoAll : Woken(g, p)[v] = p[v]
          BY <4>1, <5>1, WakeInPlace
        <5> QED BY <1>3, <3>4, <5>2
      <4>3. p[u] = pc[u] \/ (u = q /\ p[u] = "exited")
        BY <2>0, <3>4
      <4> QED BY <3>2, <4>2, <4>3
    <3> QED BY <2>2, <3>1, <3>3, <3>4 DEF CreateIoThreads
  <2>3. ASSUME NEW q \in Queuers, ChunkQueued(q)
        PROVE  \/ pc'[u] = pc[u]
               \/ u \in Queuers /\ pc[u] # "insert" /\ pc'[u] # "insert"
    BY <2>0, <2>3, ThreadFacts DEF ChunkQueued, Goto
  <2>4. ASSUME NEW q \in Queuers, FinishQueuing(q)
        PROVE  \/ pc'[u] = pc[u]
               \/ /\ pc[u] \notin {"insert", "read", "queueing"}
                  /\ pc'[u] # "insert"
    <3>1. pc[q] = "chunk"
      BY <2>4 DEF FinishQueuing
    <3> QED BY <1>3, <2>4, <3>1, FinishMoves
  <2>5. ASSUME NEW q \in Queuers, FinishPrefetch(q)
        PROVE  \/ pc'[u] = pc[u]
               \/ /\ pc[u] \notin {"insert", "read", "queueing"}
                  /\ pc'[u] # "insert"
    <3>1. PICK g : g = AG(q) /\ g \in Groups /\ q = Queuer(g)
      BY ThreadFacts
    <3>2. /\ pc[q] = "join"
          /\ \E p : /\ p = [pc EXCEPT ![q] = "exited"]
                    /\ \/ pc' = p
                       \/ args[g].next_args /\ pc' = [p EXCEPT ![Queuer(g + 1)] = "create"]
      BY <2>5, <3>1, FinishPrefetchMoves
    <3>3. args[g].next_args => pc[Queuer(g + 1)] = "none"
      BY <3>1, <3>2 DEF Life, LifeOf
    <3> QED BY <2>0, <3>2, <3>3
  <2> QED BY <2>1, <2>2, <2>3, <2>4, <2>5
<1> QED BY <1>1, <1>2, <1>3, ThreadFacts, OwnedInert

\* The next chunk: one inode buffer to queue.
LEMMA OwnedNextChunk ==
  ASSUME Shape, Owned, NEW q \in Queuers, NextChunk(q)
  PROVE  Owned'
<1>1. PICK g : g = AG(q) /\ g \in Groups /\ q = Queuer(g) /\ q \in Threads /\ q \notin IoAll
  BY ThreadFacts
<1>2. PICK c : c = chunk[q] + 1
  OBVIOUS
<1>3. c \in DOMAIN Clusters[g] /\ chunk[q] \in Nat
  <2>1. chunk[q] \in Nat /\ chunk[q] < Len(Clusters[g])
    BY <1>1 DEF NextChunk, Shape, Types
  <2>2. Clusters[g] \in Seq(Nat \ {0})
    BY <1>1, ConstantFacts
  <2> QED BY <1>2, <2>1, <2>2
<1>4. PICK x : x = Clusters[g][c] /\ x \in Blocks /\ IsInode(x)
  BY <1>1, <1>3, ConstantFacts DEF IsInode
<1>5. /\ todo' = [todo EXCEPT ![q] = Queuing(<<x>>)] /\ chunk' = [chunk EXCEPT ![q] = @ + 1]
      /\ pc' = [pc EXCEPT ![q] = "queueing"] /\ owner' = owner /\ batch' = batch
  BY <1>1, <1>2, <1>4 DEF NextChunk, Goto
<1>6. \A h \in Groups : args'[h].io_queue = args[h].io_queue
  BY QueuerArgs DEF SameArgs, SameQueues
<1>7. /\ todo'[q] = Queuing(<<x>>) /\ chunk'[q] = c /\ pc'[q] = "queueing"
      /\ \A u \in Threads \ {q} : todo'[u] = todo[u] /\ chunk'[u] = chunk[u] /\ pc'[u] = pc[u]
  BY <1>1, <1>2, <1>5 DEF Shape, Types, Places, InPlace
<1>8. Len(todo'[q]) = 1 /\ \A n \in DOMAIN todo'[q] : todo'[q][n] = [op |-> "queue", b |-> x]
  <2>1. PICK seq : seq = <<x>>
    OBVIOUS
  <2>2. seq \in Seq(Blocks) /\ Len(seq) = 1 /\ \A n \in DOMAIN seq : seq[n] = x
    BY <1>4, <2>1
  <2>3. /\ Len(Queuing(seq)) = Len(seq)
        /\ \A n \in DOMAIN Queuing(seq) :
             n \in DOMAIN seq /\ Queuing(seq)[n] = [op |-> "queue", b |-> seq[n]]
    BY <2>2, QueuingFact
  <2> QED BY <1>7, <2>1, <2>2, <2>3
<1>9. ASSUME NEW n \in DOMAIN todo'[q] PROVE QueuerJob(q, n)'
  <2>1. PICK job : job = todo'[q][n] /\ job.op = "queue" /\ job.b = x
    BY <1>8, <1>9
  <2>2. AG(q)' = g /\ IsInode(job.b)'
    BY <1>1, <1>4, <2>1 DEF AG, IsInode
  <2>3. /\ Len(todo'[q]) = 1 /\ chunk'[q] \in DOMAIN Clusters[g]
        /\ job.b = Clusters[g][chunk'[q]]
    BY <1>3, <1>4, <1>7, <1>8, <2>1
  <2> QED BY <1>1, <2>1, <2>3 DEF QueuerJob
<1>10. Owns(q)'
  BY <1>1, <1>7, <1>9 DEF Owns, Inserting
<1>11. \A u \in (Queuers \cup IoAll) \ {q} : Owns(u)'
  <2>1. ASSUME NEW u \in (Queuers \cup IoAll) \ {q} PROVE Owns(u)'
    <3>1. u \in Threads \ {q} /\ u \in Queuers \cup IoAll /\ Owns(u)
      BY <2>1, ThreadFacts DEF Owned
    <3>2. /\ todo'[u] = todo[u] /\ batch'[u] = batch[u] /\ chunk'[u] = chunk[u] /\ pc'[u] = pc[u]
          /\ \A b \in Blocks : owner'[b] = u <=> owner[b] = u
      BY <1>5, <1>7, <3>1
    <3> QED BY <3>1, <3>2, OwnsKept
  <2> QED BY <2>1
<1>12. OnOneQueue'
  BY <1>5, <1>6, QueuesKept DEF Owned
<1> QED BY <1>10, <1>11, <1>12 DEF Owned

\* The directories of the next buffer of the batch.
LEMMA OwnedNextInodeBuf ==
  ASSUME Shape, Owned, NEW w \in IoAll, NextInodeBuf(w)
  PROVE  Owned'
<1>0. w \in Threads /\ w \notin Queuers /\ DOMAIN todo = Threads
  BY ThreadFacts DEF Shape, Types
<1>1. PICK b : b = Smallest(left[w])
  OBVIOUS
<1>2. b \in DOMAIN Dirs
  <2>1. left[w] \subseteq DOMAIN Dirs /\ left[w] # {} /\ DOMAIN Dirs \subseteq Nat
    BY <1>0, ConstantFacts DEF NextInodeBuf, Shape, Types
  <2>2. left[w] \subseteq Nat /\ left[w] # {}
    BY <2>1
  <2> QED BY <1>1, <2>1, <2>2, SmallestFact
<1>3. /\ todo'[w] = Queuing(Dirs[b]) /\ pc[w] = "queueing"
      /\ \A u \in Threads \ {w} : todo'[u] = todo[u]
      /\ UNCHANGED <<args, pc, owner, batch, chunk>>
  BY <1>0, <1>1 DEF NextInodeBuf
<1>4. \A n \in DOMAIN todo'[w] : IoJob(w, n)'
  <2>1. Dirs[b] \in Seq(Blocks) /\ \A d \in DOMAIN Dirs[b] : ~IsInode(Dirs[b][d])
    BY <1>2, ConstantFacts
  <2> QED BY <1>3, <2>1, QueuingFact DEF IoJob
<1>5. Owns(w) /\ OnOneQueue
  BY DEF Owned
<1>6. Batched(w)'
  <2>1. Batched(w) /\ pc[w] # "insert"
    BY <1>3, <1>5 DEF Owns
  <2> QED BY <1>3, <2>1 DEF Batched
<1>7. Owns(w)'
  BY <1>0, <1>3, <1>4, <1>6 DEF Owns, Inserting
<1>8. \A u \in (Queuers \cup IoAll) \ {w} : Owns(u)'
  <2>1. ASSUME NEW u \in (Queuers \cup IoAll) \ {w} PROVE Owns(u)'
    <3>1. u \in Threads \ {w} /\ u \in Queuers \cup IoAll /\ Owns(u)
      BY <2>1, ThreadFacts DEF Owned
    <3>2. /\ todo'[u] = todo[u] /\ batch'[u] = batch[u] /\ chunk'[u] = chunk[u] /\ pc'[u] = pc[u]
          /\ \A c \in Blocks : owner'[c] = u <=> owner[c] = u
      BY <1>3, <3>1
    <3> QED BY <3>1, <3>2, OwnsKept
  <2> QED BY <2>1
<1>9. OnOneQueue'
  BY <1>3, <1>5, QueuesKept
<1> QED BY <1>7, <1>8, <1>9 DEF Owned

\* The batch is put: its blocks are nobody's.
LEMMA OwnedPutBatch ==
  ASSUME Shape, Owned, NEW w \in IoAll, PutBatch(w)
  PROVE  Owned'
<1>0. w \in Threads /\ w \notin Queuers /\ w # None /\ w # OnQueue /\ None # OnQueue
  BY ThreadFacts
<1>1. /\ pc[w] = "queueing" /\ todo[w] = <<>> /\ batch'[w] = {} /\ pc'[w] = "relock"
      /\ \A u \in Threads \ {w} : batch'[u] = batch[u] /\ pc'[u] = pc[u]
      /\ UNCHANGED <<args, todo, chunk>>
  BY <1>0 DEF PutBatch, Goto, Shape, Types, Places, InPlace
<1>2. owner' = [b \in Blocks |-> IF b \in batch[w] THEN None ELSE owner[b]]
  BY DEF PutBatch, AllOfBatch
<1>3. Owns(w) /\ OnOneQueue
  BY DEF Owned
<1>4. /\ \A b \in batch[w] : owner[b] = w
      /\ \A b \in Blocks : owner[b] = w => b \in batch[w]
      /\ \A n \in DOMAIN todo[w] : IoJob(w, n)
  BY <1>0, <1>1, <1>3 DEF Owns, Batched
<1>5. \A b \in Blocks : owner'[b] # w
  BY <1>0, <1>2, <1>4
<1>6. Owns(w)'
  BY <1>0, <1>1, <1>4, <1>5 DEF Owns, Inserting, Batched, IoJob
<1>7. \A x : x # w /\ x # None => \A b \in Blocks : owner'[b] = x <=> owner[b] = x
  BY <1>2, <1>4
<1>8. \A u \in (Queuers \cup IoAll) \ {w} : Owns(u)'
  <2>1. ASSUME NEW u \in (Queuers \cup IoAll) \ {w} PROVE Owns(u)'
    <3>1. u \in Threads \ {w} /\ u \in Queuers \cup IoAll /\ Owns(u) /\ u # None
      BY <2>1, ThreadFacts DEF Owned
    <3>2. /\ todo'[u] = todo[u] /\ batch'[u] = batch[u] /\ chunk'[u] = chunk[u] /\ pc'[u] = pc[u]
          /\ \A c \in Blocks : owner'[c] = u <=> owner[c] = u
      BY <1>1, <1>7, <3>1
    <3> QED BY <3>1, <3>2, OwnsKept
  <2> QED BY <2>1
<1>9. OnOneQueue'
  BY <1>0, <1>1, <1>3, <1>7, QueuesKept
<1> QED BY <1>6, <1>8, <1>9 DEF Owned

\* A batch leaves the queue: its blocks go over to the I/O thread.
LEMMA OwnedTakeBatch ==
  ASSUME Shape, Owned, NEW w \in IoAll, TakeBatch(w)
  PROVE  Owned'
<1>0. w \in Threads /\ w \notin Queuers /\ w # None /\ w # OnQueue /\ None # OnQueue
  BY ThreadFacts
<1>1. PICK g : g = AG(w)
  OBVIOUS
<1>2. PICK S : /\ S \subseteq args[g].io_queue
               /\ batch' = [batch EXCEPT ![w] = S]
               /\ owner' = [b \in Blocks |-> IF b \in S THEN w ELSE owner[b]]
               /\ args'[g].io_queue = args[g].io_queue \ S
  BY <1>1, TakeBatchEffect
<1>3. g \in Groups /\ \A h \in Groups \ {g} : args'[h] = args[h]
  BY <1>1, TakeBatchEffect
<1>4. /\ pc[w] = "batch" /\ batch'[w] = S /\ pc'[w] = "read"
      /\ \A u \in Threads \ {w} : batch'[u] = batch[u] /\ pc'[u] = pc[u]
      /\ UNCHANGED <<todo, chunk>>
  BY <1>0, <1>2 DEF TakeBatch, Goto, Shape, Types, Places, InPlace
<1>5. Owns(w) /\ OnOneQueue
  BY DEF Owned
<1>6. S \subseteq Blocks /\ \A b \in S : owner[b] = OnQueue
  BY <1>2, <1>3, <1>5 DEF OnOneQueue, Shape, Types, ArgsType
<1>7. batch[w] = {} /\ (\A b \in Blocks : owner[b] # w) /\ \A n \in DOMAIN todo[w] : IoJob(w, n)
  BY <1>0, <1>4, <1>5 DEF Owns, Batched
<1>8. Owns(w)'
  <2>1. Batched(w)'
    BY <1>2, <1>4, <1>6, <1>7 DEF Batched
  <2> QED BY <1>0, <1>4, <1>7, <2>1 DEF Owns, Inserting, IoJob
<1>9. ASSUME NEW u \in (Queuers \cup IoAll) \ {w} PROVE Owns(u)'
  <2>1. u \in Threads \ {w} /\ u \in Queuers \cup IoAll /\ Owns(u) /\ u # OnQueue
    BY <1>9, ThreadFacts DEF Owned
  <2>2. /\ todo'[u] = todo[u] /\ batch'[u] = batch[u] /\ chunk'[u] = chunk[u] /\ pc'[u] = pc[u]
        /\ \A c \in Blocks : owner'[c] = u <=> owner[c] = u
    BY <1>2, <1>4, <1>6, <2>1
  <2> QED BY <2>1, <2>2, OwnsKept
<1>10. OnOneQueue'
  <2>0. \A h \in Groups : args[h].io_queue \subseteq Blocks
    BY DEF Shape, Types, ArgsType
  <2>1. \A h \in Groups \ {g} : args[h].io_queue \cap S = {}
    BY <1>2, <1>3, <1>5 DEF OnOneQueue
  <2>2. \A h \in Groups : args'[h].io_queue = args[h].io_queue \ S
    BY <1>2, <1>3, <2>1
  <2>3. \A h \in Groups : \A b \in args'[h].io_queue : owner'[b] = OnQueue
    BY <1>2, <1>5, <2>0, <2>2 DEF OnOneQueue
  <2>4. \A h, k \in Groups : h # k => args'[h].io_queue \cap args'[k].io_queue = {}
    BY <1>5, <2>2 DEF OnOneQueue
  <2>5. \A b \in Blocks : owner'[b] = OnQueue => \E h \in Groups : b \in args'[h].io_queue
    BY <1>0, <1>2, <1>5, <2>2 DEF OnOneQueue
  <2> QED BY <2>3, <2>4, <2>5 DEF OnOneQueue
<1> QED BY <1>8, <1>9, <1>10 DEF Owned

\* The processing thread touches nothing that is somebody else's.
LEMMA OwnedMain ==
  ASSUME Shape, Owned,
         NextGroup \/ Wait \/ ProcessChunk \/ Readbuf \/ ChunkProcessed \/ Cleanup
  PROVE  Owned'
<1>1. \A h \in Groups : args'[h].io_queue = args[h].io_queue
  <2>1. CASE ProcessChunk
    BY <2>1, OtherArgs DEF SameArgs, SameQueues
  <2>2. CASE Cleanup
    BY <2>2, CleanupArgs DEF SameQueues
  <2>3. CASE NextGroup \/ Wait \/ Readbuf \/ ChunkProcessed
    BY <2>3 DEF NextGroup, Wait, Readbuf, ChunkProcessed
  <2> QED BY <2>1, <2>2, <2>3
<1>2. /\ batch' = batch
      /\ \A u \in Threads \ {Main} : todo'[u] = todo[u] /\ chunk'[u] = chunk[u] /\ pc'[u] = pc[u]
  BY ThreadFacts DEF NextGroup, Wait, ProcessChunk, Readbuf, ChunkProcessed, Cleanup, Goto,
                     Shape, Types, Places, InPlace
<1>3. \A x : x # Main /\ x # None => \A b \in Blocks : owner'[b] = x <=> owner[b] = x
  BY DEF NextGroup, Wait, ProcessChunk, Readbuf, ChunkProcessed, Cleanup, Shape, Types
<1>4. ASSUME NEW u \in Queuers \cup IoAll PROVE Owns(u)'
  <2>1. u \in Threads \ {Main} /\ u # None /\ Owns(u)
    BY <1>4, ThreadFacts DEF Owned
  <2> QED BY <1>2, <1>3, <1>4, <2>1, OwnsKept
<1>5. OnOneQueue'
  BY <1>1, <1>3, ThreadFacts, QueuesKept DEF Owned
<1> QED BY <1>4, <1>5 DEF Owned

\* The locks are right in every step.
LEMMA OwnedStep == Shape /\ Shape' /\ Life /\ Owned /\ [Next]_vars => Owned'
<1> SUFFICES ASSUME Shape, Shape', Life, Owned, [Next]_vars PROVE Owned'
  OBVIOUS
<1>1. CASE UNCHANGED vars
  BY <1>1 DEF vars, Owned, OnOneQueue, Owns, Inserting, QueuerJob, IoJob, Batched
<1>2. ASSUME NEW t \in Threads, Getbuf(t) \/ Insert(t) \/ Putbuf(t) PROVE Owned'
  BY <1>2, OwnedGetbuf, OwnedInsert
<1>3. ASSUME NEW q \in Queuers, \/ CreateIoThreads(q) \/ NextChunk(q) \/ ChunkQueued(q)
                                \/ FinishQueuing(q) \/ FinishPrefetch(q)
      PROVE  Owned'
  BY <1>3, OwnedQueuer, OwnedNextChunk
<1>4. ASSUME NEW w \in IoAll, \/ IoStart(w) \/ IoTest(w) \/ IoWoken(w) \/ TakeBatch(w)
                              \/ BatchReturns(w) \/ ReadBatch(w) \/ NextInodeBuf(w)
                              \/ PutBatch(w) \/ Relock(w)
      PROVE  Owned'
  BY <1>4, OwnedIo, OwnedTakeBatch, OwnedNextInodeBuf, OwnedPutBatch
<1>5. CASE NextGroup \/ Wait \/ ProcessChunk \/ Readbuf \/ ChunkProcessed \/ Cleanup
  BY <1>5, OwnedMain
<1>6. CASE Start
  BY <1>6, OwnedQueuer
<1> QED BY <1>1, <1>2, <1>3, <1>4, <1>5, <1>6, StepCases

-----------------------------------------------------------------------------
(* Counted: the counter of queued inode buffers, and their order *)

\* The specification starts with nothing queued.
LEMMA OrderInit == Init => InOrder
<1> SUFFICES ASSUME Init, NEW g \in Groups PROVE CountOf(g)
  BY DEF InOrder
<1>1. args[g].io_queue = {} /\ args[g].inode_bufs_queued = 0 /\ args[g].last_bno_read = 0
  BY DEF Init, NoArgs
<1>2. Inodes(g) = {} /\ Cardinality({}) = 0
  BY <1>1, FS_EmptySet DEF Inodes
<1>3. \A x \in Nat : Coming(g, x) => x > 0
  <2>1. todo[Queuer(g)] = <<>>
    BY ThreadFacts DEF Init
  <2> QED BY <2>1, ConstantFacts DEF Coming
<1> QED BY <1>1, <1>2, <1>3 DEF CountOf

\* Steps that leave the queue of the group alone, and let no cluster come
\* that was not to come.
LEMMA CountKept ==
  ASSUME NEW g \in Groups, CountOf(g), args'[g].io_queue = args[g].io_queue,
         args'[g].inode_bufs_queued = args[g].inode_bufs_queued,
         args'[g].last_bno_read = args[g].last_bno_read,
         \A x \in Nat : Coming(g, x)' => Coming(g, x)
  PROVE  CountOf(g)'
<1>1. Inodes(g)' = Inodes(g)
  BY DEF Inodes
<1> QED BY <1>1 DEF CountOf

\* What is to come depends on the queueing thread's place in its group.
LEMMA ComingKept ==
  ASSUME NEW g \in Groups, chunk'[Queuer(g)] = chunk[Queuer(g)],
         todo'[Queuer(g)] = todo[Queuer(g)]
  PROVE  \A x \in Nat : Coming(g, x)' => Coming(g, x)
BY DEF Coming

\* pf_queue_io brings no inode buffer that was not there.
LEMMA JobsLeft ==
  ASSUME Shape, NEW t \in Threads, Getbuf(t) \/ Insert(t) \/ Putbuf(t),
         NEW n \in DOMAIN todo'[t], todo'[t][n].op = "queue", IsInode(todo'[t][n].b)
  PROVE  \E m \in DOMAIN todo[t] : todo[t][m] = todo'[t][n]
<1>0. todo[t] # <<>>
  BY InsertEffect DEF Getbuf, Putbuf
<1>1. /\ Head(todo[t]).b \in Blocks /\ Tail(todo[t]) \in Seq(Jobs) /\ DOMAIN todo = Threads
      /\ \A m \in DOMAIN Tail(todo[t]) : /\ m + 1 \in DOMAIN todo[t]
                                         /\ Tail(todo[t])[m] = todo[t][m + 1]
  BY <1>0, HeadFact DEF Shape, Types
<1>2. PICK b : b = Head(todo[t]).b /\ b \in Blocks
  BY <1>1
<1>3. CASE todo'[t] = todo[t]
  BY <1>3
<1>4. CASE todo'[t] = Tail(todo[t])
  BY <1>1, <1>4
<1>5. CASE /\ IsInode(b)
           /\ todo'[t] = Queuing(Dirs[b]) \o <<[op |-> "put", b |-> b]>> \o Tail(todo[t])
  <2>1. PICK dirs : dirs = Queuing(Dirs[b])
    OBVIOUS
  <2>2. /\ dirs \in Seq(Jobs) /\ Len(dirs) \in Nat
        /\ \A k \in DOMAIN dirs : ~IsInode(dirs[k].b)
    <3>1. b \in DOMAIN Dirs /\ Dirs[b] \in Seq(Blocks)
      BY <1>5, ConstantFacts DEF IsInode
    <3>2. \A k \in DOMAIN Dirs[b] : ~IsInode(Dirs[b][k])
      BY <3>1, ConstantFacts
    <3>3. /\ dirs \in Seq(Jobs)
          /\ \A k \in DOMAIN dirs : k \in DOMAIN Dirs[b] /\ dirs[k] = [op |-> "queue", b |-> Dirs[b][k]]
      BY <2>1, <3>1, QueuingFact
    <3> QED BY <3>2, <3>3
  <2>3. PICK put : put = [op |-> "put", b |-> b] /\ put \in Jobs
    <3>1. [op |-> "put", b |-> b] \in Jobs
      BY <1>2 DEF Jobs
    <3> QED BY <3>1
  <2>4. PICK tail : tail = Tail(todo[t]) /\ tail \in Seq(Jobs)
    BY <1>1
  <2>5. todo'[t] = dirs \o <<put>> \o tail
    BY <1>5, <2>1, <2>3, <2>4
  <2>6. PICK first : first = dirs \o <<put>>
    OBVIOUS
  <2>7. /\ first \in Seq(Jobs) /\ Len(first) = Len(dirs) + 1
        /\ \A k \in DOMAIN first : first[k] = put \/ (k \in DOMAIN dirs /\ first[k] = dirs[k])
    BY <2>2, <2>3, <2>6
  <2>8. \A k \in DOMAIN todo'[t] :
          \/ k \in DOMAIN first /\ todo'[t][k] = first[k]
          \/ k - Len(first) \in DOMAIN tail /\ todo'[t][k] = tail[k - Len(first)]
    <3>1. todo'[t] = first \o tail
      BY <2>5, <2>6
    <3> QED BY <2>4, <2>7, <3>1
  <2>9. CASE n \in DOMAIN first /\ todo'[t][n] = first[n]
    <3>1. first[n] # put
      BY <2>3, <2>9
    <3>2. n \in DOMAIN dirs /\ first[n] = dirs[n]
      BY <2>7, <2>9, <3>1
    <3>3. todo'[t][n].b = dirs[n].b
      BY <2>9, <3>2
    <3> QED BY <2>2, <3>2, <3>3
  <2>10. CASE n - Len(first) \in DOMAIN tail /\ todo'[t][n] = tail[n - Len(first)]
    <3>1. PICK m : m = n - Len(first)
      OBVIOUS
    <3>2. m + 1 \in DOMAIN todo[t] /\ tail[m] = todo[t][m + 1]
      BY <1>1, <2>4, <2>10, <3>1
    <3> QED BY <2>10, <3>1, <3>2
  <2> QED BY <2>8, <2>9, <2>10
<1> QED BY <1>1, <1>2, <1>3, <1>4, <1>5 DEF Getbuf, Insert, Putbuf

\* So what is still to come does not grow.
LEMMA ComingShrinks ==
  ASSUME Shape, NEW g \in Groups,
         \/ \E t \in Threads : Getbuf(t) \/ Insert(t) \/ Putbuf(t)
         \/ \E q \in Queuers : NextChunk(q)
  PROVE  \A x \in Nat : Coming(g, x)' => Coming(g, x)
<1>0. PICK q : q = Queuer(g) /\ q \in Queuers /\ q \in Threads /\ AG(q) = g
  BY ThreadFacts
<1>1. ASSUME NEW t \in Threads, Getbuf(t) \/ Insert(t) \/ Putbuf(t)
      PROVE  \A x \in Nat : Coming(g, x)' => Coming(g, x)
  <2>1. chunk' = chunk /\ \A u \in Threads \ {t} : todo'[u] = todo[u]
    BY <1>1 DEF Getbuf, Insert, Putbuf, Shape, Types
  <2>2. CASE t # q
    BY <1>0, <2>1, <2>2, ComingKept
  <2>3. CASE t = q
    <3>1. \A n \in DOMAIN todo'[q] : todo'[q][n].op = "queue" /\ IsInode(todo'[q][n].b) =>
            \E m \in DOMAIN todo[q] : todo[q][m] = todo'[q][n]
      BY <1>1, <2>3, JobsLeft
    <3> QED BY <1>0, <2>1, <3>1 DEF Coming
  <2> QED BY <2>2, <2>3
<1>2. ASSUME NEW r \in Queuers, NextChunk(r)
      PROVE  \A x \in Nat : Coming(g, x)' => Coming(g, x)
  <2>0. r \in Threads
    BY ThreadFacts
  <2>1. CASE r # q
    <3>1. todo'[q] = todo[q] /\ chunk'[q] = chunk[q]
      BY <1>0, <1>2, <2>1 DEF NextChunk, Shape, Types
    <3> QED BY <1>0, <3>1, ComingKept
  <2>2. CASE r = q
    <3>1. PICK c : c = chunk[q] + 1
      OBVIOUS
    <3>2. /\ chunk'[q] = c /\ chunk[q] \in Nat /\ c \in DOMAIN Clusters[g]
          /\ todo'[q] = Queuing(<<Clusters[g][c]>>)
      <4>1. /\ chunk'[q] = c /\ chunk[q] \in Nat /\ chunk[q] < Len(Clusters[g])
            /\ todo'[q] = Queuing(<<Clusters[g][c]>>)
        BY <1>0, <1>2, <2>2, <3>1 DEF NextChunk, Shape, Types
      <4>2. Clusters[g] \in Seq(Nat \ {0})
        BY ConstantFacts
      <4> QED BY <3>1, <4>1, <4>2
    <3>3. PICK seq : seq = <<Clusters[g][c]>>
      OBVIOUS
    <3>4. seq \in Seq(Blocks) /\ \A n \in DOMAIN seq : seq[n] = Clusters[g][c]
      BY <3>2, <3>3, ConstantFacts
    <3>5. \A n \in DOMAIN todo'[q] : todo'[q][n].b = Clusters[g][c]
      <4>1. \A n \in DOMAIN Queuing(seq) :
              n \in DOMAIN seq /\ Queuing(seq)[n] = [op |-> "queue", b |-> seq[n]]
        BY <3>4, QueuingFact
      <4>2. \A n \in DOMAIN Queuing(seq) : Queuing(seq)[n].b = Clusters[g][c]
        BY <3>4, <4>1
      <4> QED BY <3>2, <3>3, <4>2
    <3>6. ASSUME NEW x \in Nat, Coming(g, x)' PROVE Coming(g, x)
      <4>1. CASE \E d \in DOMAIN Clusters[g] : d > chunk'[q] /\ x = Clusters[g][d]
        <5>1. \A d \in DOMAIN Clusters[g] : d > c => d > chunk[q]
          <6>1. DOMAIN Clusters[g] \subseteq Nat
            BY ConstantFacts
          <6> QED BY <3>1, <3>2, <6>1
        <5> QED BY <1>0, <3>2, <4>1, <5>1 DEF Coming
      <4>2. CASE \E n \in DOMAIN todo'[q] : x = todo'[q][n].b
        <5>1. x = Clusters[g][c] /\ c > chunk[q]
          BY <3>1, <3>2, <3>5, <4>2
        <5> QED BY <1>0, <3>2, <5>1 DEF Coming
      <4> QED BY <1>0, <3>6, <4>1, <4>2 DEF Coming
    <3> QED BY <3>6
  <2> QED BY <2>1, <2>2
<1> QED BY <1>1, <1>2

\* The insertion of an inode buffer: it is beyond everything on the queue.
LEMMA CountInsert ==
  ASSUME Shape, Owned, InOrder, NEW t \in Threads, Insert(t)
  PROVE  InOrder'
<1>1. PICK g : g = AG(t)
  OBVIOUS
<1>2. PICK b : b = Head(todo[t]).b
  OBVIOUS
<1>3. /\ t \in Queuers \cup IoAll /\ g \in Groups /\ pc[t] = "insert" /\ todo[t] # <<>>
      /\ b \in Blocks /\ \A h \in Groups \ {g} : args'[h] = args[h]
      /\ args'[g].io_queue = args[g].io_queue \cup {b}
      /\ args'[g].inode_bufs_queued = args[g].inode_bufs_queued + Counted(g, b)
      /\ args'[g].last_bno_read = args[g].last_bno_read
  BY <1>1, <1>2, InsertEffect
<1>4. \A h \in Groups : CountOf(h) /\ \A x \in Nat : Coming(h, x)' => Coming(h, x)
  BY ComingShrinks DEF InOrder
<1>5. ASSUME NEW h \in Groups \ {g} PROVE CountOf(h)'
  BY <1>3, <1>4, <1>5, CountKept
<1>6. CASE ~IsInode(b)
  <2>1. Inodes(g)' = Inodes(g)
    BY <1>3, <1>6 DEF Inodes, IsInode
  <2>2. args[g].inode_bufs_queued \in Int /\ Counted(g, b) = 0
    BY <1>3, <1>6 DEF Counted, Shape, Types, ArgsType
  <2>3. CountOf(g)'
    BY <1>3, <1>4, <2>1, <2>2 DEF CountOf
  <2> QED BY <1>5, <2>3 DEF InOrder
<1>7. CASE IsInode(b)
  <2>1. Owns(t) /\ Head(todo[t]) = todo[t][1] /\ 1 \in DOMAIN todo[t] /\ Head(todo[t]).op = "queue"
    BY <1>3, HeadFact DEF Owned, Owns, Inserting, Shape
  <2>2. t \in Queuers /\ t = Queuer(g)
    <3>1. t \notin IoAll
      BY <1>2, <1>7, <2>1 DEF Owns, IoJob
    <3> QED BY <1>1, <1>3, <3>1, ThreadFacts
  <2>3. PICK c : c = chunk[t]
    OBVIOUS
  <2>4. c \in DOMAIN Clusters[g] /\ b = Clusters[g][c]
    <3>1. QueuerJob(t, 1)
      BY <2>1, <2>2 DEF Owns
    <3> QED BY <1>1, <1>2, <1>7, <2>1, <2>3, <3>1 DEF QueuerJob
  <2>5. b \in Nat /\ Coming(g, b)
    <3>1. b \in Nat
      BY <1>3, ConstantFacts
    <3> QED BY <1>2, <1>7, <2>1, <2>2, <3>1 DEF Coming
  <2>6. b > args[g].last_bno_read /\ \A x \in Inodes(g) : b > x
    BY <1>3, <1>4, <2>5 DEF CountOf
  <2>7. b \notin Inodes(g)
    BY <2>5, <2>6
  <2>8. Inodes(g)' = Inodes(g) \cup {b}
    BY <1>3, <1>7 DEF Inodes, IsInode
  <2>9. Counted(g, b) = 1
    BY <1>7, <2>6 DEF Counted
  <2>10. IsFiniteSet(Inodes(g))
    <3>1. IsFiniteSet(args[g].io_queue) /\ Inodes(g) \subseteq args[g].io_queue
      BY <1>3 DEF Inodes, Shape, Types
    <3> QED BY <3>1, FS_Subset
  <2>11. Cardinality(Inodes(g) \cup {b}) = Cardinality(Inodes(g)) + 1
    BY <2>7, <2>10, FS_AddElement
  <2>12. args'[g].inode_bufs_queued = Cardinality(Inodes(g))'
    BY <1>3, <1>4, <2>8, <2>9, <2>11 DEF CountOf
  <2>13. \A x \in Inodes(g)' : x >= args'[g].last_bno_read
    <3>1. args[g].last_bno_read \in Nat
      BY <1>3 DEF Shape, Types, ArgsType
    <3> QED BY <1>3, <1>4, <2>5, <2>6, <2>8, <3>1 DEF CountOf
  <2>14. ASSUME NEW x \in Nat, Coming(g, x)'
         PROVE  x > args'[g].last_bno_read /\ \A y \in Inodes(g)' : x > y
    <3>1. Coming(g, x)
      BY <1>3, <1>4, <2>14
    <3>2. x > args[g].last_bno_read /\ \A y \in Inodes(g) : x > y
      BY <1>3, <1>4, <3>1 DEF CountOf
    <3>3. x > b
      <4>1. todo'[t] = Tail(todo[t]) /\ chunk'[t] = c
        BY <1>3, <2>3 DEF Insert, Shape, Types
      <4>2. \A n \in DOMAIN todo'[t] : ~(todo'[t][n].op = "queue" /\ IsInode(todo'[t][n].b))
        BY <1>3, <2>1, <2>2, <4>1, TailOwned
      <4>3. \E d \in DOMAIN Clusters[g] : d > c /\ x = Clusters[g][d]
        BY <2>2, <2>14, <4>1, <4>2 DEF Coming
      <4>4. \A d \in DOMAIN Clusters[g] : d > c => Clusters[g][c] < Clusters[g][d]
        BY <1>3, <2>4, PrefetchAssumption
      <4>5. \A d \in DOMAIN Clusters[g] : Clusters[g][d] \in Nat
        BY <1>3, ConstantFacts
      <4> QED BY <2>4, <4>3, <4>4, <4>5
    <3> QED BY <1>3, <2>8, <3>2, <3>3
  <2>15. CountOf(g)'
    BY <2>12, <2>13, <2>14 DEF CountOf
  <2> QED BY <1>5, <2>15 DEF InOrder
<1> QED BY <1>6, <1>7

\* A batch: the inode buffers it takes are the first, and are taken off the
\* counter by the one call that can take them.
LEMMA CountTakeBatch ==
  ASSUME Shape, InOrder, NEW w \in IoAll, TakeBatch(w)
  PROVE  InOrder'
<1>1. PICK g : g = AG(w)
  OBVIOUS
<1>2. PICK highest \in Eligible(w) :
        \E S :
          /\ S = {b \in Eligible(w) : b <= highest}
          /\ S \subseteq args[g].io_queue /\ highest \in S
          /\ args'[g].io_queue = args[g].io_queue \ S
          /\ args'[g].inode_bufs_queued =
               IF which[w] = "PRIMARY" THEN LessTaken(g, S) ELSE args[g].inode_bufs_queued
          /\ \E f \in Int :
               /\ \E b \in S : f <= b /\ \A c \in S : f <= c
               /\ \/ args'[g].last_bno_read = args[g].last_bno_read
                  \/ /\ which[w] = "PRIMARY" /\ \E b \in S : IsInode(b)
                     /\ args'[g].last_bno_read = f
  BY <1>1, TakeBatchEffect
<1>3. PICK S :
          /\ S = {b \in Eligible(w) : b <= highest}
          /\ S \subseteq args[g].io_queue /\ highest \in S
          /\ args'[g].io_queue = args[g].io_queue \ S
          /\ args'[g].inode_bufs_queued =
               IF which[w] = "PRIMARY" THEN LessTaken(g, S) ELSE args[g].inode_bufs_queued
          /\ \E f \in Int :
               /\ \E b \in S : f <= b /\ \A c \in S : f <= c
               /\ \/ args'[g].last_bno_read = args[g].last_bno_read
                  \/ /\ which[w] = "PRIMARY" /\ \E b \in S : IsInode(b)
                     /\ args'[g].last_bno_read = f
  BY <1>2
<1>4. g \in Groups /\ \A h \in Groups \ {g} : args'[h] = args[h]
  BY <1>1, TakeBatchEffect
<1>5. \A h \in Groups : CountOf(h) /\ \A x \in Nat : Coming(h, x)' => Coming(h, x)
  <2>1. todo' = todo /\ chunk' = chunk
    BY DEF TakeBatch
  <2> QED BY <2>1, ComingKept DEF InOrder
<1>6. ASSUME NEW h \in Groups \ {g} PROVE CountOf(h)'
  BY <1>4, <1>5, <1>6, CountKept
<1>7. PICK last : last = args[g].last_bno_read /\ last \in Nat
  BY <1>4 DEF Shape, Types, ArgsType
<1>8. PICK taken : taken = {b \in S : IsInode(b)}
  OBVIOUS
<1>9. Inodes(g)' = Inodes(g) \ taken /\ taken \subseteq Inodes(g) /\ Inodes(g) \subseteq Nat
  <2>1. Inodes(g)' = {b \in args'[g].io_queue : IsInode(b)}
    BY DEF Inodes
  <2>2. Inodes(g)' = Inodes(g) \ taken /\ taken \subseteq Inodes(g)
    BY <1>3, <1>8, <2>1 DEF Inodes
  <2>3. Inodes(g) \subseteq Nat
    BY <1>4, ConstantFacts DEF Inodes, Shape, Types, ArgsType
  <2> QED BY <2>2, <2>3
<1>10. IsFiniteSet(Inodes(g)) /\ args[g].inode_bufs_queued = Cardinality(Inodes(g))
  <2>1. IsFiniteSet(args[g].io_queue) /\ Inodes(g) \subseteq args[g].io_queue
    BY <1>4 DEF Inodes, Shape, Types
  <2>2. IsFiniteSet(Inodes(g))
    BY <2>1, FS_Subset
  <2> QED BY <1>4, <1>5, <2>2 DEF CountOf
<1>11. /\ \A b \in Inodes(g) : b >= last
       /\ \A x \in Nat : Coming(g, x) => x > last /\ \A b \in Inodes(g) : x > b
  BY <1>4, <1>5, <1>7 DEF CountOf
<1>12. CASE which[w] = "PRIMARY"
  <2>1. Eligible(w) = {b \in args[g].io_queue : b >= last}
    BY <1>1, <1>7, <1>12 DEF Eligible
  <2>2. args'[g].inode_bufs_queued = Cardinality(Inodes(g))'
    <3>1. args'[g].inode_bufs_queued = Cardinality(Inodes(g)) - Cardinality(taken)
      BY <1>3, <1>8, <1>10, <1>12 DEF LessTaken
    <3>2. IsFiniteSet(taken) /\ Inodes(g) \cap taken = taken
      BY <1>9, <1>10, FS_Subset
    <3>3. Cardinality(Inodes(g) \ taken) = Cardinality(Inodes(g)) - Cardinality(Inodes(g) \cap taken)
      BY <1>10, FS_Difference
    <3> QED BY <1>9, <3>1, <3>2, <3>3
  <2>3. PICK f \in Int :
          /\ \E b \in S : f <= b /\ \A c \in S : f <= c
          /\ \/ args'[g].last_bno_read = last
             \/ (\E b \in S : IsInode(b)) /\ args'[g].last_bno_read = f
    BY <1>3, <1>7
  <2>4. \A b \in Inodes(g) \ taken : b > highest /\ highest >= f
    <3>1. \A b \in Inodes(g) \ taken : b \in Eligible(w) /\ b \notin S
      BY <1>8, <1>9, <1>11, <2>1 DEF Inodes
    <3>2. highest \in Nat
      BY <1>3, <1>4, ConstantFacts DEF Shape, Types, ArgsType
    <3> QED BY <1>3, <1>9, <2>3, <3>1, <3>2
  <2>5. \A b \in Inodes(g)' : b >= args'[g].last_bno_read
    <3>1. highest \in Nat
      BY <1>3, <1>4, ConstantFacts DEF Shape, Types, ArgsType
    <3>2. ASSUME NEW b \in Inodes(g)' PROVE b >= args'[g].last_bno_read
      <4>1. b \in Nat /\ b \in Inodes(g) \ taken /\ b >= last /\ b > highest /\ highest >= f
        BY <1>9, <1>11, <2>4, <3>2
      <4>2. b >= f
        BY <2>3, <3>1, <4>1
      <4> QED BY <2>3, <4>1, <4>2
    <3> QED BY <3>2
  <2>6. ASSUME NEW x \in Nat, Coming(g, x)'
        PROVE  x > args'[g].last_bno_read /\ \A b \in Inodes(g)' : x > b
    <3>1. x > last /\ \A b \in Inodes(g) : x > b
      BY <1>4, <1>5, <1>11, <2>6
    <3>2. (\E b \in S : IsInode(b)) => x > f
      <4>1. ASSUME NEW b \in S, IsInode(b) PROVE x > f
        <5>1. b \in Inodes(g) /\ b \in Nat /\ f <= b /\ f \in Int
          BY <1>8, <1>9, <2>3, <4>1
        <5> QED BY <3>1, <5>1
      <4> QED BY <4>1
    <3> QED BY <1>9, <2>3, <3>1, <3>2
  <2>7. CountOf(g)'
    BY <2>2, <2>5, <2>6 DEF CountOf
  <2> QED BY <1>6, <2>7 DEF InOrder
<1>13. CASE which[w] # "PRIMARY"
  <2>1. taken = {}
    <3>1. \A b \in Eligible(w) : ~IsInode(b) \/ b < last
      BY <1>1, <1>7, <1>13 DEF Eligible
    <3>2. \A b \in taken : b \in Eligible(w) /\ IsInode(b) /\ b \in Inodes(g) /\ b \in Nat
      BY <1>3, <1>8, <1>9
    <3> QED BY <1>7, <1>11, <3>1, <3>2
  <2>2. Inodes(g)' = Inodes(g) /\ args'[g].last_bno_read = last
        /\ args'[g].inode_bufs_queued = args[g].inode_bufs_queued
    BY <1>3, <1>7, <1>9, <1>13, <2>1
  <2>3. CountOf(g)'
    BY <1>4, <1>5, <1>7, <2>2 DEF CountOf
  <2> QED BY <1>6, <2>3 DEF InOrder
<1> QED BY <1>12, <1>13

\* No other step changes the queue, or lets a cluster come.
LEMMA CountOther ==
  ASSUME Shape, InOrder,
         \/ \E t \in Threads : Getbuf(t) \/ Putbuf(t)
         \/ \E q \in Queuers : \/ CreateIoThreads(q) \/ NextChunk(q) \/ ChunkQueued(q)
                               \/ FinishQueuing(q) \/ FinishPrefetch(q)
         \/ \E w \in IoAll : \/ IoStart(w) \/ IoTest(w) \/ IoWoken(w) \/ BatchReturns(w)
                             \/ ReadBatch(w) \/ NextInodeBuf(w) \/ PutBatch(w) \/ Relock(w)
         \/ NextGroup \/ Wait \/ ProcessChunk \/ Readbuf \/ ChunkProcessed \/ Cleanup
         \/ Start
  PROVE  InOrder'
<1>1. SameQueues
  <2>1. ASSUME NEW t \in Threads, Getbuf(t) \/ Putbuf(t) PROVE SameQueues
    BY <2>1 DEF Getbuf, Putbuf, SameQueues
  <2>2. ASSUME NEW q \in Queuers, \/ CreateIoThreads(q) \/ NextChunk(q) \/ ChunkQueued(q)
                                  \/ FinishQueuing(q) \/ FinishPrefetch(q)
        PROVE  SameQueues
    <3>1. CASE ChunkQueued(q)
      BY <3>1 DEF ChunkQueued, SameQueues
    <3> QED BY <2>2, <3>1, QueuerArgs DEF SameArgs
  <2>3. ASSUME NEW w \in IoAll, \/ IoStart(w) \/ IoTest(w) \/ IoWoken(w) \/ BatchReturns(w)
                                \/ ReadBatch(w) \/ NextInodeBuf(w) \/ PutBatch(w) \/ Relock(w)
        PROVE  SameQueues
    <3>1. CASE BatchReturns(w)
      BY <3>1, OtherArgs DEF SameArgs
    <3>2. CASE \/ IoStart(w) \/ IoTest(w) \/ IoWoken(w)
               \/ ReadBatch(w) \/ NextInodeBuf(w) \/ PutBatch(w) \/ Relock(w)
      BY <3>2 DEF IoStart, IoTest, IoWoken, ReadBatch, NextInodeBuf, PutBatch, Relock, SameQueues
    <3> QED BY <2>3, <3>1, <3>2
  <2>4. CASE NextGroup \/ Wait \/ ProcessChunk \/ Readbuf \/ ChunkProcessed \/ Cleanup
    <3>1. CASE ProcessChunk
      BY <3>1, OtherArgs DEF SameArgs
    <3>2. CASE Cleanup
      BY <3>2, CleanupArgs
    <3>3. CASE NextGroup \/ Wait \/ Readbuf \/ ChunkProcessed
      BY <3>3 DEF NextGroup, Wait, Readbuf, ChunkProcessed, SameQueues
    <3> QED BY <2>4, <3>1, <3>2, <3>3
  <2>5. CASE Start
    BY <2>5, StartArgs
  <2> QED BY <2>1, <2>2, <2>3, <2>4, <2>5
<1>2. ASSUME NEW g \in Groups PROVE \A x \in Nat : Coming(g, x)' => Coming(g, x)
  <2>0. PICK q : q = Queuer(g) /\ q \in Queuers /\ q \in Threads /\ q # Main /\ q \notin IoAll
    BY ThreadFacts
  <2>1. CASE \/ \E t \in Threads : Getbuf(t) \/ Putbuf(t)
             \/ \E r \in Queuers : NextChunk(r)
    BY <2>1, ComingShrinks
  <2>2. ASSUME NEW r \in Queuers, \/ CreateIoThreads(r) \/ ChunkQueued(r)
                                  \/ FinishQueuing(r) \/ FinishPrefetch(r)
        PROVE  todo'[q] = todo[q] /\ chunk'[q] = chunk[q]
    BY <2>2 DEF CreateIoThreads, ChunkQueued, FinishQueuing, FinishPrefetch
  <2>3. ASSUME NEW w \in IoAll, \/ IoStart(w) \/ IoTest(w) \/ IoWoken(w) \/ BatchReturns(w)
                                \/ ReadBatch(w) \/ NextInodeBuf(w) \/ PutBatch(w) \/ Relock(w)
        PROVE  todo'[q] = todo[q] /\ chunk'[q] = chunk[q]
    BY <2>0, <2>3, IoMoves
  <2>4. CASE NextGroup \/ Wait \/ ProcessChunk \/ Readbuf \/ ChunkProcessed \/ Cleanup
    <3>1. todo'[q] = todo[q] /\ chunk'[q] = chunk[q]
      BY <2>0, <2>4 DEF NextGroup, Wait, ProcessChunk, Readbuf, ChunkProcessed, Cleanup, Shape, Types
    <3> QED BY <2>0, <3>1, ComingKept
  <2>5. CASE Start
    BY <2>5, ComingKept DEF Start
  <2> QED BY <2>0, <2>1, <2>2, <2>3, <2>4, <2>5, ComingKept
<1>3. \A g \in Groups : CountOf(g)'
  BY <1>1, <1>2, CountKept DEF InOrder, SameQueues
<1> QED BY <1>3 DEF InOrder

\* The count is right in every step.
LEMMA OrderStep == Shape /\ Owned /\ InOrder /\ [Next]_vars => InOrder'
<1> SUFFICES ASSUME Shape, Owned, InOrder, [Next]_vars PROVE InOrder'
  OBVIOUS
<1>1. CASE UNCHANGED vars
  BY <1>1 DEF vars, InOrder, CountOf, Inodes, Coming
<1>2. ASSUME NEW t \in Threads, Insert(t) PROVE InOrder'
  BY <1>2, CountInsert
<1>3. ASSUME NEW w \in IoAll, TakeBatch(w) PROVE InOrder'
  BY <1>3, CountTakeBatch
<1> QED BY <1>1, <1>2, <1>3, CountOther, StepCases

-----------------------------------------------------------------------------
(* Staffed: a queue that may have something has a reader *)

\* The specification starts with nothing to wait for.
LEMMA StaffedInit == Init => Staffed
<1> SUFFICES ASSUME Init, NEW g \in Groups
             PROVE  ~args[g].queuing_done /\ ~Awaited(g)
  BY DEF Staffed
<1>1. pc[Queuer(g)] = "none"
  BY ThreadFacts DEF Init
<1>2. args[g].queuing_done = FALSE
  BY DEF Init, NoArgs
<1> QED BY <1>1, <1>2 DEF Awaited

\* Steps in which every thread that runs goes on running, and nobody gets to
\* the join.
LEMMA StaffedKept ==
  ASSUME Shape, Staffed, SameDone,
         \A u \in Queuers \cup IoAll :
           pc'[u] = pc[u] \/ (Running(u, pc[u]) /\ Running(u, pc'[u])),
         \A q \in Queuers : pc'[q] = "join" <=> pc[q] = "join",
         \A g \in Groups : pc'[Queuer(g)] = "join" /\ args'[g].io_queue # {} =>
           args[g].io_queue # {} \/ \E w \in Io(g) : pc'[w] \notin {"none", "exited"}
  PROVE  Staffed'
<1> SUFFICES ASSUME NEW g \in Groups
             PROVE  /\ args'[g].queuing_done => pc'[Queuer(g)] \in {"join", "exited"}
                    /\ Awaited(g)' => \E w \in Io(g) : pc'[w] \notin {"none", "exited"}
  BY DEF Staffed, Io
<1>0. PICK q : q = Queuer(g) /\ q \in Queuers /\ q \in Threads /\ q \notin IoAll
  BY ThreadFacts
<1>1. pc'[q] = pc[q] \/ (Running(q, pc[q]) /\ Running(q, pc'[q]))
  BY <1>0
<1>2. ASSUME args'[g].queuing_done PROVE pc'[q] \in {"join", "exited"}
  <2>1. pc[q] \in {"join", "exited"}
    BY <1>0, <1>2 DEF Staffed, SameDone
  <2> QED BY <1>0, <1>1, <2>1 DEF Running
<1>3. ASSUME Awaited(g)' PROVE \E w \in Io(g) : pc'[w] \notin {"none", "exited"}
  <2>1. CASE Awaited(g)
    <3>1. PICK w \in Io(g) : pc[w] \notin {"none", "exited"}
      BY <2>1 DEF Staffed
    <3>2. w \in IoAll /\ w \in Io(g)
      BY <3>1, ThreadFacts
    <3>3. pc'[w] \notin {"none", "exited"}
      BY <3>1, <3>2 DEF Running
    <3> QED BY <3>2, <3>3
  <2>2. CASE ~Awaited(g)
    <3>1. pc[q] \notin {"chunk", "queueing", "insert"} /\ (pc[q] = "join" => args[g].io_queue = {})
      BY <1>0, <2>2 DEF Awaited
    <3>2. pc'[q] \notin {"chunk", "queueing", "insert"}
      BY <1>0, <1>1, <3>1 DEF Running
    <3>3. pc'[q] = "join" /\ args'[g].io_queue # {}
      BY <1>0, <1>3, <3>2 DEF Awaited
    <3> QED BY <1>0, <3>1, <3>3
  <2> QED BY <2>1, <2>2
<1> QED BY <1>0, <1>2, <1>3

\* An I/O thread that ends leaves another, or nothing to wait for.
LEMMA StaffedExit ==
  ASSUME Shape, Staffed, args' = args, NEW w \in IoAll, NEW g, g = AG(w),
         \A u \in Threads \ {w} : pc'[u] = pc[u],
         ~Awaited(g) \/ \E v \in Io(g) \ {w} : pc[v] \notin {"none", "exited"}
  PROVE  Staffed'
<1>1. \A h \in Groups : pc'[Queuer(h)] = pc[Queuer(h)] /\ Queuer(h) # w
  BY ThreadFacts
<1>2. \A h \in Groups : Awaited(h)' <=> Awaited(h)
  BY <1>1 DEF Awaited
<1>3. \A h \in Groups : \A v \in Io(h) : v \in Threads /\ (v = w => h = g)
  BY ThreadFacts
<1>4. ASSUME NEW h \in Groups, Awaited(h)
      PROVE  \E v \in Io(h) : pc'[v] \notin {"none", "exited"}
  <2>1. PICK v \in Io(h) : pc[v] \notin {"none", "exited"} /\ v # w
    BY <1>3, <1>4 DEF Staffed
  <2>2. v \in Io(h)
    BY <2>1
  <2> QED BY <1>3, <2>1, <2>2
<1> QED BY <1>1, <1>2, <1>4 DEF Staffed, Io

\* pf_io_worker's steps.
LEMMA StaffedIo ==
  ASSUME "memory" \notin Faults, Shape, Staffed, NEW w \in IoAll,
         \/ IoStart(w) \/ IoTest(w) \/ IoWoken(w) \/ TakeBatch(w) \/ BatchReturns(w)
         \/ ReadBatch(w) \/ NextInodeBuf(w) \/ PutBatch(w) \/ Relock(w)
  PROVE  Staffed'
<1>0. PICK g : g = AG(w) /\ g \in Groups /\ w \in Io(g) /\ w \in Threads /\ w \notin Queuers
  BY ThreadFacts
<1>1. \A u \in Threads \ {w} : pc'[u] = pc[u]
  BY IoMoves
<1>2. CASE pc'[w] = "exited"
  <2>1. DOMAIN pc = Threads
    BY DEF Shape, Places, InPlace
  <2>2. CASE IoStart(w)
    <3>1. args' = args /\ \E v \in Io(g) \ {w} : pc[v] # "none" /\ pc[v] # "exited"
      <4>1. CASE Goto(w, "test")
        BY <1>0, <1>2, <2>1, <4>1 DEF Goto
      <4> QED BY <1>0, <2>2, <4>1 DEF IoStart
    <3> QED BY <1>0, <1>1, <3>1, StaffedExit
  <2>3. CASE IoTest(w)
    <3>1. args' = args /\ args[g].queuing_done /\ args[g].io_queue = {}
      <4>1. CASE Goto(w, "asleep") \/ Goto(w, "batch")
        BY <1>0, <1>2, <2>1, <4>1 DEF Goto
      <4> QED BY <1>0, <2>3, <4>1 DEF IoTest
    <3>2. ~Awaited(g)
      BY <1>0, <3>1 DEF Staffed, Awaited
    <3> QED BY <1>0, <1>1, <3>1, <3>2, StaffedExit
  <2>4. CASE IoWoken(w) \/ TakeBatch(w) \/ BatchReturns(w) \/ ReadBatch(w) \/ NextInodeBuf(w)
             \/ PutBatch(w) \/ Relock(w)
    <3>1. pc[w] # "exited"
      BY <2>4 DEF IoWoken, TakeBatch, BatchReturns, ReadBatch, NextInodeBuf, PutBatch, Relock
    <3>2. pc' = pc \/ \E label : label # "exited" /\ pc' = [pc EXCEPT ![w] = label]
      <4>1. CASE IoWoken(w) BY <4>1 DEF IoWoken, Goto
      <4>2. CASE TakeBatch(w) BY <4>2 DEF TakeBatch, Goto
      <4>3. CASE BatchReturns(w) BY <4>3 DEF BatchReturns, Goto
      <4>4. CASE ReadBatch(w) BY <4>4 DEF ReadBatch, Goto
      <4>5. CASE PutBatch(w) BY <4>5 DEF PutBatch, Goto
      <4>6. CASE Relock(w) BY <4>6 DEF Relock, Goto
      <4>7. CASE NextInodeBuf(w) BY <4>7 DEF NextInodeBuf
      <4> QED BY <2>4, <4>1, <4>2, <4>3, <4>4, <4>5, <4>6, <4>7
    <3> QED BY <1>0, <1>2, <2>1, <3>1, <3>2
  <2> QED BY <2>2, <2>3, <2>4
<1>3. CASE pc'[w] # "exited"
  <2>1. \A u \in Queuers \cup IoAll :
          pc'[u] = pc[u] \/ (Running(u, pc[u]) /\ Running(u, pc'[u]))
    <3>1. ASSUME NEW u \in Queuers \cup IoAll
          PROVE  pc'[u] = pc[u] \/ (Running(u, pc[u]) /\ Running(u, pc'[u]))
      <4>1. CASE u = w
        <5>1. \/ pc'[u] = pc[u]
              \/ /\ Running(u, pc[u])
                 /\ Running(u, pc'[u]) \/ (u \in IoAll /\ pc'[u] = "exited")
          BY <3>1, RunningMoves
        <5> QED BY <1>3, <4>1, <5>1
      <4>2. CASE u # w
        BY <1>1, <3>1, <4>2, ThreadFacts
      <4> QED BY <4>1, <4>2
    <3> QED BY <3>1
  <2>2. SameDone /\ \A h \in Groups : args'[h].io_queue \subseteq args[h].io_queue
    <3>1. CASE TakeBatch(w)
      <4>1. SameDone /\ \A h \in Groups \ {g} : args'[h] = args[h]
        BY <1>0, <3>1, TakeBatchEffect
      <4>2. args'[g].io_queue \subseteq args[g].io_queue
        BY <1>0, <3>1, TakeBatchEffect
      <4> QED BY <4>1, <4>2
    <3>2. CASE BatchReturns(w)
      BY <3>2, OtherArgs DEF SameArgs, SameQueues
    <3>3. CASE \/ IoStart(w) \/ IoTest(w) \/ IoWoken(w)
               \/ ReadBatch(w) \/ NextInodeBuf(w) \/ PutBatch(w) \/ Relock(w)
      BY <3>3 DEF IoStart, IoTest, IoWoken, ReadBatch, NextInodeBuf, PutBatch, Relock, SameDone
    <3> QED BY <3>1, <3>2, <3>3
  <2>3. \A q \in Queuers : pc'[q] = pc[q]
    BY <1>0, <1>1, ThreadFacts
  <2> QED BY <2>1, <2>2, <2>3, StaffedKept
<1> QED BY <1>2, <1>3

\* pf_queue_io's steps: an I/O thread that queues is there.
LEMMA StaffedQueuing ==
  ASSUME Shape, Staffed, NEW t \in Threads, Getbuf(t) \/ Insert(t) \/ Putbuf(t)
  PROVE  Staffed'
<1>1. \A u \in Queuers \cup IoAll :
        pc'[u] = pc[u] \/ (Running(u, pc[u]) /\ Running(u, pc'[u]))
  <2>0. DOMAIN pc = Threads
    BY DEF Shape, Places, InPlace
  <2>1. ASSUME NEW u \in Queuers \cup IoAll, Getbuf(t) \/ Putbuf(t)
        PROVE  pc'[u] = pc[u] \/ (Running(u, pc[u]) /\ Running(u, pc'[u]))
    BY <2>0, <2>1, ThreadFacts DEF Getbuf, Putbuf, Goto, Running
  <2>2. ASSUME NEW u \in Queuers \cup IoAll, Insert(t)
        PROVE  pc'[u] = pc[u] \/ (Running(u, pc[u]) /\ Running(u, pc'[u]))
    <3>1. pc[t] = "insert" /\ pc'[t] = "queueing" /\ AG(t) \in Groups
          /\ (u # t => \/ pc'[u] = pc[u]
                       \/ u \in Io(AG(t)) /\ pc[u] = "asleep" /\ pc'[u] = "woken")
      BY <2>2, InsertMoves, InsertEffect
    <3>2. u \in Io(AG(t)) => u \notin Queuers
      BY <3>1, ThreadFacts
    <3> QED BY <3>1, <3>2 DEF Running
  <2> QED BY <2>1, <2>2
<1>2. \A q \in Queuers : pc'[q] = "join" <=> pc[q] = "join"
  <2>0. DOMAIN pc = Threads
    BY DEF Shape, Places, InPlace
  <2>1. ASSUME NEW q \in Queuers, Getbuf(t) \/ Putbuf(t)
        PROVE  pc'[q] = "join" <=> pc[q] = "join"
    BY <2>0, <2>1, ThreadFacts DEF Getbuf, Putbuf, Goto
  <2>2. ASSUME NEW q \in Queuers, Insert(t) PROVE pc'[q] = "join" <=> pc[q] = "join"
    BY <2>2, InsertMoves, InsertEffect
  <2> QED BY <2>1, <2>2
<1>3. SameDone
  <2>1. CASE Getbuf(t) \/ Putbuf(t)
    BY <2>1 DEF Getbuf, Putbuf, SameDone
  <2>2. CASE Insert(t)
    <3>1. PICK g : g = AG(t)
      OBVIOUS
    <3>2. args'[g].queuing_done = args[g].queuing_done /\ \A h \in Groups \ {g} : args'[h] = args[h]
      BY <2>2, <3>1, InsertEffect
    <3> QED BY <3>2 DEF SameDone
  <2> QED BY <2>1, <2>2
<1>4. ASSUME NEW g \in Groups, pc'[Queuer(g)] = "join", args'[g].io_queue # args[g].io_queue
      PROVE  \E w \in Io(g) : pc'[w] \notin {"none", "exited"}
  <2>1. Insert(t)
    BY <1>4 DEF Getbuf, Putbuf
  <2>2. pc'[t] = "queueing" /\ t \in Queuers \cup IoAll /\ AG(t) = g
    BY <1>4, <2>1, InsertMoves, InsertEffect
  <2>3. t \notin Queuers
    BY <1>4, <2>2, ThreadFacts
  <2>4. t \in Io(g)
    BY <2>2, <2>3, ThreadFacts
  <2> QED BY <2>2, <2>4
<1>5. \A g \in Groups : pc'[Queuer(g)] = "join" /\ args'[g].io_queue # {} =>
        args[g].io_queue # {} \/ \E w \in Io(g) : pc'[w] \notin {"none", "exited"}
  BY <1>4
<1> QED BY <1>1, <1>2, <1>3, <1>5, StaffedKept

\* Steps in which a queueing thread begins or ends, at most.
LEMMA StaffedBegin ==
  ASSUME Shape, Staffed, SameDone, SameQueues, \A w \in IoAll : pc'[w] = pc[w],
         \A q \in Queuers : \/ pc'[q] = pc[q]
                            \/ pc'[q] = "exited"
                            \/ pc[q] = "none" /\ pc'[q] = "create"
  PROVE  Staffed'
<1> SUFFICES ASSUME NEW g \in Groups
             PROVE  /\ args'[g].queuing_done => pc'[Queuer(g)] \in {"join", "exited"}
                    /\ Awaited(g)' => \E w \in Io(g) : pc'[w] \notin {"none", "exited"}
  BY DEF Staffed, Io
<1>1. PICK q : q = Queuer(g) /\ q \in Queuers
  BY ThreadFacts
<1>2. /\ args[g].queuing_done => pc[q] \in {"join", "exited"}
      /\ Awaited(g) => \E w \in Io(g) : pc[w] \notin {"none", "exited"}
  BY <1>1 DEF Staffed
<1>3. pc'[q] = pc[q] \/ pc'[q] = "exited" \/ (pc[q] = "none" /\ pc'[q] = "create")
  BY <1>1
<1>4. Awaited(g)' => Awaited(g)
  BY <1>1, <1>3 DEF Awaited, SameQueues
<1>5. \A w \in Io(g) : pc'[w] = pc[w]
  BY ThreadFacts
<1>6. args'[g].queuing_done = args[g].queuing_done
  BY DEF SameDone
<1> QED BY <1>1, <1>2, <1>3, <1>4, <1>5, <1>6

\* The creation of the I/O threads: there is at least one.
LEMMA StaffedCreate ==
  ASSUME Shape, Staffed, NEW q \in Queuers, CreateIoThreads(q)
  PROVE  Staffed'
<1>0. DOMAIN pc = Threads /\ InPlace(pc) /\ q \in Threads /\ q \notin IoAll
  BY ThreadFacts DEF Shape, Places, InPlace
<1>1. PICK g : g = AG(q) /\ g \in Groups /\ q = Queuer(g)
  BY ThreadFacts
<1>2. SameDone /\ SameQueues /\ pc[q] = "create"
  BY QueuerArgs DEF SameArgs, CreateIoThreads
<1>3. ASSUME NEW n \in 1 .. IoThreads,
             pc' = [t \in Threads |->
               IF t \in {<<"io", g, m>> : m \in 1 .. n} THEN "init"
               ELSE IF t = q THEN "chunk" ELSE pc[t]]
      PROVE  Staffed'
  <2>1. PICK first : first = <<"io", g, 1>>
    OBVIOUS
  <2>2. first \in Io(g) /\ first \in {<<"io", g, m>> : m \in 1 .. n} /\ first \in Threads
    <3>1. n \in Nat /\ 1 <= n /\ 1 \in 1 .. n /\ 1 \in 1 .. IoThreads
      BY <1>3, ConstantFacts
    <3>2. first \in Io(g) /\ first \in {<<"io", g, m>> : m \in 1 .. n}
      BY <2>1, <3>1 DEF Io
    <3> QED BY <1>1, <3>2, ThreadFacts
  <2>3. pc'[first] = "init"
    BY <1>3, <2>2
  <2>4. {<<"io", g, m>> : m \in 1 .. n} \subseteq Io(g)
    BY <1>3, ConstantFacts DEF Io
  <2>5. \A t \in Threads : t \notin Io(g) /\ t # q => pc'[t] = pc[t]
    BY <1>3, <2>4
  <2>6. pc'[q] = "chunk"
    <3>1. q \notin Io(g)
      BY <1>0, <1>1, ThreadFacts
    <3> QED BY <1>0, <1>3, <2>4, <3>1
  <2>7. ~args'[g].queuing_done
    BY <1>1, <1>2 DEF Staffed, SameDone
  <2>8. ASSUME NEW h \in Groups \ {g}
        PROVE  /\ args'[h].queuing_done => pc'[Queuer(h)] \in {"join", "exited"}
               /\ Awaited(h)' => \E w \in Io(h) : pc'[w] \notin {"none", "exited"}
    <3>1. pc'[Queuer(h)] = pc[Queuer(h)]
      <4>1. Queuer(h) \in Threads /\ Queuer(h) \notin Io(g) /\ Queuer(h) # q
        BY <1>1, <2>8, ThreadFacts
      <4> QED BY <2>5, <4>1
    <3>2. \A w \in Io(h) : pc'[w] = pc[w]
      <4>1. ASSUME NEW w \in Io(h) PROVE pc'[w] = pc[w]
        <5>1. w \in Threads /\ w \notin Io(g) /\ w # q
          BY <1>0, <1>1, <2>8, <4>1, ThreadFacts
        <5> QED BY <2>5, <5>1
      <4> QED BY <4>1
    <3>3. Awaited(h)' => Awaited(h)
      BY <1>2, <2>8, <3>1 DEF Awaited, SameQueues
    <3>4. args'[h].queuing_done = args[h].queuing_done
      BY <1>2, <2>8 DEF SameDone
    <3> QED BY <2>8, <3>1, <3>2, <3>3, <3>4 DEF Staffed
  <2>9. ASSUME NEW h \in Groups
        PROVE  /\ args'[h].queuing_done => pc'[Queuer(h)] \in {"join", "exited"}
               /\ Awaited(h)' => \E w \in Io(h) : pc'[w] \notin {"none", "exited"}
    BY <2>2, <2>3, <2>7, <2>8, <2>9
  <2> QED BY <2>9 DEF Staffed, Io
<1>4. ASSUME NEW p, p = [pc EXCEPT ![q] = "exited"], pc' = p \/ pc' = Woken(g, p)
      PROVE  Staffed'
  <2>1. InPlace(p)
    BY <1>0, <1>4, ThreadFacts, MoveInPlace DEF QueuerPlaces
  <2>2. \A v \in Queuers \cup IoAll : pc'[v] = p[v]
    <3>1. \A v \in Queuers \cup IoAll : Woken(g, p)[v] = p[v]
      BY <1>1, <2>1, WakeInPlace
    <3> QED BY <1>4, <3>1
  <2>3. /\ \A w \in IoAll : pc'[w] = pc[w]
        /\ \A r \in Queuers : pc'[r] = pc[r] \/ pc'[r] = "exited"
    <3>1. \A v \in Queuers \cup IoAll : p[v] = IF v = q THEN "exited" ELSE pc[v]
      BY <1>0, <1>4, ThreadFacts
    <3> QED BY <1>0, <2>2, <3>1
  <2> QED BY <1>2, <2>3, StaffedBegin
<1> QED BY <1>1, <1>3, <1>4 DEF CreateIoThreads

\* The other steps of pf_queuing_worker, and the start of one.
LEMMA StaffedQueuer ==
  ASSUME Shape, Life, Staffed,
         \/ \E q \in Queuers : \/ NextChunk(q) \/ ChunkQueued(q) \/ FinishQueuing(q)
                               \/ FinishPrefetch(q)
         \/ Start
  PROVE  Staffed'
<1>0. DOMAIN pc = Threads
  BY DEF Shape, Places, InPlace
<1>1. ASSUME NEW q \in Queuers, NextChunk(q) \/ ChunkQueued(q) PROVE Staffed'
  <2>1. /\ pc[q] \in {"chunk", "queueing"} /\ pc'[q] \in {"chunk", "queueing"}
        /\ \A u \in Queuers \cup IoAll : u # q => pc'[u] = pc[u]
    BY <1>0, <1>1, ThreadFacts DEF NextChunk, ChunkQueued, Goto
  <2>2. \A u \in Queuers \cup IoAll :
          pc'[u] = pc[u] \/ (Running(u, pc[u]) /\ Running(u, pc'[u]))
    BY <1>1, <2>1, ThreadFacts DEF Running
  <2>3. SameDone /\ SameQueues
    <3>1. CASE NextChunk(q)
      BY <3>1, QueuerArgs DEF SameArgs
    <3>2. CASE ChunkQueued(q)
      BY <3>2 DEF ChunkQueued, SameDone, SameQueues
    <3> QED BY <1>1, <3>1, <3>2
  <2>4. \A r \in Queuers : pc'[r] = "join" <=> pc[r] = "join"
    BY <2>1
  <2>5. \A g \in Groups : args'[g].io_queue = args[g].io_queue
    BY <2>3 DEF SameQueues
  <2> QED BY <2>2, <2>3, <2>4, <2>5, StaffedKept
<1>2. ASSUME NEW q \in Queuers, FinishQueuing(q) PROVE Staffed'
  <2>1. PICK g : g = AG(q) /\ g \in Groups /\ q = Queuer(g)
    BY ThreadFacts
  <2>2. /\ SameQueues
        /\ \A h \in Groups : args'[h].queuing_done = (args[h].queuing_done \/ h = g)
    BY <1>2, <2>1, QueuerArgs
  <2>3. /\ pc[q] = "chunk" /\ pc'[q] = "join"
        /\ \A u \in (Queuers \cup IoAll) \ {q} : pc'[u] = pc[u]
             \/ (u \in Io(g) /\ pc[u] = "asleep" /\ pc'[u] = "woken")
    BY <1>2, <2>1, FinishMoves DEF FinishQueuing
  <2>4. ASSUME NEW h \in Groups
        PROVE  /\ args'[h].queuing_done => pc'[Queuer(h)] \in {"join", "exited"}
               /\ Awaited(h)' => \E w \in Io(h) : pc'[w] \notin {"none", "exited"}
    <3>1. Queuer(h) \in Queuers /\ Queuer(h) \notin IoAll /\ (Queuer(h) = q <=> h = g)
      BY <2>1, <2>4, ThreadFacts
    <3>2. h # g => pc'[Queuer(h)] = pc[Queuer(h)]
      BY <2>1, <2>3, <3>1, ThreadFacts
    <3>3. Awaited(h)' => Awaited(h)
      BY <2>1, <2>2, <2>3, <2>4, <3>2 DEF Awaited, SameQueues
    <3>4. \A w \in Io(h) : pc[w] \notin {"none", "exited"} => pc'[w] \notin {"none", "exited"}
      BY <2>3, <2>4, <1>2, ThreadFacts
    <3>5. args'[h].queuing_done => pc'[Queuer(h)] \in {"join", "exited"}
      BY <2>1, <2>2, <2>3, <2>4, <3>2 DEF Staffed
    <3> QED BY <2>4, <3>3, <3>4, <3>5 DEF Staffed
  <2> QED BY <2>4 DEF Staffed, Io
<1>3. ASSUME NEW q \in Queuers, FinishPrefetch(q) PROVE Staffed'
  <2>1. PICK g : g = AG(q) /\ g \in Groups /\ q = Queuer(g) /\ q \in Threads /\ q \notin IoAll
    BY ThreadFacts
  <2>2. /\ pc[q] = "join"
        /\ \E p : /\ p = [pc EXCEPT ![q] = "exited"]
                  /\ \/ pc' = p
                     \/ args[g].next_args /\ pc' = [p EXCEPT ![Queuer(g + 1)] = "create"]
    BY <1>3, <2>1, FinishPrefetchMoves
  <2>3. args[g].next_args => pc[Queuer(g + 1)] = "none"
    BY <2>1, <2>2 DEF Life, LifeOf
  <2>4. \A w \in IoAll : w # Queuer(g + 1) /\ w # q
    BY <2>1 DEF IoAll, Io, Queuer
  <2>5. \A w \in IoAll : pc'[w] = pc[w]
    BY <1>0, <2>2, <2>4, ThreadFacts
  <2>6. \A r \in Queuers : \/ pc'[r] = pc[r]
                           \/ pc'[r] = "exited"
                           \/ pc[r] = "none" /\ pc'[r] = "create"
    BY <1>0, <2>2, <2>3, ThreadFacts
  <2>7. SameDone /\ SameQueues
    BY <1>3, QueuerArgs
  <2> QED BY <2>5, <2>6, <2>7, StaffedBegin
<1>4. CASE Start
  <2>1. /\ started \in Groups /\ SameQueues /\ SameDone
        /\ pc' = pc \/ pc' = [pc EXCEPT ![Queuer(started)] = "create"]
    BY <1>4, StartArgs
  <2>2. pc[Queuer(started)] = "none"
    <3>1. started <= started
      BY <2>1 DEF Groups
    <3> QED BY <2>1, <3>1 DEF Life, LifeOf
  <2>3. Queuer(started) \in Queuers /\ Queuer(started) \notin IoAll
    BY <2>1, ThreadFacts
  <2>4. \A w \in IoAll : pc'[w] = pc[w]
    BY <1>0, <2>1, <2>3, ThreadFacts
  <2>5. \A r \in Queuers : pc'[r] = pc[r] \/ (pc[r] = "none" /\ pc'[r] = "create")
    BY <1>0, <2>1, <2>2, ThreadFacts
  <2> QED BY <2>1, <2>4, <2>5, StaffedBegin
<1> QED BY <1>1, <1>2, <1>3, <1>4

\* The processing thread.
LEMMA StaffedMain ==
  ASSUME Shape, Staffed,
         NextGroup \/ Wait \/ ProcessChunk \/ Readbuf \/ ChunkProcessed \/ Cleanup
  PROVE  Staffed'
<1>1. \A u \in Queuers \cup IoAll : pc'[u] = pc[u]
  BY ThreadFacts DEF NextGroup, Wait, ProcessChunk, Readbuf, ChunkProcessed, Cleanup, Goto,
                     Shape, Places, InPlace
<1>2. SameDone /\ SameQueues
  <2>1. CASE ProcessChunk
    BY <2>1, OtherArgs DEF SameArgs
  <2>2. CASE Cleanup
    BY <2>2, CleanupArgs
  <2>3. CASE NextGroup \/ Wait \/ Readbuf \/ ChunkProcessed
    BY <2>3 DEF NextGroup, Wait, Readbuf, ChunkProcessed, SameQueues, SameDone
  <2> QED BY <2>1, <2>2, <2>3
<1> QED BY <1>1, <1>2, StaffedBegin

\* The readers are there in every step, if no allocation fails.
LEMMA StaffedStep ==
  "memory" \notin Faults /\ Shape /\ Life /\ Staffed /\ [Next]_vars => Staffed'
<1> SUFFICES ASSUME "memory" \notin Faults, Shape, Life, Staffed, [Next]_vars
             PROVE  Staffed'
  OBVIOUS
<1>1. CASE UNCHANGED vars
  BY <1>1 DEF vars, Staffed, Awaited
<1>2. ASSUME NEW t \in Threads, Getbuf(t) \/ Insert(t) \/ Putbuf(t) PROVE Staffed'
  BY <1>2, StaffedQueuing
<1>3. ASSUME NEW q \in Queuers, CreateIoThreads(q) PROVE Staffed'
  BY <1>3, StaffedCreate
<1>4. ASSUME NEW w \in IoAll, \/ IoStart(w) \/ IoTest(w) \/ IoWoken(w) \/ TakeBatch(w)
                              \/ BatchReturns(w) \/ ReadBatch(w) \/ NextInodeBuf(w)
                              \/ PutBatch(w) \/ Relock(w)
      PROVE  Staffed'
  BY <1>4, StaffedIo
<1> QED BY <1>1, <1>2, <1>3, <1>4, StaffedMain, StaffedQueuer, StepCases

-----------------------------------------------------------------------------
(* Reign: whose arguments are there *)

\* The specification starts with no group's.
LEMMA ReignInit == Init => Reign
<1> SUFFICES ASSUME Init PROVE Reign
  OBVIOUS
<1>1. agno = 0 /\ started = 0 /\ pc[Main] = "next"
  BY ThreadFacts DEF Init
<1>2. \A g \in Groups : args[g].state = "none" /\ g \in Nat
  BY ConstantFacts DEF Init, NoArgs
<1> QED BY <1>1, <1>2 DEF Reign

\* Steps that start, free and end nothing.
LEMMA ReignKept ==
  ASSUME Reign, agno' = agno, started' = started,
         \A g \in Groups : args'[g].state = args[g].state,
         \A g \in Groups : pc[Queuer(g)] = "exited" => pc'[Queuer(g)] = "exited",
         pc'[Main] = "next" <=> pc[Main] = "next"
  PROVE  Reign'
BY DEF Reign

\* The steps of the queueing and of the I/O threads.
LEMMA ReignThreads ==
  ASSUME "queue" \notin Faults, Shape, Life, Reign,
         \/ \E t \in Threads : Getbuf(t) \/ Insert(t) \/ Putbuf(t)
         \/ \E q \in Queuers : \/ CreateIoThreads(q) \/ NextChunk(q) \/ ChunkQueued(q)
                               \/ FinishQueuing(q) \/ FinishPrefetch(q)
         \/ \E w \in IoAll : \/ IoStart(w) \/ IoTest(w) \/ IoWoken(w) \/ TakeBatch(w)
                             \/ BatchReturns(w) \/ ReadBatch(w) \/ NextInodeBuf(w)
                             \/ PutBatch(w) \/ Relock(w)
  PROVE  Reign'
<1>0. DOMAIN pc = Threads /\ InPlace(pc)
  BY DEF Shape, Places, InPlace
<1>1. agno' = agno /\ started' = started
  <2>1. ASSUME NEW t \in Threads, Getbuf(t) \/ Insert(t) \/ Putbuf(t)
        PROVE  agno' = agno /\ started' = started
    BY <2>1 DEF Getbuf, Insert, Putbuf
  <2>2. ASSUME NEW q \in Queuers, \/ CreateIoThreads(q) \/ NextChunk(q) \/ ChunkQueued(q)
                                  \/ FinishQueuing(q) \/ FinishPrefetch(q)
        PROVE  agno' = agno /\ started' = started
    BY <2>2 DEF CreateIoThreads, NextChunk, ChunkQueued, FinishQueuing, FinishPrefetch
  <2>3. ASSUME NEW w \in IoAll, \/ IoStart(w) \/ IoTest(w) \/ IoWoken(w) \/ TakeBatch(w)
                                \/ BatchReturns(w) \/ ReadBatch(w) \/ NextInodeBuf(w)
                                \/ PutBatch(w) \/ Relock(w)
        PROVE  agno' = agno /\ started' = started
    BY <2>3, IoMoves
  <2> QED BY <2>1, <2>2, <2>3
<1>2. ASSUME NEW g \in Groups PROVE args'[g].state = args[g].state
  <2>1. ASSUME NEW t \in Threads, Getbuf(t) \/ Insert(t) \/ Putbuf(t)
        PROVE  args'[g].state = args[g].state
    <3>1. CASE Insert(t)
      <4>1. PICK h : h = AG(t)
        OBVIOUS
      <4>2. args'[h].state = args[h].state /\ \A k \in Groups \ {h} : args'[k] = args[k]
        BY <3>1, <4>1, InsertEffect
      <4> QED BY <4>2
    <3> QED BY <2>1, <3>1 DEF Getbuf, Putbuf
  <2>2. ASSUME NEW q \in Queuers, \/ CreateIoThreads(q) \/ NextChunk(q) \/ ChunkQueued(q)
                                  \/ FinishQueuing(q) \/ FinishPrefetch(q)
        PROVE  args'[g].state = args[g].state
    <3>1. CASE ChunkQueued(q)
      BY <3>1 DEF ChunkQueued
    <3>2. CASE \/ CreateIoThreads(q) \/ NextChunk(q) \/ FinishQueuing(q) \/ FinishPrefetch(q)
      <4>1. SameReign
        BY <3>2, QueuerArgs DEF SameArgs
      <4> QED BY <4>1 DEF SameReign
    <3> QED BY <2>2, <3>1, <3>2
  <2>3. ASSUME NEW w \in IoAll, \/ IoStart(w) \/ IoTest(w) \/ IoWoken(w) \/ TakeBatch(w)
                                \/ BatchReturns(w) \/ ReadBatch(w) \/ NextInodeBuf(w)
                                \/ PutBatch(w) \/ Relock(w)
        PROVE  args'[g].state = args[g].state
    <3>1. CASE TakeBatch(w)
      <4>1. PICK h : h = AG(w)
        OBVIOUS
      <4>2. SameReign
        BY <3>1, <4>1, TakeBatchEffect
      <4> QED BY <4>2 DEF SameReign
    <3>2. CASE BatchReturns(w)
      BY <3>2, OtherArgs DEF SameArgs, SameReign
    <3>3. CASE \/ IoStart(w) \/ IoTest(w) \/ IoWoken(w)
               \/ ReadBatch(w) \/ NextInodeBuf(w) \/ PutBatch(w) \/ Relock(w)
      BY <3>3 DEF IoStart, IoTest, IoWoken, ReadBatch, NextInodeBuf, PutBatch, Relock
    <3> QED BY <2>3, <3>1, <3>2, <3>3
  <2> QED BY <2>1, <2>2, <2>3
<1>3. ASSUME NEW g \in Groups, pc[Queuer(g)] = "exited" PROVE pc'[Queuer(g)] = "exited"
  <2>0. PICK r : r = Queuer(g) /\ r \in Queuers /\ r \in Threads /\ r \notin IoAll /\ AG(r) = g
    BY ThreadFacts
  <2>1. CASE \/ \E t \in Threads : Getbuf(t) \/ Insert(t) \/ Putbuf(t)
             \/ \E q \in Queuers : NextChunk(q) \/ ChunkQueued(q) \/ FinishQueuing(q)
             \/ \E w \in IoAll : \/ IoStart(w) \/ IoTest(w) \/ IoWoken(w) \/ TakeBatch(w)
                                 \/ BatchReturns(w) \/ ReadBatch(w) \/ NextInodeBuf(w)
                                 \/ PutBatch(w) \/ Relock(w)
    <3>1. pc'[r] = pc[r] \/ Running(r, pc[r])
      BY <2>0, <2>1, RunningMoves
    <3> QED BY <1>3, <2>0, <3>1 DEF Running
  <2>2. ASSUME NEW q \in Queuers, CreateIoThreads(q) PROVE pc'[r] = "exited"
    <3>1. PICK h : h = AG(q) /\ h \in Groups /\ q \in Threads /\ q \notin IoAll
      BY ThreadFacts
    <3>2. q # r
      BY <1>3, <2>0, <2>2 DEF CreateIoThreads
    <3>3. ASSUME NEW n \in 1 .. IoThreads,
                 pc' = [t \in Threads |->
                   IF t \in {<<"io", h, m>> : m \in 1 .. n} THEN "init"
                   ELSE IF t = q THEN "chunk" ELSE pc[t]]
          PROVE  pc'[r] = "exited"
      <4>1. r \notin {<<"io", h, m>> : m \in 1 .. n}
        BY <2>0, <3>1, <3>3, ConstantFacts DEF IoAll, Io
      <4> QED BY <1>3, <2>0, <3>2, <3>3, <4>1
    <3>4. ASSUME NEW p, p = [pc EXCEPT ![q] = "exited"], pc' = p \/ pc' = Woken(h, p)
          PROVE  pc'[r] = "exited"
      <4>1. InPlace(p)
        BY <1>0, <2>2, <3>1, <3>4, MoveInPlace DEF QueuerPlaces
      <4>2. \A v \in Queuers \cup IoAll : Woken(h, p)[v] = p[v]
        BY <3>1, <4>1, WakeInPlace
      <4>3. p[r] = "exited"
        BY <1>0, <1>3, <2>0, <3>2, <3>4
      <4> QED BY <2>0, <3>4, <4>2, <4>3
    <3> QED BY <2>2, <3>1, <3>3, <3>4 DEF CreateIoThreads
  <2>3. ASSUME NEW q \in Queuers, FinishPrefetch(q) PROVE pc'[r] = "exited"
    <3>1. PICK h : h = AG(q) /\ h \in Groups /\ q = Queuer(h) /\ q \in Threads
      BY ThreadFacts
    <3>2. /\ pc[q] = "join"
          /\ \E p : /\ p = [pc EXCEPT ![q] = "exited"]
                    /\ \/ pc' = p
                       \/ args[h].next_args /\ pc' = [p EXCEPT ![Queuer(h + 1)] = "create"]
      BY <2>3, <3>1, FinishPrefetchMoves
    <3>3. args[h].next_args => pc[Queuer(h + 1)] = "none"
      BY <3>1, <3>2 DEF Life, LifeOf
    <3> QED BY <1>0, <1>3, <2>0, <3>2, <3>3
  <2> QED BY <2>0, <2>1, <2>2, <2>3
<1>4. pc'[Main] = "next" <=> pc[Main] = "next"
  <2>0. Main \in Threads /\ Main \notin Queuers \cup IoAll
    BY ThreadFacts
  <2>1. ASSUME NEW t \in Threads, Getbuf(t) \/ Insert(t) \/ Putbuf(t)
        PROVE  pc'[Main] = "next" <=> pc[Main] = "next"
    <3>1. CASE Insert(t)
      BY <3>1, InsertMoves
    <3>2. CASE Getbuf(t) \/ Putbuf(t)
      <4>1. t # Main
        BY <2>0, <3>2, PlaceFacts DEF Getbuf, Putbuf
      <4> QED BY <1>0, <2>0, <3>2, <4>1 DEF Getbuf, Putbuf, Goto
    <3> QED BY <2>1, <3>1, <3>2
  <2>2. ASSUME NEW q \in Queuers, NextChunk(q) \/ ChunkQueued(q)
        PROVE  pc'[Main] = "next" <=> pc[Main] = "next"
    BY <1>0, <2>0, <2>2 DEF NextChunk, ChunkQueued, Goto
  <2>3. ASSUME NEW q \in Queuers, FinishQueuing(q)
        PROVE  pc'[Main] = "next" <=> pc[Main] = "next"
    BY <2>3, FinishMoves
  <2>4. ASSUME NEW q \in Queuers, FinishPrefetch(q)
        PROVE  pc'[Main] = "next" <=> pc[Main] = "next"
    <3>1. PICK h : h = AG(q) /\ q # Main /\ Queuer(h + 1) # Main
      BY ThreadFacts DEF Queuer, Main
    <3>2. \E p : /\ p = [pc EXCEPT ![q] = "exited"]
                 /\ \/ pc' = p
                    \/ args[h].next_args /\ pc' = [p EXCEPT ![Queuer(h + 1)] = "create"]
      BY <2>4, <3>1, FinishPrefetchMoves
    <3> QED BY <1>0, <2>0, <3>1, <3>2
  <2>5. ASSUME NEW q \in Queuers, CreateIoThreads(q)
        PROVE  pc'[Main] = "next" <=> pc[Main] = "next"
    <3>1. PICK h : h = AG(q) /\ h \in Groups /\ q \in Threads /\ q # Main
      BY ThreadFacts
    <3>2. ASSUME NEW n \in 1 .. IoThreads,
                 pc' = [t \in Threads |->
                   IF t \in {<<"io", h, m>> : m \in 1 .. n} THEN "init"
                   ELSE IF t = q THEN "chunk" ELSE pc[t]]
          PROVE  pc'[Main] = "next" <=> pc[Main] = "next"
      <4>1. Main \notin {<<"io", h, m>> : m \in 1 .. n}
        BY <2>0, <3>1, <3>2, ConstantFacts DEF IoAll, Io
      <4> QED BY <2>0, <3>1, <3>2, <4>1
    <3>3. ASSUME NEW p, p = [pc EXCEPT ![q] = "exited"], pc' = p \/ pc' = Woken(h, p)
          PROVE  pc'[Main] = "next" <=> pc[Main] = "next"
      <4>1. InPlace(p)
        BY <1>0, <2>5, <3>1, <3>3, MoveInPlace DEF QueuerPlaces
      <4>2. Woken(h, p)[Main] = "next" <=> p[Main] = "next"
        BY <3>1, <4>1, WakeInPlace
      <4>3. p[Main] = pc[Main]
        BY <1>0, <2>0, <3>1, <3>3
      <4> QED BY <3>3, <4>2, <4>3
    <3> QED BY <2>5, <3>1, <3>2, <3>3 DEF CreateIoThreads
  <2>6. ASSUME NEW w \in IoAll, \/ IoStart(w) \/ IoTest(w) \/ IoWoken(w) \/ TakeBatch(w)
                                \/ BatchReturns(w) \/ ReadBatch(w) \/ NextInodeBuf(w)
                                \/ PutBatch(w) \/ Relock(w)
        PROVE  pc'[Main] = "next" <=> pc[Main] = "next"
    BY <2>0, <2>6, IoMoves
  <2> QED BY <2>1, <2>2, <2>3, <2>4, <2>5, <2>6
<1> QED BY <1>1, <1>2, <1>3, <1>4, ReignKept

\* The start of a group: its arguments are the next to be there.
LEMMA ReignStart ==
  ASSUME ~Stride, "queue" \notin Faults, Shape, Life, Reign, Start
  PROVE  Reign'
<1>1. /\ started \in Groups /\ started < AGs /\ pc[Main] = "next" /\ started <= agno + 1
      /\ started' = started + 1 /\ agno' = agno
  BY StartArgs DEF Start, Ahead
<1>2. /\ args'[started].state = "live"
      /\ \A h \in Groups \ {started} : args'[h].state = args[h].state
      /\ pc' = pc \/ pc' = [pc EXCEPT ![Queuer(started)] = "create"]
  BY StartArgs
<1>3. started \in Nat /\ agno \in Nat /\ AGs \in Nat /\ \A g \in Groups : g \in Nat
  BY <1>1, ConstantFacts DEF Shape, Types
<1>4. pc'[Main] = "next"
  <2>1. Queuer(started) # Main
    BY DEF Queuer, Main
  <2> QED BY <1>1, <1>2, <2>1, ThreadFacts DEF Shape, Places, InPlace
<1>5. \A g \in Groups : g < agno => pc'[Queuer(g)] = "exited"
  <2>1. agno <= started
    BY DEF Reign
  <2>2. ASSUME NEW g \in Groups, g < agno PROVE pc'[Queuer(g)] = "exited"
    <3>1. pc[Queuer(g)] = "exited" /\ g # started
      BY <1>3, <2>1, <2>2 DEF Reign
    <3>2. Queuer(g) # Queuer(started)
      BY <3>1 DEF Queuer
    <3> QED BY <1>2, <3>1, <3>2, ThreadFacts DEF Shape, Places, InPlace
  <2> QED BY <2>2
<1>6. agno <= started /\ \A g \in Groups :
        args[g].state = IF g < agno THEN "freed" ELSE IF g < started THEN "live" ELSE "none"
  BY DEF Reign
<1>7. ASSUME NEW g \in Groups
      PROVE  args'[g].state =
               IF g < agno THEN "freed" ELSE IF g < started + 1 THEN "live" ELSE "none"
  <2>1. CASE g = started
    BY <1>2, <1>3, <1>6, <2>1
  <2>2. CASE g # started
    BY <1>2, <1>3, <1>6, <2>2
  <2> QED BY <2>1, <2>2
<1> QED BY <1>1, <1>3, <1>4, <1>5, <1>6, <1>7 DEF Reign

\* The processing thread: it frees a group's arguments after it has joined
\* the queueing thread.
LEMMA ReignMain ==
  ASSUME ~Stride, Shape, Reign,
         NextGroup \/ Wait \/ ProcessChunk \/ Readbuf \/ ChunkProcessed \/ Cleanup
  PROVE  Reign'
<1>0. DOMAIN pc = Threads /\ Main \in Threads /\ \A g \in Groups : Queuer(g) # Main
  BY ThreadFacts DEF Shape, Places, InPlace
<1>1. started \in Nat /\ agno \in Nat /\ AGs \in Nat /\ \A g \in Groups : g \in Nat
  BY ConstantFacts DEF Shape, Types
<1>2. \A g \in Groups : pc'[Queuer(g)] = pc[Queuer(g)]
  BY <1>0, ThreadFacts DEF NextGroup, Wait, ProcessChunk, Readbuf, ChunkProcessed, Cleanup, Goto
<1>3. CASE Wait \/ ProcessChunk \/ Readbuf \/ ChunkProcessed
  <2>1. \A g \in Groups : args'[g].state = args[g].state
    <3>1. CASE ProcessChunk
      BY <3>1, OtherArgs DEF SameArgs, SameReign
    <3>2. CASE Wait \/ Readbuf \/ ChunkProcessed
      BY <3>2 DEF Wait, Readbuf, ChunkProcessed
    <3> QED BY <1>3, <3>1, <3>2
  <2>2. pc[Main] # "next" /\ pc'[Main] # "next" /\ agno' = agno /\ started' = started
    BY <1>0, <1>3 DEF Wait, ProcessChunk, Readbuf, ChunkProcessed, Goto
  <2> QED BY <1>2, <2>1, <2>2, ReignKept
<1>4. CASE NextGroup
  <2>1. /\ pc'[Main] # "next" /\ agno' = agno /\ started' = started /\ args' = args
        /\ started = AGs \/ started > agno + 1
    BY <1>0, <1>4 DEF NextGroup, Goto
  <2> QED BY <1>2, <2>1 DEF Reign
<1>5. CASE Cleanup
  <2>1. /\ pc[Main] = "process" /\ agno' = agno + 1 /\ started' = started /\ pc'[Main] = "next"
        /\ QueuerJoined(agno)
    BY <1>0, <1>5 DEF Cleanup, Goto
  <2>2. /\ agno \in Groups /\ \A h \in Groups \ {agno} : args'[h].state = args[h].state
        /\ args[agno].state = "live" => args'[agno].state = "freed"
    BY <1>5, CleanupArgs
  <2>3. started = AGs \/ started > agno + 1
    BY <2>1 DEF Reign
  <2>4. agno < AGs /\ agno < started
    BY <1>1, <2>2, <2>3 DEF Groups
  <2>5. args[agno].state = "live"
    BY <1>1, <2>2, <2>4 DEF Reign
  <2>6. pc[Queuer(agno)] = "exited"
    BY <2>1, <2>5 DEF QueuerJoined
  <2>7. ASSUME NEW g \in Groups
        PROVE  /\ args'[g].state =
                    IF g < agno + 1 THEN "freed" ELSE IF g < started THEN "live" ELSE "none"
               /\ g < agno + 1 => pc'[Queuer(g)] = "exited"
    <3>1. CASE g = agno
      BY <1>1, <1>2, <2>2, <2>5, <2>6, <3>1
    <3>2. CASE g # agno
      <4>1. g < agno + 1 <=> g < agno
        BY <1>1, <3>2
      <4> QED BY <1>2, <2>2, <3>2, <4>1 DEF Reign
    <3> QED BY <3>1, <3>2
  <2> QED BY <1>1, <2>1, <2>3, <2>4, <2>7 DEF Reign
<1> QED BY <1>3, <1>4, <1>5

\* The arguments are there in every step.
LEMMA ReignStep ==
  ~Stride /\ "queue" \notin Faults /\ Shape /\ Life /\ Reign /\ [Next]_vars => Reign'
<1> SUFFICES ASSUME ~Stride, "queue" \notin Faults, Shape, Life, Reign, [Next]_vars
             PROVE  Reign'
  OBVIOUS
<1>1. CASE UNCHANGED vars
  BY <1>1 DEF vars, Reign
<1> QED BY <1>1, ReignThreads, ReignStart, ReignMain, StepCases

-----------------------------------------------------------------------------
(* The theorems *)

Sound == Shape /\ Life /\ Owned /\ InOrder

\* What holds whatever fails.
LEMMA SoundAlways == Spec => []Sound
<1>1. Init => Sound
  BY ShapeInit, LifeInit, OwnedInit, OrderInit DEF Sound
<1>2. Sound /\ [Next]_vars => Sound'
  <2>1. Sound /\ [Next]_vars => Shape' /\ Life'
    BY ShapeStep, LifeStep DEF Sound
  <2>2. Sound /\ [Next]_vars => Owned'
    BY <2>1, OwnedStep DEF Sound
  <2>3. Sound /\ [Next]_vars => InOrder'
    BY OrderStep DEF Sound
  <2> QED BY <2>1, <2>2, <2>3 DEF Sound
<1> QED BY <1>1, <1>2, PTL DEF Spec

\* The counter is a count, so it is never negative.
LEMMA SoundTypes == Sound => TypeOK
<1> SUFFICES ASSUME Sound PROVE TypeOK
  OBVIOUS
<1>1. Types /\ Places /\ InOrder /\ InPlace(pc)
  BY DEF Sound, Shape, Places
<1>2. ASSUME NEW g \in Groups
      PROVE  /\ args[g].state \in {"none", "live", "freed"} /\ args[g].io_queue \subseteq Blocks
             /\ args[g].inode_bufs_queued \in Nat /\ args[g].ra_count \in Nat
             /\ args[g].last_bno_read \in Nat
  <2>1. args[g] \in ArgsType /\ IsFiniteSet(args[g].io_queue)
    BY <1>1 DEF Types
  <2>2. IsFiniteSet(Inodes(g))
    <3>1. Inodes(g) \subseteq args[g].io_queue
      BY DEF Inodes
    <3> QED BY <2>1, <3>1, FS_Subset
  <2>3. Cardinality(Inodes(g)) \in Nat
    BY <2>2, FS_CardinalityType
  <2>4. args[g].inode_bufs_queued \in Nat
    BY <1>1, <2>3 DEF InOrder, CountOf
  <2> QED BY <2>1, <2>4 DEF ArgsType
<1>3. pc \in [Threads -> {"none", "next", "wait", "asleep", "process", "readbuf",
                          "start", "create", "chunk", "queueing", "insert", "join",
                          "init", "test", "woken", "retest", "batch", "read", "relock",
                          "exited"}]
  BY <1>1 DEF InPlace, MainPlaces, QueuerPlaces, IoPlaces
<1>4. left \in [Threads -> SUBSET Blocks]
  BY <1>1, ConstantFacts DEF Types
<1> QED BY <1>1, <1>2, <1>3, <1>4 DEF TypeOK, Types

\* Every variable stays in its range whatever fails: the counter of queued
\* inode buffers and the semaphore are never negative.
THEOREM TypeCorrect == Spec => []TypeOK
BY SoundAlways, SoundTypes, PTL

\* A buffer is locked for the queue exactly while it is on the queue of one
\* group, and for an I/O thread while it is in its batch or the one it queues,
\* whatever fails and whichever threads run ahead.
THEOREM LockedWhileQueued == Spec => []QueuedLocked
<1>1. Sound => QueuedLocked
  <2> SUFFICES ASSUME Sound PROVE QueuedLocked
    OBVIOUS
  <2>1. TypeOK /\ Shape /\ Owned
    BY SoundTypes DEF Sound
  <2>2. ASSUME NEW b \in Blocks, NEW queues, queues = {g \in Groups : b \in args[g].io_queue}
        PROVE  /\ Cardinality(queues) <= 1
               /\ queues # {} <=> owner[b] = OnQueue
    <3>1. queues # {} <=> owner[b] = OnQueue
      BY <2>1, <2>2 DEF Owned, OnOneQueue
    <3>2. CASE queues = {}
      <4>1. Cardinality(queues) = 0
        BY <3>2, FS_EmptySet
      <4> QED BY <3>1, <4>1
    <3>3. CASE queues # {}
      <4>1. PICK g : g \in queues
        BY <3>3
      <4>2. \A h \in queues : h = g
        BY <2>1, <2>2, <4>1 DEF Owned, OnOneQueue
      <4>3. queues = {g}
        BY <4>1, <4>2
      <4>4. Cardinality(queues) = 1
        BY <4>3, FS_Singleton
      <4> QED BY <3>1, <4>4
    <3> QED BY <3>2, <3>3
  <2>3. ASSUME NEW b \in Blocks, NEW w \in IoAll
        PROVE  /\ b \in batch[w] => owner[b] = w
               /\ owner[b] = w => \/ b \in batch[w]
                                  \/ \E n \in DOMAIN todo[w] : todo[w][n].b = b
    <3>1. Batched(w) /\ w \in Threads
      BY <2>1, ThreadFacts DEF Owned, Owns
    <3>2. pc[w] = "insert" => 1 \in DOMAIN todo[w] /\ Head(todo[w]) = todo[w][1]
      BY <2>1, <3>1, HeadFact DEF Shape, Places
    <3> QED BY <3>1, <3>2 DEF Batched
  <2> QED BY <2>1, <2>2, <2>3 DEF QueuedLocked
<1> QED BY <1>1, SoundAlways, PTL

\* The counter that starts and stops the reading of metadata is the number of
\* inode buffers on the queue, whatever fails.
THEOREM QueueCounted == Spec => []CountExact
<1>1. Sound => CountExact
  BY DEF Sound, InOrder, CountOf, Inodes, CountExact
<1> QED BY <1>1, SoundAlways, PTL

\* The assertions of pf_queue_io and pf_queuing_worker hold, if no allocation
\* of an I/O thread fails: an inode buffer is never behind the reads, and
\* nothing is left on the queue when the readers are joined.
THEOREM AssertionsHold == "memory" \notin Faults /\ Spec => []Asserts
<1> SUFFICES ASSUME "memory" \notin Faults PROVE Spec => []Asserts
  OBVIOUS
<1>1. Init => Staffed
  BY StaffedInit
<1>2. Sound /\ Staffed /\ [Next]_vars => Staffed'
  BY StaffedStep DEF Sound
<1>3. Sound /\ Staffed => Asserts
  <2> SUFFICES ASSUME Sound, Staffed PROVE Asserts
    OBVIOUS
  <2>1. ASSUME NEW t \in Queuers \cup IoAll, pc[t] = "insert", IsInode(Head(todo[t]).b)
        PROVE  Head(todo[t]).b > args[AG(t)].last_bno_read
    <3>1. /\ t \in Threads /\ AG(t) \in Groups /\ todo[t] # <<>> /\ Owns(t)
          /\ Types /\ CountOf(AG(t))
      BY <2>1, ThreadFacts DEF Sound, Shape, Places, Owned, InOrder
    <3>2. /\ 1 \in DOMAIN todo[t] /\ Head(todo[t]) = todo[t][1]
          /\ Head(todo[t]).b \in Blocks /\ Head(todo[t]).op = "queue"
      BY <2>1, <3>1, HeadFact DEF Owns, Inserting
    <3>3. t = Queuer(AG(t))
      <4>1. t \notin IoAll
        BY <2>1, <3>1, <3>2 DEF Owns, IoJob
      <4> QED BY <2>1, <4>1, ThreadFacts
    <3>4. PICK x : x = Head(todo[t]).b /\ x \in Nat
      BY <3>2, ConstantFacts
    <3>5. Coming(AG(t), x)
      BY <2>1, <3>2, <3>3, <3>4 DEF Coming
    <3> QED BY <3>1, <3>4, <3>5 DEF CountOf
  <2>2. ASSUME NEW g \in Groups, pc[Queuer(g)] = "join", Joined(g) PROVE args[g].io_queue = {}
    BY <2>2 DEF Staffed, Awaited, Joined
  <2> QED BY <2>1, <2>2 DEF Asserts
<1> QED BY <1>1, <1>2, <1>3, SoundAlways, PTL DEF Spec

\* The prefetch_args_t of a group is there as long as one of its threads runs,
\* when the next group's start locks it and when the processing thread gets to
\* it: without a stride, and when every queueing thread can be created.
THEOREM ArgsThere == ~Stride /\ "queue" \notin Faults /\ Spec => []ArgsAlive
<1> SUFFICES ASSUME ~Stride, "queue" \notin Faults PROVE Spec => []ArgsAlive
  OBVIOUS
<1>1. Init => Reign
  BY ReignInit
<1>2. Sound /\ Reign /\ [Next]_vars => Reign'
  BY ReignStep DEF Sound
<1>3. Sound /\ Reign => ArgsAlive
  <2> SUFFICES ASSUME Sound, Reign PROVE ArgsAlive
    OBVIOUS
  <2>0. started \in Nat /\ agno \in Nat /\ AGs \in Nat /\ \A g \in Groups : g \in Nat
    BY ConstantFacts DEF Sound, Shape, Types
  <2>1. ASSUME NEW t \in Queuers \cup IoAll, pc[t] \notin {"none", "exited"}
        PROVE  args[AG(t)].state = "live"
    <3>1. PICK g : g = AG(t) /\ g \in Groups
      BY <2>1, ThreadFacts
    <3>2. pc[Queuer(g)] \notin {"none", "exited"}
      <4>1. LifeOf(g)
        BY <3>1 DEF Sound, Life
      <4>2. t = Queuer(g) \/ t \in Io(g)
        BY <2>1, <3>1, ThreadFacts
      <4> QED BY <2>1, <4>1, <4>2 DEF LifeOf
    <3>3. g < started /\ ~(g < agno)
      <4>1. LifeOf(g)
        BY <3>1 DEF Sound, Life
      <4> QED BY <2>0, <3>1, <3>2, <4>1 DEF LifeOf, Reign
    <3> QED BY <3>1, <3>3 DEF Reign
  <2>2. ASSUME started \in 1 .. AGs - 1, Ahead PROVE args[started - 1].state # "freed"
    <3>1. started - 1 \in Groups /\ started # AGs
      BY <2>0, <2>2 DEF Groups
    <3>2. started > agno
      BY <2>0, <2>2, <3>1 DEF Ahead, Reign
    <3>3. ~(started - 1 < agno) /\ started - 1 < started
      BY <2>0, <3>2
    <3> QED BY <3>1, <3>3 DEF Reign
  <2>3. ASSUME pc[Main] = "next", agno < started PROVE args[agno].state # "freed"
    <3>1. agno \in Groups /\ ~(agno < agno)
      <4>1. started <= AGs
        BY DEF Sound, Shape, Types
      <4> QED BY <2>0, <2>3, <4>1 DEF Groups
    <3> QED BY <3>1 DEF Reign
  <2> QED BY <2>1, <2>2, <2>3 DEF ArgsAlive
<1> QED BY <1>1, <1>2, <1>3, SoundAlways, PTL DEF Spec
=============================================================================
