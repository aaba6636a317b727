------------------------------ MODULE XfsCache ------------------------------
(***************************************************************************)
(* libxfs/cache.c: the reference-counted, hashed node cache under the      *)
(* buffer cache and the inode cache.                                       *)
(*                                                                         *)
(* A node sits on one hash chain while it is cached and, while nobody      *)
(* references it, also on the MRU list of its priority, from where the     *)
(* shaker reclaims it.  Four kinds of mutex protect it: one per chain, one *)
(* per node, one per MRU list and one for the counters.  Lookups lock      *)
(* chain, then node, then MRU list; the shaker locks the MRU list first    *)
(* and only TRIES the other two.                                           *)
(*                                                                         *)
(* Each action is the code between two points where a thread can block or  *)
(* where another thread can see a lock taken.  Chains and MRU lists are    *)
(* sets: the order in them (which of the unreferenced nodes goes first) is *)
(* a replacement policy no property below depends on.  The hit and miss    *)
(* statistics are left out.                                                *)
(*                                                                         *)
(* Some definitions (MissingRef, RoomForOneMore, ...) state a plausible    *)
(* mistake in the definition after them.  The specification does not use   *)
(* them; they are there to show which property would notice the mistake.   *)
(***************************************************************************)
EXTENDS Integers, FiniteSets

CONSTANTS
  Threads,      \* threads that call the cache
  Slots,        \* references one thread can hold at a time
  Keys,         \* cache keys: (device, block, length) or inode numbers
  Buckets,      \* hash chains
  Hash,         \* cache->hash: the chain of a key
  Nodes,        \* the memory nodes are allocated from
  MaxPriority,  \* CACHE_MAX_PRIORITY
  ShakeCount,   \* CACHE_SHAKE_COUNT
  InitMaxcount, \* hashsize * HASH_CACHE_RATIO
  MaxcountBound,\* doubling stops here in the model
  None          \* "no thread", "no node", "no key"

ASSUME ConstantsAssumption ==
  /\ IsFiniteSet(Threads) /\ IsFiniteSet(Slots) /\ IsFiniteSet(Nodes)
  /\ Hash \in [Keys -> Buckets]
  /\ MaxPriority \in Nat
  /\ ShakeCount \in Nat \ {0}
  /\ InitMaxcount \in Nat \ {0}
  /\ MaxcountBound \in Nat /\ InitMaxcount <= MaxcountBound
  /\ None \notin Threads \cup Nodes \cup Keys

Priorities == 0 .. MaxPriority
Handles    == Threads \X Slots

VARIABLES
  chain,    \* c_hash[b].ch_list: the nodes on chain b
  mru,      \* c_mrus[p].cm_list: the unreferenced nodes of priority p
  hlock,    \* owner of ch_mutex
  nlock,    \* owner of cn_mutex
  mlock,    \* owner of cm_mutex
  live,     \* nodes between cache->alloc and cache->relse
  key,      \* what cache->compare matches
  count,    \* cn_count
  prio,     \* cn_priority, -1 once the shaker has taken the node
  total,    \* c_count
  maxcount, \* c_maxcount
  maxused,  \* c_max
  ref,      \* the node each handle references
  pc,       \* where a thread is
  arg,      \* the key of the call; None while a call owns the whole cache
  cur,      \* the local variable "node"
  pr,       \* the local variable "priority"
  todo,     \* nodes the shaker has not looked at yet
  temp      \* nodes the shaker has taken: its list "temp"

lists  == <<chain, mru>>
locks  == <<hlock, nlock, mlock>>
nodes  == <<live, key, count, prio>>
counts == <<total, maxcount, maxused>>
locals == <<arg, cur, pr, todo, temp>>
vars   == <<lists, locks, nodes, counts, ref, pc, locals>>

Labels == {"idle", "lookup", "search", "hit", "unlru", "allocate", "alloc",
           "insert", "inserting", "shake", "walk", "tryhash", "take",
           "release", "uncharge", "expand", "enlru", "putdone", "purge",
           "purging", "purgemru", "purged", "purgecount"}

Referencing(n) == {h \in Handles : ref[h] = n}
Cached         == UNION {chain[b] : b \in Buckets}

(***************************************************************************)
(* Client discipline.  Threads look nodes up, drop them and change their   *)
(* priority concurrently (FUSE worker threads, xfs_repair's prefetch and   *)
(* processing threads); cache_purge and the purge of a node just dropped   *)
(* happen only while one thread is in the program (umount, mkfs, the start *)
(* of xfs_repair).                                                         *)
(***************************************************************************)
Alone(t) == \A u \in Threads \ {t} : pc[u] = "idle"
Shared   == \A u \in Threads : pc[u] # "idle" => arg[u] # None

\* Reference counting and list surgery done by several operations.
MissingRef(n) == UNCHANGED count
Ref(n) == count' = [count EXCEPT ![n] = @ + 1]

MissingUnlru(n) == UNCHANGED mru
Unlru(n) == mru' = [mru EXCEPT ![prio[n]] = @ \ {n}]

EnlruAtBase(n) == mru' = [mru EXCEPT ![0] = @ \cup {n}]
Enlru(n) == mru' = [mru EXCEPT ![prio[n]] = @ \cup {n}]

Goto(t, label) == pc' = [pc EXCEPT ![t] = label]

\* A call returns: its local variables go out of scope.
Return(t) ==
  /\ Goto(t, "idle")
  /\ arg' = [arg EXCEPT ![t] = None]
  /\ cur' = [cur EXCEPT ![t] = None]
  /\ pr' = [pr EXCEPT ![t] = 0]
  /\ todo' = [todo EXCEPT ![t] = {}]
  /\ temp' = [temp EXCEPT ![t] = {}]

\* cache_init
Init ==
  /\ chain = [b \in Buckets |-> {}] /\ mru = [p \in Priorities |-> {}]
  /\ hlock = [b \in Buckets |-> None] /\ nlock = [n \in Nodes |-> None]
  /\ mlock = [p \in Priorities |-> None]
  /\ live = {}
  /\ key \in [Nodes -> {None}] /\ count = [n \in Nodes |-> 0]
  /\ prio = [n \in Nodes |-> -1]
  /\ total = 0 /\ maxcount = InitMaxcount /\ maxused = 0
  /\ ref = [h \in Handles |-> None]
  /\ pc = [t \in Threads |-> "idle"]
  /\ arg = [t \in Threads |-> None] /\ cur = [t \in Threads |-> None]
  /\ pr = [t \in Threads |-> 0]
  /\ todo = [t \in Threads |-> {}] /\ temp = [t \in Threads |-> {}]

-----------------------------------------------------------------------------
(* cache_node_get *)

GetStart(t, k) ==
  /\ pc[t] = "idle" /\ Shared
  /\ \E s \in Slots : ref[<<t, s>>] = None
  /\ Goto(t, "lookup")
  /\ arg' = [arg EXCEPT ![t] = k]
  /\ UNCHANGED <<lists, locks, nodes, counts, ref, cur, pr, todo, temp>>

\* The chain a call works on, and where it goes on once it holds its mutex.
ChainOf(t) == IF pc[t] \in {"lookup", "search", "hit", "unlru"}
              THEN Hash[arg[t]] ELSE Hash[key[cur[t]]]
AfterHashLock(label) == CASE label = "lookup" -> "search"
                          [] label = "insert" -> "inserting"
                          [] label = "purge"  -> "purging"

LockHash(t) ==
  /\ pc[t] \in {"lookup", "insert", "purge"}
  /\ hlock[ChainOf(t)] = None
  /\ hlock' = [hlock EXCEPT ![ChainOf(t)] = t]
  /\ Goto(t, AfterHashLock(pc[t]))
  /\ UNCHANGED <<lists, nlock, mlock, nodes, counts, ref, locals>>

MissingUnlock(t) == UNCHANGED hlock
UnlockHash(t) == hlock' = [hlock EXCEPT ![ChainOf(t)] = None]

MatchingAnyKey(t) == chain[ChainOf(t)]
Matching(t) == {n \in chain[ChainOf(t)] : key[n] = arg[t]}

SearchHit(t) ==
  /\ pc[t] = "search"
  /\ \E n \in Matching(t) : cur' = [cur EXCEPT ![t] = n]
  /\ Goto(t, "hit")
  /\ UNCHANGED <<lists, locks, nodes, counts, ref, arg, pr, todo, temp>>

SearchMiss(t) ==
  /\ pc[t] = "search"
  /\ Matching(t) = {}
  /\ UnlockHash(t)
  /\ Goto(t, "allocate")
  /\ UNCHANGED <<lists, nlock, mlock, nodes, counts, ref, locals>>

\* The caller gets node n in a handle of its own.
Grant(t, n) ==
  /\ \E s \in Slots :
       /\ ref[<<t, s>>] = None
       /\ ref' = [ref EXCEPT ![<<t, s>>] = n]
  /\ Return(t)

GetReferenced(t) ==
  /\ pc[t] = "hit"
  /\ nlock[cur[t]] = None /\ count[cur[t]] > 0
  /\ Ref(cur[t])
  /\ UnlockHash(t)
  /\ Grant(t, cur[t])
  /\ UNCHANGED <<lists, nlock, mlock, live, key, prio, counts>>

GetUnreferenced(t) ==
  /\ pc[t] = "hit"
  /\ nlock[cur[t]] = None /\ count[cur[t]] = 0
  /\ nlock' = [nlock EXCEPT ![cur[t]] = t]
  /\ Goto(t, "unlru")
  /\ UNCHANGED <<lists, hlock, mlock, nodes, counts, ref, locals>>

GetUnlru(t) ==
  LET n == cur[t] IN
  /\ pc[t] = "unlru"
  /\ mlock[prio[n]] = None
  /\ Unlru(n)
  /\ Ref(n)
  /\ nlock' = [nlock EXCEPT ![n] = None]
  /\ UnlockHash(t)
  /\ Grant(t, n)
  /\ UNCHANGED <<chain, mlock, live, key, prio, counts>>

\* cache_node_allocate: charge the new node before allocating it.
RoomForOneMore == total <= maxcount
Room == total < maxcount

Charge(t) ==
  /\ pc[t] = "allocate"
  /\ Room
  /\ total' = total + 1
  /\ maxused' = IF total + 1 > maxused THEN total + 1 ELSE maxused
  /\ Goto(t, "alloc")
  /\ UNCHANGED <<lists, locks, nodes, maxcount, ref, locals>>

ChargeRefused(t) ==
  /\ pc[t] = "allocate"
  /\ ~Room
  /\ Goto(t, "shake")
  /\ UNCHANGED <<lists, locks, nodes, counts, ref, locals>>

Alloc(t) ==
  /\ pc[t] = "alloc"
  /\ \E n \in Nodes \ live :
       /\ live' = live \cup {n}
       /\ key' = [key EXCEPT ![n] = arg[t]]
       /\ count' = [count EXCEPT ![n] = 1]
       /\ prio' = [prio EXCEPT ![n] = 0]
       /\ cur' = [cur EXCEPT ![t] = n]
  /\ Goto(t, "insert")
  /\ UNCHANGED <<lists, locks, counts, ref, arg, pr, todo, temp>>

AllocFailedCharged(t) ==
  /\ pc[t] = "alloc"
  /\ Nodes \subseteq live
  /\ Goto(t, "shake")
  /\ UNCHANGED <<lists, locks, nodes, counts, ref, locals>>

\* cache->alloc returned NULL: memory is exhausted.
AllocFailed(t) ==
  /\ pc[t] = "alloc"
  /\ Nodes \subseteq live
  /\ total' = total - 1
  /\ Goto(t, "shake")
  /\ UNCHANGED <<lists, locks, nodes, maxcount, maxused, ref, locals>>

\* The chain was unlocked meanwhile and is not searched again.
Insert(t) ==
  /\ pc[t] = "inserting"
  /\ chain' = [chain EXCEPT ![ChainOf(t)] = @ \cup {cur[t]}]
  /\ UnlockHash(t)
  /\ Grant(t, cur[t])
  /\ UNCHANGED <<mru, nlock, mlock, nodes, counts>>

\* cache_expand, after every priority has been shaken.
Expand(t) ==
  /\ pc[t] = "expand"
  /\ maxcount' = IF 2 * maxcount <= MaxcountBound THEN 2 * maxcount
                                                  ELSE MaxcountBound
  /\ pr' = [pr EXCEPT ![t] = 0]
  /\ Goto(t, "lookup")
  /\ UNCHANGED <<lists, locks, nodes, total, maxused, ref,
                 arg, cur, todo, temp>>

-----------------------------------------------------------------------------
(* cache_shake, for cache_node_get (arg is the key it looks for) and for   *)
(* cache_purge (arg is None, "all" is set).                                *)

ShakeLock(t) ==
  /\ pc[t] = "shake"
  /\ mlock[pr[t]] = None
  /\ mlock' = [mlock EXCEPT ![pr[t]] = t]
  /\ todo' = [todo EXCEPT ![t] = mru[pr[t]]]
  /\ Goto(t, "walk")
  /\ UNCHANGED <<lists, hlock, nlock, nodes, counts, ref, arg, cur, pr, temp>>

Skip(t, n) ==
  /\ todo' = [todo EXCEPT ![t] = @ \ {n}]
  /\ Goto(t, "walk")

ShakeNodeBusy(t) ==
  /\ pc[t] = "walk"
  /\ \E n \in todo[t] : nlock[n] # None /\ Skip(t, n)
  /\ UNCHANGED <<lists, locks, nodes, counts, ref, arg, cur, pr, temp>>

ShakeNode(t) ==
  /\ pc[t] = "walk"
  /\ \E n \in todo[t] :
       /\ nlock[n] = None
       /\ nlock' = [nlock EXCEPT ![n] = t]
       /\ cur' = [cur EXCEPT ![t] = n]
  /\ Goto(t, "tryhash")
  /\ UNCHANGED <<lists, hlock, mlock, nodes, counts, ref, arg, pr, todo, temp>>

ShakeHashBusy(t) ==
  /\ pc[t] = "tryhash"
  /\ hlock[ChainOf(t)] # None
  /\ nlock' = [nlock EXCEPT ![cur[t]] = None]
  /\ Skip(t, cur[t])
  /\ UNCHANGED <<lists, hlock, mlock, nodes, counts, ref, arg, cur, pr, temp>>

ShakeHash(t) ==
  /\ pc[t] = "tryhash"
  /\ hlock[ChainOf(t)] = None
  /\ hlock' = [hlock EXCEPT ![ChainOf(t)] = t]
  /\ Goto(t, "take")
  /\ UNCHANGED <<lists, nlock, mlock, nodes, counts, ref, locals>>

\* "all" is clear for cache_node_get: stop once ShakeCount nodes are taken.
EnoughEvenForAll(t, taken) == Cardinality(taken) = ShakeCount
Enough(t, taken) == arg[t] # None /\ Cardinality(taken) = ShakeCount

ShakeTake(t) ==
  LET n == cur[t]
      taken == temp[t] \cup {n}
  IN
  /\ pc[t] = "take"
  /\ prio' = [prio EXCEPT ![n] = -1]
  /\ mru' = [mru EXCEPT ![pr[t]] = @ \ {n}]
  /\ chain' = [chain EXCEPT ![ChainOf(t)] = @ \ {n}]
  /\ temp' = [temp EXCEPT ![t] = taken]
  /\ UnlockHash(t)
  /\ nlock' = [nlock EXCEPT ![n] = None]
  /\ todo' = [todo EXCEPT ![t] =
                IF Enough(t, taken) THEN {} ELSE @ \ {n}]
  /\ Goto(t, "walk")
  /\ UNCHANGED <<mlock, live, key, count, counts, ref, arg, cur, pr>>

\* What the caller of cache_shake does next: another lookup at the priority
\* returned, cache_expand, the next MRU list of cache_purge, or its return.
\* (The cache_flush of cache_purge changes nothing in the cache itself.)
AfterShake(t) ==
  LET next == IF Cardinality(temp[t]) = ShakeCount /\ arg[t] # None
              THEN pr[t] ELSE pr[t] + 1
  IN \/ /\ next \in Priorities
        /\ pr' = [pr EXCEPT ![t] = next]
        /\ temp' = [temp EXCEPT ![t] = {}]
        /\ Goto(t, IF arg[t] = None THEN "shake" ELSE "lookup")
        /\ UNCHANGED <<arg, cur, todo>>
     \/ /\ next \notin Priorities /\ arg[t] # None
        /\ temp' = [temp EXCEPT ![t] = {}]
        /\ Goto(t, "expand")
        /\ UNCHANGED <<arg, cur, pr, todo>>
     \/ /\ next \notin Priorities /\ arg[t] = None
        /\ Return(t)

ShakeUnlock(t) ==
  /\ pc[t] = "walk" /\ todo[t] = {}
  /\ mlock' = [mlock EXCEPT ![pr[t]] = None]
  /\ \/ /\ temp[t] # {}
        /\ Goto(t, "release")
        /\ UNCHANGED locals
     \/ temp[t] = {} /\ AfterShake(t)
  /\ UNCHANGED <<lists, hlock, nlock, nodes, counts, ref>>

\* cache->bulkrelse, called with no lock held.
Release(t) ==
  /\ pc[t] = "release"
  /\ live' = live \ temp[t]
  /\ Goto(t, "uncharge")
  /\ UNCHANGED <<lists, locks, key, count, prio, counts, ref, locals>>

Uncharge(t) ==
  /\ pc[t] = "uncharge"
  /\ total' = total - Cardinality(temp[t])
  /\ AfterShake(t)
  /\ UNCHANGED <<lists, locks, nodes, maxcount, maxused, ref>>

CachePurgeStart(t) ==
  /\ pc[t] = "idle" /\ Alone(t)
  /\ Goto(t, "shake")
  /\ UNCHANGED <<lists, locks, nodes, counts, ref, locals>>

-----------------------------------------------------------------------------
(* cache_node_put, cache_node_set_priority *)

Put(t, s) ==
  LET n == ref[<<t, s>>] IN
  /\ pc[t] = "idle" /\ Shared
  /\ n # None /\ nlock[n] = None
  /\ count' = [count EXCEPT ![n] = @ - 1]
  /\ ref' = [ref EXCEPT ![<<t, s>>] = None]
  /\ \/ /\ count[n] > 1
        /\ UNCHANGED <<nlock, pc, arg, cur>>
     \/ /\ count[n] = 1
        /\ nlock' = [nlock EXCEPT ![n] = t]
        /\ Goto(t, "enlru")
        /\ arg' = [arg EXCEPT ![t] = key[n]]
        /\ cur' = [cur EXCEPT ![t] = n]
  /\ UNCHANGED <<lists, hlock, mlock, live, key, prio, counts, pr, todo, temp>>

PutEnlru(t) ==
  LET n == cur[t] IN
  /\ pc[t] = "enlru"
  /\ mlock[prio[n]] = None
  /\ Enlru(n)
  /\ Goto(t, "putdone")
  /\ UNCHANGED <<chain, locks, nodes, counts, ref, locals>>

PutUnlock(t) ==
  /\ pc[t] = "putdone"
  /\ nlock' = [nlock EXCEPT ![cur[t]] = None]
  /\ Return(t)
  /\ UNCHANGED <<lists, hlock, mlock, nodes, counts, ref>>

\* libxfs_getbuf asks for 8 less than the priority was, the prefetcher for 8
\* more: what is stored is clamped to 0 .. MaxPriority.
ClampBelow(p) == IF p < 0 THEN 0 ELSE p
Clamp(p) == IF p < 0 THEN 0 ELSE IF p > MaxPriority THEN MaxPriority ELSE p

SetPriority(t, s, p) ==
  LET n == ref[<<t, s>>] IN
  /\ pc[t] = "idle" /\ Shared
  /\ n # None /\ nlock[n] = None
  /\ prio' = [prio EXCEPT ![n] = Clamp(p)]
  /\ UNCHANGED <<lists, locks, live, key, count, counts, ref, pc, locals>>

-----------------------------------------------------------------------------
(* cache_node_purge, by a holder of the node (libxfs_iget after a failed   *)
(* read) or, with no other thread about, of a node just put                *)
(* (libxfs_purgebuf in mkfs and xfs_repair).                               *)

Unowned(n) == count[n] <= 1
Unreferenced(n) == count[n] = 0

PurgeStart(t, n) ==
  /\ pc[t] = "idle" /\ Shared
  /\ \/ /\ \E s \in Slots : ref[<<t, s>>] = n
        /\ arg' = [arg EXCEPT ![t] = key[n]]
     \/ /\ n \in Cached /\ Referencing(n) = {} /\ Alone(t)
        /\ UNCHANGED arg
  /\ cur' = [cur EXCEPT ![t] = n]
  /\ Goto(t, "purge")
  /\ UNCHANGED <<lists, locks, nodes, counts, ref, pr, todo, temp>>

PurgeRefused(t) ==
  /\ pc[t] = "purging"
  /\ nlock[cur[t]] = None /\ ~Unreferenced(cur[t])
  /\ UnlockHash(t)
  /\ Return(t)
  /\ UNCHANGED <<lists, nlock, mlock, nodes, counts, ref>>

PurgeLockNode(t) ==
  /\ pc[t] = "purging"
  /\ nlock[cur[t]] = None /\ Unreferenced(cur[t])
  /\ nlock' = [nlock EXCEPT ![cur[t]] = t]
  /\ Goto(t, "purgemru")
  /\ UNCHANGED <<lists, hlock, mlock, nodes, counts, ref, locals>>

PurgeUnlru(t) ==
  LET n == cur[t] IN
  /\ pc[t] = "purgemru"
  /\ mlock[prio[n]] = None
  /\ Unlru(n)
  /\ nlock' = [nlock EXCEPT ![n] = None]
  /\ Goto(t, "purged")
  /\ UNCHANGED <<chain, hlock, mlock, nodes, counts, ref, locals>>

\* Unhash and cache->relse, still under the chain's mutex.
PurgeRelease(t) ==
  /\ pc[t] = "purged"
  /\ chain' = [chain EXCEPT ![ChainOf(t)] = @ \ {cur[t]}]
  /\ live' = live \ {cur[t]}
  /\ UnlockHash(t)
  /\ Goto(t, "purgecount")
  /\ UNCHANGED <<mru, nlock, mlock, key, count, prio, counts, ref, locals>>

PurgeUncharge(t) ==
  /\ pc[t] = "purgecount"
  /\ total' = total - 1
  /\ Return(t)
  /\ UNCHANGED <<lists, locks, nodes, maxcount, maxused, ref>>

-----------------------------------------------------------------------------
Get(t) ==
  \/ SearchHit(t) \/ SearchMiss(t) \/ GetReferenced(t) \/ GetUnreferenced(t)
  \/ GetUnlru(t) \/ Charge(t) \/ ChargeRefused(t) \/ Alloc(t)
  \/ AllocFailed(t) \/ Insert(t) \/ Expand(t)

Shake(t) ==
  \/ ShakeLock(t) \/ ShakeNodeBusy(t) \/ ShakeNode(t) \/ ShakeHashBusy(t)
  \/ ShakeHash(t) \/ ShakeTake(t) \/ ShakeUnlock(t) \/ Release(t)
  \/ Uncharge(t)

Purge(t) ==
  \/ PurgeRefused(t) \/ PurgeLockNode(t) \/ PurgeUnlru(t) \/ PurgeRelease(t)
  \/ PurgeUncharge(t)

\* A call in progress goes on.
Continue(t) ==
  LockHash(t) \/ Get(t) \/ Shake(t) \/ PutEnlru(t) \/ PutUnlock(t) \/ Purge(t)

\* A client calls.
Call(t) ==
  \/ \E k \in Keys : GetStart(t, k)
  \/ \E s \in Slots : Put(t, s)
  \/ \E s \in Slots, p \in -1 .. MaxPriority + 1 : SetPriority(t, s, p)
  \/ \E n \in Nodes : PurgeStart(t, n)
  \/ CachePurgeStart(t)

Next == \E t \in Threads : Call(t) \/ Continue(t)

Spec == Init /\ [][Next]_vars

\* A thread inside a call is scheduled, and a mutex it waits for is its own in
\* the end if it is free time and again: the code around the cache takes and
\* drops the mutexes for a few instructions at a time.  Nothing makes a client
\* call, nor give a reference back.
Fairness == \A t \in Threads : SF_vars(Continue(t))
FairSpec == Spec /\ Fairness

-----------------------------------------------------------------------------
(* Properties *)

\* The labels at which the locals "key" and "node" are in use.
KeyLabels  == {"lookup", "search", "hit", "unlru", "allocate", "alloc",
               "insert", "inserting", "expand"}
NodeLabels == {"hit", "unlru", "insert", "inserting", "tryhash", "take",
               "enlru", "putdone", "purge", "purging", "purgemru", "purged"}

\* Every variable stays in its range and no local is used before it is set.
\* (That c_count never goes below zero is CapacityExact's business.)
LocalTypeOK ==
  /\ pc \in [Threads -> Labels]
  /\ arg \in [Threads -> Keys \cup {None}]
  /\ cur \in [Threads -> Nodes \cup {None}]
  /\ pr \in [Threads -> Priorities]
  /\ todo \in [Threads -> SUBSET Nodes]
  /\ temp \in [Threads -> SUBSET Nodes]
  /\ \A t \in Threads : /\ pc[t] \in KeyLabels => arg[t] \in Keys
                        /\ pc[t] \in NodeLabels => cur[t] \in Nodes
TypeOK ==
  /\ chain \in [Buckets -> SUBSET Nodes]
  /\ mru \in [Priorities -> SUBSET Nodes]
  /\ hlock \in [Buckets -> Threads \cup {None}]
  /\ nlock \in [Nodes -> Threads \cup {None}]
  /\ mlock \in [Priorities -> Threads \cup {None}]
  /\ live \in SUBSET Nodes
  /\ key \in [Nodes -> Keys \cup {None}]
  /\ count \in [Nodes -> Nat]
  /\ prio \in [Nodes -> Priorities \cup {-1}]
  /\ total \in Int /\ maxcount \in Nat /\ maxused \in Int
  /\ ref \in [Handles -> Nodes \cup {None}]
  /\ LocalTypeOK

\* cn_count of a cached node is the number of references handed out and not
\* given back, however gets, puts and the shaker interleave.
RefCountExact ==
  \A n \in Cached : count[n] = Cardinality(Referencing(n))

\* A referenced node is never reclaimed under its holder: it stays allocated
\* and stays on the chain where the next lookup of its key finds it.
PinnedStaysCached ==
  \A h \in Handles :
    ref[h] # None => /\ ref[h] \in live
                     /\ ref[h] \in chain[Hash[key[ref[h]]]]

\* A cached node nobody references is on the MRU list of its priority, where
\* the shaker finds it (unless a thread is about to purge it): no node is
\* stuck in the cache for good.
Reclaimable ==
  \A n \in Cached :
    count[n] = 0 /\ nlock[n] = None =>
      \/ prio[n] \in Priorities /\ n \in mru[prio[n]]
      \/ \E t \in Threads : pc[t] = "purged" /\ cur[t] = n

\* The ASSERTs of cache_shake on the node it has just locked (a node the
\* shaker takes is unreferenced and has the priority of the list it is on) and
\* those of cache_node_get on an unreferenced node it revives (it is on the
\* MRU list of a priority that exists).
ShakerAsserts ==
  \A t \in Threads :
    /\ pc[t] \in {"tryhash", "take"} =>
         count[cur[t]] = 0 /\ prio[cur[t]] = pr[t]
    /\ pc[t] = "unlru" =>
         prio[cur[t]] \in Priorities /\ cur[t] \in mru[prio[cur[t]]]

\* What c_count counts: the allocated nodes, the ones charged for but not
\* allocated yet and the ones released but not uncharged yet.  No call, and
\* no failed allocation, leaks capacity.
Uncharged == UNION {{t} \X temp[t] : t \in {u \in Threads : pc[u] = "uncharge"}}
CapacityExact ==
  total = Cardinality(live) + Cardinality(Uncharged)
          + Cardinality({t \in Threads : pc[t] \in {"alloc", "purgecount"}})

\* The cache never holds more nodes than c_maxcount, nor more than c_max says.
CapacityBound == total <= maxused /\ maxused <= maxcount

\* cache_purge leaves exactly the nodes somebody still references, and c_count
\* counts them.
CachePurging(t) == arg[t] = None /\ pc[t] \in {"walk", "uncharge"}
PurgeComplete ==
  [][\A t \in Threads : CachePurging(t) /\ pc'[t] = "idle" =>
       /\ live' = {ref'[h] : h \in Handles} \ {None}
       /\ total' = Cardinality(live')]_vars

\* Every call returns, "a node is _always_ returned" (cache.c:297), with two
\* exceptions.  cache_shake that has taken ShakeCount nodes returns the
\* priority it was called with (cache.c:245), so a lookup whose room another
\* client takes again and again, between its shake and its retry, never comes
\* to the next priority nor to cache_expand.  And a lookup that does come to
\* cache_expand again and again needs it to make room, and the allocator to
\* deliver: it stops at MaxcountBound here.
Starved(t) ==
  /\ []<>(pc[t] = "shake")
  /\ \E u \in Threads \ {t} : []<>(pc[u] = "inserting")
NoMoreRoom(t) == []<>(pc[t] = "expand" /\ maxcount = MaxcountBound)
CallsReturn ==
  \A t \in Threads :
    (pc[t] # "idle" ~> pc[t] = "idle") \/ Starved(t) \/ NoMoreRoom(t)

\* The contract the cache's clients rely on: see PinnedStore.
KeyOfCached == [n \in Nodes |-> IF n \in Cached THEN key[n] ELSE None]
LookupLabels == Labels \ {"idle", "enlru", "putdone", "purge", "purging",
                          "purgemru", "purged", "purgecount"}
LookedUp == [t \in Threads |-> IF pc[t] \in LookupLabels THEN arg[t] ELSE None]
Store == INSTANCE PinnedStore WITH resident <- Cached, name <- KeyOfCached,
                                   want <- LookedUp, pin <- ref
RefinesPinnedStore == Store!Spec
=============================================================================
