-------------------------- MODULE XfsCacheContract --------------------------
(* What the cache promises, over and above the invariants of XfsCacheProofs: *)
(* with all its mutexes, lists and counters it keeps the promise of          *)
(* PinnedStore to its clients, and cache_purge, alone in the cache, leaves   *)
(* exactly the nodes somebody still references.                              *)
EXTENDS XfsCacheProofs

-----------------------------------------------------------------------------
(* The promise of PinnedStore                                                *)

(* The key a thread looks for: what LookedUp says of one thread. *)
Wanted(t) == IF pc[t] \in LookupLabels THEN arg[t] ELSE None

LEMMA WantsMove ==
  ASSUME IInv, NEW t \in Threads, Call(t) \/ Continue(t)
  PROVE  LookedUp' = [LookedUp EXCEPT ![t] = Wanted(t)']
<1>1. \A u \in Threads \ {t} : pc'[u] = pc[u] /\ arg'[u] = arg[u]
  BY Others DEF IInv
<1>2. \A u \in Threads : LookedUp[u] = Wanted(u) /\ LookedUp'[u] = Wanted(u)'
  BY DEF LookedUp, Wanted
<1>3. \A u \in Threads \ {t} : Wanted(u)' = Wanted(u)
  BY <1>1 DEF Wanted
<1>4. LookedUp' = [u \in Threads |-> LookedUp'[u]]
  BY DEF LookedUp
<1>5. [LookedUp EXCEPT ![t] = Wanted(t)'] =
        [u \in Threads |-> IF u = t THEN Wanted(t)' ELSE LookedUp[u]]
  BY DEF LookedUp
<1> QED  BY <1>2, <1>3, <1>4, <1>5

(* A thread begins to look for a key when it asks, and stops when it is    *)
(* answered; a call that shakes, allocates or searches again keeps its key. *)
LEMMA WantKept ==
  ASSUME IInv, NEW t \in Threads, Call(t) \/ Continue(t)
  PROVE  \/ Wanted(t)' = Wanted(t)
         \/ \E k \in Keys : GetStart(t, k)
         \/ GetReferenced(t) \/ GetUnlru(t) \/ Insert(t)
<1>1. /\ TypeOK
      /\ pc[t] = "idle" => arg[t] = None
  BY DEF IInv, ThreadOK
<1> USE <1>1 DEF TypeOK, LocalTypeOK, Goto, locals, Wanted, LookupLabels, Labels
<1>2. CASE Call(t)
  <2>1. CASE \E s \in Slots : Put(t, s)
    BY <2>1 DEF Put
  <2>2. CASE \E s \in Slots, p \in -1 .. MaxPriority + 1 : SetPriority(t, s, p)
    BY <2>2 DEF SetPriority
  <2>3. CASE \E n \in Nodes : PurgeStart(t, n)
    BY <2>3 DEF PurgeStart
  <2>4. CASE CachePurgeStart(t)
    BY <2>4 DEF CachePurgeStart
  <2> HIDE DEF TypeOK, LocalTypeOK, Goto, locals, Wanted, LookupLabels, Labels
  <2> QED  BY <1>2, <2>1, <2>2, <2>3, <2>4, Zenon DEF Call
<1>3. CASE Get(t)
  BY <1>3 DEF Get, SearchHit, SearchMiss, GetUnreferenced, Charge, ChargeRefused, Alloc,
              AllocFailed, Expand
<1>4. ASSUME AfterShake(t), pc[t] \in {"walk", "uncharge"}  PROVE Wanted(t)' = Wanted(t)
  BY <1>4 DEF AfterShake, Return
<1>5. CASE Shake(t)
  <2>1. CASE ShakeUnlock(t)
    BY <1>4, <2>1 DEF ShakeUnlock
  <2>2. CASE Uncharge(t)
    BY <1>4, <2>2 DEF Uncharge
  <2> QED  BY <1>5, <2>1, <2>2 DEF Shake, ShakeLock, ShakeNodeBusy, ShakeNode, ShakeHashBusy,
                   ShakeHash, ShakeTake, Release, Skip
<1>6. CASE Purge(t)
  BY <1>6 DEF Purge, PurgeRefused, PurgeLockNode, PurgeUnlru, PurgeRelease, PurgeUncharge,
              Return
<1>7. CASE LockHash(t)
  BY <1>7 DEF LockHash, AfterHashLock
<1>8. CASE PutEnlru(t) \/ PutUnlock(t)
  BY <1>8 DEF PutEnlru, PutUnlock, Return
<1> QED  BY <1>2, <1>3, <1>5, <1>6, <1>7, <1>8 DEF Continue

(* The names of the entries change only where the store does. *)
LEMMA NamesMove ==
  ASSUME IInv, NEW t \in Threads, Call(t) \/ Continue(t)
  PROVE  /\ Cached' = Cached => KeyOfCached' = KeyOfCached
         /\ \A n \in Nodes : Cached' = Cached \cup {n} /\ n \in live =>
              KeyOfCached' = [KeyOfCached EXCEPT ![n] = key[n]]
         /\ \A n \in Nodes : Cached' = Cached \ {n} =>
              KeyOfCached' = [KeyOfCached EXCEPT ![n] = None]
<1>1. \A n \in live : key'[n] = key[n]
  BY NodeGuarantee
<1>2. Cached \subseteq live
  BY CachedFacts
<1>3. \A m \in Nodes : /\ KeyOfCached[m] = IF m \in Cached THEN key[m] ELSE None
                       /\ KeyOfCached'[m] = IF m \in Cached' THEN key'[m] ELSE None
  BY DEF KeyOfCached
<1>4. KeyOfCached' = [m \in Nodes |-> KeyOfCached'[m]]
      /\ KeyOfCached = [m \in Nodes |-> KeyOfCached[m]]
  BY DEF KeyOfCached
<1>5. Cached' = Cached => KeyOfCached' = KeyOfCached
  <2> SUFFICES ASSUME Cached' = Cached  PROVE KeyOfCached' = KeyOfCached
    OBVIOUS
  <2>1. \A m \in Nodes : KeyOfCached'[m] = KeyOfCached[m]
    BY <1>1, <1>2, <1>3
  <2> QED  BY <1>4, <2>1
<1>6. ASSUME NEW n \in Nodes, Cached' = Cached \cup {n}, n \in live
      PROVE  KeyOfCached' = [KeyOfCached EXCEPT ![n] = key[n]]
  <2>1. \A m \in Nodes : KeyOfCached'[m] = IF m = n THEN key[n] ELSE KeyOfCached[m]
    BY <1>1, <1>2, <1>3, <1>6
  <2> QED  BY <1>4, <2>1
<1>7. ASSUME NEW n \in Nodes, Cached' = Cached \ {n}
      PROVE  KeyOfCached' = [KeyOfCached EXCEPT ![n] = None]
  <2>1. \A m \in Nodes : KeyOfCached'[m] = IF m = n THEN None ELSE KeyOfCached[m]
    BY <1>1, <1>2, <1>3, <1>7
  <2> QED  BY <1>4, <2>1
<1> QED  BY <1>5, <1>6, <1>7

-----------------------------------------------------------------------------
(* Every step of the cache is one of the store, or none *)

LEMMA Asked ==
  ASSUME IInv, NEW t \in Threads, NEW k \in Keys, GetStart(t, k)
  PROVE  Store!Ask(t, k)
<1>1. Call(t)
  BY DEF Call
<1>2. LookedUp' = [LookedUp EXCEPT ![t] = Wanted(t)']
  BY <1>1, WantsMove
<1>3. Wanted(t) = None /\ Wanted(t)' = k
  BY DEF GetStart, Wanted, LookupLabels, Labels, Goto, IInv, TypeOK, LocalTypeOK
<1>4. LookedUp[t] = Wanted(t)
  BY DEF LookedUp, Wanted
<1>5. Cached' = Cached /\ ref' = ref
  BY CachedAfter DEF GetStart, lists
<1>6. KeyOfCached' = KeyOfCached
  BY <1>1, <1>5, NamesMove
<1> QED  BY <1>2, <1>3, <1>4, <1>5, <1>6 DEF Store!Ask

LEMMA Answered ==
  ASSUME IInv, NEW t \in Threads, GetReferenced(t) \/ GetUnlru(t) \/ Insert(t)
  PROVE  \E s \in Slots, n \in Nodes : Store!Answer(t, s, n)
<1> DEFINE n == cur[t]
<1>1. /\ pc[t] \in {"hit", "unlru", "inserting"} /\ n \in Nodes /\ arg[t] \in Keys
      /\ arg[t] # None
  BY ConstantsAssumption DEF GetReferenced, GetUnlru, Insert, IInv, TypeOK, LocalTypeOK,
     KeyLabels, NodeLabels
<1>2. Grant(t, n)
  BY DEF GetReferenced, GetUnlru, Insert
<1>3. PICK s \in Slots : ref[<<t, s>>] = None /\ ref' = [ref EXCEPT ![<<t, s>>] = n]
  BY <1>2 DEF Grant
<1>4. Continue(t)
  BY DEF Continue, Get
<1>5. LookedUp' = [LookedUp EXCEPT ![t] = Wanted(t)']
  BY <1>4, WantsMove
<1>6. Wanted(t)' = None
  BY <1>2 DEF Grant, Return, Goto, Wanted, LookupLabels, IInv, TypeOK, LocalTypeOK
<1>7. LookedUp[t] = arg[t]
  BY <1>1 DEF LookedUp, LookupLabels, Labels
<1>8. CASE GetReferenced(t) \/ GetUnlru(t)
  <2>1. n \in Cached /\ key[n] = arg[t]
    BY <1>8, CurFacts DEF GetReferenced, GetUnlru
  <2>2. Cached' = Cached
    BY <1>8, CachedAfter DEF GetReferenced, GetUnlru, lists
  <2>3. KeyOfCached' = KeyOfCached
    BY <1>4, <2>2, NamesMove
  <2>4. KeyOfCached[n] = arg[t]
    BY <1>1, <2>1 DEF KeyOfCached
  <2>5. Store!Answer(t, s, n)
    <3> HIDE DEF n
    <3> QED  BY <1>1, <1>3, <1>5, <1>6, <1>7, <2>1, <2>2, <2>3, <2>4 DEF Store!Answer
  <2> QED  BY <1>1, <2>5
<1>9. CASE Insert(t)
  <2>1. n \in live \ Cached /\ key[n] = arg[t]
    BY <1>9 DEF Insert, IInv, ThreadOK, FreshOK, Fresh
  <2>2. Cached' = Cached \cup {n}
    BY <1>9, CachedAfter
  <2>3. KeyOfCached' = [KeyOfCached EXCEPT ![n] = arg[t]]
    BY <1>1, <1>4, <2>1, <2>2, NamesMove
  <2>4. Store!Answer(t, s, n)
    <3> HIDE DEF n
    <3> QED  BY <1>1, <1>3, <1>5, <1>6, <1>7, <2>1, <2>2, <2>3 DEF Store!Answer
  <2> QED  BY <1>1, <2>4
<1> QED  BY <1>8, <1>9

LEMMA Unpinned ==
  ASSUME IInv, NEW t \in Threads, NEW s \in Slots, Put(t, s)
  PROVE  Store!Unpin(<<t, s>>)
<1>1. Call(t)
  BY DEF Call
<1>2. Cached' = Cached
  BY CachedAfter DEF Put, lists
<1>3. KeyOfCached' = KeyOfCached
  BY <1>1, <1>2, NamesMove
<1>4. pc[t] = "idle" /\ pc'[t] \in {"idle", "enlru"}
  BY DEF Put, Goto, IInv, TypeOK, LocalTypeOK
<1>5. LookedUp' = [LookedUp EXCEPT ![t] = None]
  BY <1>1, <1>4, WantsMove DEF Wanted, LookupLabels
<1>6. LookedUp' = LookedUp
  BY <1>4, <1>5 DEF LookedUp, LookupLabels
<1> QED  BY <1>2, <1>3, <1>6 DEF Put, Store!Unpin

LEMMA Evicted ==
  ASSUME IInv, NEW t \in Threads, ShakeTake(t) \/ PurgeRelease(t)
  PROVE  \E n \in Nodes : Store!Evict(n)
<1> DEFINE n == cur[t]
<1>1. Continue(t)
  BY DEF Continue, Shake, Purge
<1>2. n \in Cached /\ count[n] = 0 /\ n \in Nodes
  <2>1. CASE ShakeTake(t)
    BY <2>1, CurFacts, CachedNodes DEF ShakeTake, IInv
  <2>2. CASE PurgeRelease(t)
    BY <2>2, CachedNodes DEF PurgeRelease, IInv, ThreadOK, PurgeOK
  <2> QED  BY <2>1, <2>2
<1>3. \A h \in Handles : ref[h] # n
  BY <1>2, CountZero
<1>4. Cached' = Cached \ {n}
  BY CachedAfter
<1>5. KeyOfCached' = [KeyOfCached EXCEPT ![n] = None]
  BY <1>1, <1>2, <1>4, NamesMove
<1>6. ref' = ref
  BY DEF ShakeTake, PurgeRelease
<1>7. Wanted(t)' = Wanted(t)
  <2>1. CASE ShakeTake(t)
    BY <2>1 DEF ShakeTake, Goto, Wanted, LookupLabels, Labels, IInv, TypeOK, LocalTypeOK
  <2>2. CASE PurgeRelease(t)
    BY <2>2 DEF PurgeRelease, Goto, Wanted, LookupLabels, Labels, IInv, TypeOK, LocalTypeOK
  <2> QED  BY <2>1, <2>2
<1>8. LookedUp' = LookedUp
  BY <1>1, <1>7, WantsMove DEF LookedUp, Wanted
<1>9. Store!Evict(n)
  <2> HIDE DEF n
  <2> QED  BY <1>2, <1>3, <1>4, <1>5, <1>6, <1>8 DEF Store!Evict, Handles
<1> QED  BY <1>2, <1>9

LEMMA Stored ==
  ASSUME IInv, NEW t \in Threads, Call(t) \/ Continue(t)
  PROVE  [Store!Next]_(Store!storeVars)
<1>1. CASE \E k \in Keys : GetStart(t, k)
  BY <1>1, Asked DEF Store!Next
<1>2. CASE GetReferenced(t) \/ GetUnlru(t) \/ Insert(t)
  BY <1>2, Answered DEF Store!Next
<1>3. CASE \E s \in Slots : Put(t, s)
  BY <1>3, Unpinned DEF Store!Next
<1>4. CASE ShakeTake(t) \/ PurgeRelease(t)
  BY <1>4, Evicted DEF Store!Next
<1>5. CASE Wanted(t)' = Wanted(t) /\ Cached' = Cached /\ ref' = ref
  <2>1. LookedUp' = LookedUp
    BY <1>5, WantsMove DEF LookedUp, Wanted
  <2>2. KeyOfCached' = KeyOfCached
    BY <1>5, NamesMove
  <2> QED  BY <1>5, <2>1, <2>2 DEF Store!storeVars
<1>6. \/ chain' = chain /\ ref' = ref
      \/ GetReferenced(t) \/ GetUnlru(t) \/ Insert(t) \/ ShakeTake(t) \/ PurgeRelease(t)
      \/ \E s \in Slots : Put(t, s)
  BY Disturbing DEF lists, nodes, Alloc, Release, PutEnlru, PurgeUnlru, SetPriority
<1> QED  BY <1>1, <1>2, <1>3, <1>4, <1>5, <1>6, WantKept, CachedAfter

(* cache.c keeps its promise: a lookup returns an entry with the key asked *)
(* for, the entry stays where it is until its last reference is put, and   *)
(* the shaker and the purges take only entries nobody references.          *)
THEOREM StoreImplemented == Spec => RefinesPinnedStore
<1>1. Init => Store!Init
  <2> SUFFICES ASSUME Init  PROVE Store!Init
    OBVIOUS
  <2>1. Cached = {}
    BY DEF Init, Cached
  <2>2. KeyOfCached = [n \in Nodes |-> None]
    BY <2>1 DEF KeyOfCached
  <2>3. LookedUp = [t \in Threads |-> None]
    BY DEF Init, LookedUp, LookupLabels
  <2> QED  BY <2>1, <2>2, <2>3 DEF Init, Handles, Store!Init
<1>2. IInv /\ [Next]_vars => [Store!Next]_(Store!storeVars)
  <2>1. ASSUME UNCHANGED vars  PROVE UNCHANGED (Store!storeVars)
    BY <2>1 DEF vars, lists, nodes, locals, Store!storeVars, Cached, KeyOfCached, LookedUp
  <2> QED  BY <2>1, Stored DEF Next
<1> QED  BY <1>1, <1>2, InvAlways, PTL DEF Spec, RefinesPinnedStore, Store!Spec

-----------------------------------------------------------------------------
(* cache_purge walks the MRU lists in the order of priorities, and nothing   *)
(* refills a list behind it.                                                 *)

(* A node that is allocated and not cached is in the hands of a thread. *)
Owned == \A n \in live \ Cached : \E t \in Threads : n \in Transit(t)

(* cache_purge has emptied the lists it is done with, and looks at all that *)
(* is left of the one it works on.                                          *)
Sweeping == {"shake", "walk", "tryhash", "take", "release", "uncharge"}
Emptied(t) ==
  arg[t] = None /\ pc[t] \in Sweeping =>
    /\ \A p \in Priorities : p < pr[t] => mru[p] = {}
    /\ pc[t] \in MruLabels => mru[pr[t]] \subseteq todo[t]
    /\ pc[t] \in {"release", "uncharge"} => mru[pr[t]] = {}
AtBase(t) == pc[t] = "idle" => pr[t] = 0
Purged == Owned /\ \A t \in Threads : Emptied(t) /\ AtBase(t)

LEMMA OwnedKept ==
  ASSUME IInv, Owned, NEW t \in Threads, Call(t) \/ Continue(t)
  PROVE  Owned'
<1>1. \A u \in Threads \ {t} : Transit(u)' = Transit(u)
  BY Others DEF IInv, Transit
<1>2. TypeOK /\ ThreadOK(t) /\ Cached \subseteq Nodes
  BY CachedNodes DEF IInv
<1>3. CASE Alloc(t)
  <2>1. PICK n \in Nodes \ live : live' = live \cup {n} /\ cur' = [cur EXCEPT ![t] = n]
    BY <1>3 DEF Alloc
  <2>2. pc[t] = "alloc" /\ pc'[t] = "insert" /\ cur'[t] = n /\ Cached' = Cached
    BY <1>2, <1>3, <2>1, CachedAfter DEF Alloc, Goto, TypeOK, LocalTypeOK, lists
  <2>3. Transit(t) = {} /\ n \in Transit(t)'
    BY <2>2 DEF Transit, Fresh, Taking
  <2> QED  BY <1>1, <2>1, <2>2, <2>3 DEF Owned
<1>4. CASE Insert(t)
  <2>1. pc[t] = "inserting" /\ live' = live /\ Cached' = Cached \cup {cur[t]}
    BY <1>4, CachedAfter DEF Insert, nodes
  <2>2. Transit(t) = {cur[t]}
    BY <2>1 DEF Transit, Fresh, Taking
  <2> QED  BY <1>1, <2>1, <2>2 DEF Owned
<1>5. CASE ShakeTake(t)
  <2>1. /\ pc[t] = "take" /\ pc'[t] = "walk" /\ temp'[t] = temp[t] \cup {cur[t]}
        /\ live' = live /\ Cached' = Cached \ {cur[t]}
    BY <1>2, <1>5, CachedAfter DEF ShakeTake, Goto, TypeOK, LocalTypeOK
  <2>2. Transit(t)' = Transit(t) \cup {cur[t]}
    BY <2>1 DEF Transit, Fresh, Taking
  <2> QED  BY <1>1, <2>1, <2>2 DEF Owned
<1>6. CASE Release(t)
  <2>1. pc[t] = "release" /\ live' = live \ temp[t] /\ Cached' = Cached
    BY <1>6, CachedAfter DEF Release, lists
  <2>2. Transit(t) = temp[t]
    BY <2>1 DEF Transit, Fresh, Taking
  <2> QED  BY <1>1, <2>1, <2>2 DEF Owned
<1>7. CASE PurgeRelease(t)
  <2>1. pc[t] = "purged" /\ live' = live \ {cur[t]} /\ Cached' = Cached \ {cur[t]}
    BY <1>7, CachedAfter DEF PurgeRelease
  <2>2. Transit(t) = {}
    BY <2>1 DEF Transit, Fresh, Taking
  <2> QED  BY <1>1, <2>1, <2>2 DEF Owned
<1>8. CASE live' = live /\ chain' = chain /\ ~Insert(t) /\ ~Release(t)
  <2>1. Cached' = Cached
    BY <1>8, CachedAfter
  <2>2. Transit(t) \subseteq Transit(t)'
    <3> SUFFICES ASSUME pc[t] \in Fresh \cup Taking  PROVE Transit(t) \subseteq Transit(t)'
      BY DEF Transit
    <3>1. pc[t] \in {"insert", "inserting", "walk", "tryhash", "take", "release"}
      BY DEF Fresh, Taking
    <3>2. CASE LockHash(t)
      <4>1. pc[t] = "insert" /\ pc'[t] = "inserting" /\ cur' = cur
        BY <1>2, <3>1, <3>2 DEF LockHash, AfterHashLock, Goto, TypeOK, LocalTypeOK, locals
      <4> QED  BY <4>1 DEF Transit, Fresh, Taking
    <3>3. CASE ShakeUnlock(t)
      <4>1. CASE temp[t] = {}
        BY <3>3, <4>1 DEF ShakeUnlock, Transit, Fresh
      <4>2. CASE temp[t] # {}
        BY <1>2, <3>3, <4>2 DEF ShakeUnlock, Goto, Transit, Fresh, Taking, TypeOK,
           LocalTypeOK, locals
      <4> QED  BY <4>1, <4>2
    <3>4. CASE ShakeNodeBusy(t) \/ ShakeNode(t) \/ ShakeHashBusy(t) \/ ShakeHash(t)
               \/ ShakeTake(t)
      <4>1. pc[t] \in Taking \ Fresh /\ pc'[t] \in Taking /\ temp[t] \subseteq temp'[t]
        BY <1>2, <3>4 DEF ShakeNodeBusy, ShakeNode, ShakeHashBusy, ShakeHash, ShakeTake, Skip,
           Goto, Taking, Fresh, TypeOK, LocalTypeOK, locals
      <4> QED  BY <4>1 DEF Transit
    <3>5. \/ LockHash(t) \/ ShakeUnlock(t) \/ ShakeNodeBusy(t) \/ ShakeNode(t)
          \/ ShakeHashBusy(t) \/ ShakeHash(t) \/ ShakeTake(t)
      BY <1>8, <3>1
         DEF Call, GetStart, Put, SetPriority, PurgeStart, CachePurgeStart, Continue, Get,
             SearchHit, SearchMiss, GetReferenced, GetUnreferenced, GetUnlru, Charge,
             ChargeRefused, Alloc, AllocFailed, Expand, Shake, ShakeLock, Uncharge, PutEnlru,
             PutUnlock, Purge, PurgeRefused, PurgeLockNode, PurgeUnlru, PurgeRelease,
             PurgeUncharge
    <3> QED  BY <3>2, <3>3, <3>4, <3>5
  <2> QED  BY <1>1, <1>8, <2>1, <2>2 DEF Owned
<1>9. \/ live' = live /\ chain' = chain
      \/ Alloc(t) \/ Insert(t) \/ ShakeTake(t) \/ Release(t) \/ PurgeRelease(t)
  BY Disturbing
     DEF lists, nodes, GetReferenced, GetUnlru, PutEnlru, PurgeUnlru, Put, SetPriority
<1> QED  BY <1>3, <1>4, <1>5, <1>6, <1>7, <1>8, <1>9

(* A sweep meets no lock: the other threads are idle. *)
LEMMA SweepUndisturbed ==
  ASSUME IInv, NEW t \in Threads, arg[t] = None, pc[t] \in Sweeping
  PROVE  /\ \A u \in Threads \ {t} : pc[u] = "idle"
         /\ ~ShakeNodeBusy(t) /\ ~ShakeHashBusy(t)
<1>1. TypeOK /\ LocksHeld /\ Solo /\ ThreadOK(t)
  BY DEF IInv
<1>2. \A u \in Threads \ {t} : pc[u] = "idle"
  BY <1>1 DEF Solo, Sweeping
<1>3. ~ShakeNodeBusy(t)
  <2> SUFFICES ASSUME ShakeNodeBusy(t)  PROVE FALSE
    OBVIOUS
  <2>1. PICK n \in todo[t] : nlock[n] # None
    BY DEF ShakeNodeBusy
  <2>2. n \in Nodes /\ nlock[n] \in Threads
    BY <1>1, <2>1 DEF TypeOK, LocalTypeOK
  <2>3. pc[nlock[n]] \in OwnerLabels
    BY <1>1, <2>2 DEF LocksHeld
  <2> QED  BY <1>2, <2>2, <2>3 DEF ShakeNodeBusy, OwnerLabels
<1>4. ~ShakeHashBusy(t)
  <2> SUFFICES ASSUME ShakeHashBusy(t)  PROVE FALSE
    OBVIOUS
  <2>1. pc[t] = "tryhash" /\ hlock[ChainOf(t)] # None
    BY DEF ShakeHashBusy
  <2>2. cur[t] \in Cached /\ key[cur[t]] \in Keys
    BY <2>1, CurFacts, CachedFacts
  <2>3. ChainOf(t) \in Buckets
    BY <2>1, <2>2, ConstantsAssumption DEF ChainOf
  <2> HIDE DEF ChainOf
  <2>4. hlock[ChainOf(t)] \in Threads
    BY <1>1, <2>1, <2>3 DEF TypeOK
  <2>5. pc[hlock[ChainOf(t)]] \in HashLabels
    BY <1>1, <2>3, <2>4 DEF LocksHeld
  <2> QED  BY <1>2, <2>1, <2>4, <2>5 DEF HashLabels
<1> QED  BY <1>2, <1>3, <1>4

(* One list after the other is empty. *)
LEMMA NextList ==
  ASSUME IInv, IInv', NEW t \in Threads, arg[t] = None, pc[t] \in {"walk", "uncharge"},
         AfterShake(t), mru' = mru, mru[pr[t]] = {},
         \A p \in Priorities : p < pr[t] => mru[p] = {}
  PROVE  Emptied(t)' /\ AtBase(t)'
         /\ (pc'[t] = "idle" => \A p \in Priorities : mru[p] = {})
<1>1. TypeOK /\ pr[t] \in Priorities /\ Priorities \subseteq Int
  BY ConstantsAssumption DEF IInv, TypeOK, LocalTypeOK, Priorities
<1>2. \/ /\ pr[t] + 1 \in Priorities /\ pr' = [pr EXCEPT ![t] = pr[t] + 1]
         /\ Goto(t, "shake") /\ UNCHANGED arg
      \/ pr[t] + 1 \notin Priorities /\ Return(t)
  BY DEF AfterShake
<1>3. CASE /\ pr[t] + 1 \in Priorities /\ pr' = [pr EXCEPT ![t] = pr[t] + 1]
           /\ Goto(t, "shake") /\ UNCHANGED arg
  <2>1. pr'[t] = pr[t] + 1 /\ pc'[t] = "shake"
    BY <1>1, <1>3 DEF Goto, TypeOK, LocalTypeOK
  <2>2. ASSUME NEW p \in Priorities, p < pr[t] + 1  PROVE mru[p] = {}
    <3>1. p \in Int /\ pr[t] \in Int
      BY <1>1
    <3>2. p < pr[t] \/ p = pr[t]
      BY <2>2, <3>1
    <3> QED  BY <3>2
  <2> QED  BY <2>1, <2>2 DEF Emptied, AtBase, MruLabels
<1>4. CASE pr[t] + 1 \notin Priorities /\ Return(t)
  <2>1. pc'[t] = "idle" /\ pr'[t] = 0
    BY <1>1, <1>4 DEF Return, Goto, TypeOK, LocalTypeOK
  <2>2. \A p \in Priorities : p < pr[t] \/ p = pr[t]
    BY <1>1, <1>4, ConstantsAssumption DEF Priorities
  <2> QED  BY <2>1, <2>2 DEF Emptied, AtBase, Sweeping
<1> QED  BY <1>2, <1>3, <1>4

LEMMA SweepKept ==
  ASSUME IInv, IInv', Purged, NEW t \in Threads, Shake(t), arg[t] = None
  PROVE  Emptied(t)' /\ AtBase(t)'
<1>1. /\ TypeOK /\ ThreadOK(t) /\ pc[t] \in Sweeping /\ pr[t] \in Priorities
  BY DEF IInv, TypeOK, LocalTypeOK, Sweeping, Shake, ShakeLock, ShakeNodeBusy, ShakeNode,
         ShakeHashBusy, ShakeHash, ShakeTake, ShakeUnlock, Release, Uncharge
<1>2. /\ \A p \in Priorities : p < pr[t] => mru[p] = {}
      /\ pc[t] \in MruLabels => mru[pr[t]] \subseteq todo[t]
      /\ pc[t] \in {"release", "uncharge"} => mru[pr[t]] = {}
  BY <1>1 DEF Purged, Emptied
<1>3. CASE ShakeLock(t)
  <2>1. pc'[t] = "walk" /\ todo'[t] = mru[pr[t]] /\ mru' = mru /\ pr' = pr
    BY <1>1, <1>3 DEF ShakeLock, Goto, TypeOK, LocalTypeOK, lists
  <2> QED  BY <1>2, <2>1 DEF Emptied, AtBase
<1>4. CASE ShakeNode(t) \/ ShakeHash(t)
  <2>1. /\ pc[t] \in MruLabels /\ pc'[t] \in MruLabels
        /\ todo' = todo /\ mru' = mru /\ pr' = pr
    BY <1>1, <1>4 DEF ShakeNode, ShakeHash, Goto, TypeOK, LocalTypeOK, lists, locals, MruLabels
  <2> QED  BY <1>2, <2>1 DEF Emptied, AtBase, MruLabels
<1>5. CASE ShakeTake(t)
  <2>1. ~Enough(t, temp[t] \cup {cur[t]})
    BY DEF Enough
  <2>2. /\ pc[t] = "take" /\ pc'[t] = "walk" /\ pr' = pr
        /\ todo'[t] = todo[t] \ {cur[t]}
        /\ mru' = [mru EXCEPT ![pr[t]] = @ \ {cur[t]}]
    BY <1>1, <1>5, <2>1 DEF ShakeTake, Goto, TypeOK, LocalTypeOK
  <2>3. mru \in [Priorities -> SUBSET Nodes]
    BY <1>1 DEF TypeOK
  <2>4. mru'[pr[t]] \subseteq todo'[t]
    BY <1>1, <1>2, <2>2, <2>3 DEF MruLabels
  <2>5. \A p \in Priorities : p < pr[t] => mru'[p] = {}
    BY <1>1, <1>2, <2>2, <2>3
  <2> QED  BY <2>2, <2>4, <2>5 DEF Emptied, AtBase
<1>6. CASE ShakeUnlock(t)
  <2>1. pc[t] = "walk" /\ mru' = mru /\ mru[pr[t]] = {}
    BY <1>2, <1>6 DEF ShakeUnlock, lists, MruLabels
  <2>2. CASE AfterShake(t)
    BY <1>2, <2>1, <2>2, NextList
  <2>3. CASE Goto(t, "release") /\ UNCHANGED locals
    <3>1. pc'[t] = "release" /\ pr' = pr
      BY <1>1, <2>3 DEF Goto, TypeOK, LocalTypeOK, locals
    <3> QED  BY <1>2, <2>1, <3>1 DEF Emptied, AtBase, MruLabels
  <2> QED  BY <1>6, <2>2, <2>3 DEF ShakeUnlock
<1>7. CASE Release(t)
  <2>1. pc[t] = "release" /\ pc'[t] = "uncharge" /\ pr' = pr /\ mru' = mru
    BY <1>1, <1>7 DEF Release, Goto, TypeOK, LocalTypeOK, locals, lists
  <2> QED  BY <1>2, <2>1 DEF Emptied, AtBase, MruLabels
<1>8. CASE Uncharge(t)
  <2>1. pc[t] = "uncharge" /\ mru' = mru /\ AfterShake(t)
    BY <1>8 DEF Uncharge, lists
  <2> QED  BY <1>2, <2>1, NextList
<1> QED
  BY <1>1, <1>3, <1>4, <1>5, <1>6, <1>7, <1>8, SweepUndisturbed DEF Shake

LEMMA OwnPurged ==
  ASSUME IInv, IInv', Purged, NEW t \in Threads, Call(t) \/ Continue(t)
  PROVE  Emptied(t)' /\ AtBase(t)'
<1>1. TypeOK /\ TypeOK' /\ pr \in [Threads -> Priorities] /\ pr' \in [Threads -> Priorities]
  BY DEF IInv, TypeOK, LocalTypeOK
<1>2. pc \in [Threads -> Labels] /\ arg \in [Threads -> Keys \cup {None}]
  BY <1>1 DEF TypeOK, LocalTypeOK
<1> DEFINE Quiet == Emptied(t)' /\ AtBase(t)'
<1>3. Return(t) => Quiet
  <2>1. Return(t) => pc'[t] = "idle" /\ pr'[t] = 0
    BY <1>1, <1>2 DEF Return, Goto
  <2> QED  BY <2>1 DEF Emptied, AtBase, Sweeping
<1>4. arg[t] # None /\ arg' = arg /\ pc'[t] # "idle" => Quiet
  BY DEF Emptied, AtBase
<1>5. pc'[t] \notin Sweeping \cup {"idle"} => Quiet
  BY DEF Emptied, AtBase
<1> SUFFICES Quiet
  OBVIOUS
<1> HIDE DEF Quiet
<1>6. CASE Call(t)
  <2>1. pc[t] = "idle" /\ pr[t] = 0 /\ pr' = pr /\ mru' = mru
    BY <1>6 DEF Call, GetStart, Put, SetPriority, PurgeStart, CachePurgeStart, Purged, AtBase,
                lists, locals
  <2>2. pc'[t] \notin Sweeping \/ pc'[t] = "shake"
    BY <1>2, <1>6, <2>1 DEF Call, GetStart, Put, SetPriority, PurgeStart, CachePurgeStart,
                            Goto, Sweeping
  <2>3. \A p \in Priorities : ~(p < 0)
    BY ConstantsAssumption DEF Priorities
  <2> QED  BY <2>1, <2>2, <2>3 DEF Quiet, Emptied, AtBase, MruLabels
<1>7. CASE Get(t)
  <2>1. arg[t] # None
    BY <1>1, <1>7, ConstantsAssumption
       DEF Get, SearchHit, SearchMiss, GetReferenced, GetUnreferenced, GetUnlru, Charge,
           ChargeRefused, Alloc, AllocFailed, Insert, Expand, TypeOK, LocalTypeOK, KeyLabels
  <2>2. CASE GetReferenced(t) \/ GetUnlru(t) \/ Insert(t)
    BY <1>3, <2>2 DEF GetReferenced, GetUnlru, Insert, Grant
  <2>3. CASE SearchHit(t) \/ SearchMiss(t) \/ GetUnreferenced(t) \/ Charge(t)
    <3>1. arg' = arg /\ pc'[t] # "idle"
      BY <1>2, <2>3 DEF SearchHit, SearchMiss, GetUnreferenced, Charge, Goto, locals
    <3> QED  BY <1>4, <2>1, <3>1
  <2>4. CASE ChargeRefused(t) \/ Alloc(t) \/ AllocFailed(t) \/ Expand(t)
    <3>1. arg' = arg /\ pc'[t] # "idle"
      BY <1>2, <2>4 DEF ChargeRefused, Alloc, AllocFailed, Expand, Goto, locals
    <3> QED  BY <1>4, <2>1, <3>1
  <2> QED  BY <1>7, <2>2, <2>3, <2>4 DEF Get
<1>8. CASE Shake(t) /\ arg[t] # None
  <2>1. CASE AfterShake(t)
    <3>1. CASE Return(t)
      BY <1>3, <3>1
    <3>2. CASE Goto(t, "lookup") \/ Goto(t, "expand")
      <4>1. pc'[t] \notin Sweeping \cup {"idle"}
        BY <1>2, <3>2 DEF Goto, Sweeping
      <4> QED  BY <1>5, <4>1
    <3> QED  BY <1>8, <2>1, <3>1, <3>2 DEF AfterShake
  <2>2. CASE ShakeLock(t) \/ ShakeNodeBusy(t) \/ ShakeNode(t) \/ ShakeHashBusy(t)
    <3>1. arg' = arg /\ pc'[t] # "idle"
      BY <1>2, <2>2 DEF ShakeLock, ShakeNodeBusy, ShakeNode, ShakeHashBusy, Skip, Goto
    <3> QED  BY <1>4, <1>8, <3>1
  <2>3. CASE ShakeHash(t) \/ ShakeTake(t) \/ Release(t)
    <3>1. arg' = arg /\ pc'[t] # "idle"
      BY <1>2, <2>3 DEF ShakeHash, ShakeTake, Release, Goto, locals
    <3> QED  BY <1>4, <1>8, <3>1
  <2>4. CASE Goto(t, "release") /\ UNCHANGED locals
    <3>1. arg' = arg /\ pc'[t] # "idle"
      BY <1>2, <2>4 DEF Goto, locals
    <3> QED  BY <1>4, <1>8, <3>1
  <2> QED  BY <1>8, <2>1, <2>2, <2>3, <2>4 DEF Shake, ShakeUnlock, Uncharge
<1>9. CASE Shake(t) /\ arg[t] = None
  BY <1>9, SweepKept DEF Quiet
<1>10. CASE LockHash(t)
  <2>1. pc'[t] \in {"search", "inserting", "purging"}
    BY <1>2, <1>10 DEF LockHash, AfterHashLock, Goto
  <2> QED  BY <1>5, <2>1 DEF Sweeping
<1>11. CASE PutUnlock(t) \/ PurgeRefused(t) \/ PurgeUncharge(t)
  BY <1>3, <1>11 DEF PutUnlock, PurgeRefused, PurgeUncharge
<1>12. CASE PutEnlru(t) \/ PurgeLockNode(t) \/ PurgeUnlru(t) \/ PurgeRelease(t)
  <2>1. pc'[t] \in {"putdone", "purgemru", "purged", "purgecount"}
    BY <1>2, <1>12 DEF PutEnlru, PurgeLockNode, PurgeUnlru, PurgeRelease, Goto
  <2> QED  BY <1>5, <2>1 DEF Sweeping
<1> QED
  BY <1>6, <1>7, <1>8, <1>9, <1>10, <1>11, <1>12 DEF Continue, Purge

LEMMA PurgedKept ==
  ASSUME IInv, IInv', Purged, NEW t \in Threads, Call(t) \/ Continue(t)
  PROVE  Purged'
<1>1. \A u \in Threads \ {t} : pc'[u] = pc[u] /\ arg'[u] = arg[u] /\ pr'[u] = pr[u]
  BY Others DEF IInv
<1>2. Owned'
  BY OwnedKept DEF Purged
<1>3. ASSUME NEW u \in Threads \ {t}  PROVE Emptied(u)' /\ AtBase(u)'
  <2>1. AtBase(u)'
    BY <1>1 DEF Purged, AtBase
  <2>2. ~(arg[u] = None /\ pc[u] \in Sweeping)
    <3> SUFFICES ASSUME arg[u] = None, pc[u] \in Sweeping  PROVE FALSE
      OBVIOUS
    <3>1. pc[u] # "idle" /\ pc[t] = "idle"
      BY SweepUndisturbed DEF Sweeping
    <3>2. Alone(t) \/ Shared
      BY <3>1, IdleCalls
    <3> QED  BY <3>1, <3>2 DEF Alone, Shared
  <2> QED  BY <1>1, <2>1, <2>2 DEF Emptied
<1>4. Emptied(t)' /\ AtBase(t)'
  BY OwnPurged
<1> QED  BY <1>2, <1>3, <1>4 DEF Purged

(* When nobody is in a call and no list holds a node, the nodes there are  *)
(* are the referenced ones, and c_count counts them.                       *)
Deserted == /\ \A t \in Threads : pc[t] = "idle"
            /\ \A p \in Priorities : mru[p] = {}
Referenced == live = {ref[h] : h \in Handles} \ {None} /\ total = Cardinality(live)

LEMMA NobodyInside == IInv /\ Owned /\ CapacityExact /\ Deserted => Referenced
<1> SUFFICES ASSUME IInv, Owned, CapacityExact, Deserted  PROVE Referenced
  OBVIOUS
<1> USE DEF Deserted
<1>1. live = Cached
  <2>1. live \subseteq Cached
    BY DEF Owned, Transit, Fresh, Taking
  <2> QED  BY <2>1, CachedFacts
<1>2. ASSUME NEW n \in Cached  PROVE \E h \in Handles : ref[h] = n
  <2>1. count[n] # 0
    <3>1. prio[n] \in Priorities
      BY CachedFacts
    <3>2. ~Listed(n)
      BY <3>1 DEF Listed
    <3> QED  BY <3>2 DEF IInv, ListsOK, ZeroListed
  <2> QED  BY <2>1, CountZero
<1>3. None \notin Cached
  BY CachedNodes, ConstantsAssumption DEF IInv
<1>4. \A h \in Handles : ref[h] # None => ref[h] \in Cached
  BY DEF IInv, ListsOK, RefsCached
<1>5. live = {ref[h] : h \in Handles} \ {None}
  BY <1>1, <1>2, <1>3, <1>4
<1>6. Uncharged = {} /\ {t \in Threads : pc[t] \in {"alloc", "purgecount"}} = {}
  BY DEF Uncharged
<1>7. Cardinality(live) \in Nat
  BY ConstantsAssumption, FS_Subset, FS_CardinalityType DEF IInv, TypeOK
<1>8. total = Cardinality(live)
  BY <1>6, <1>7, FS_EmptySet DEF CapacityExact
<1> QED  BY <1>5, <1>8 DEF Referenced

LEMMA PurgeEnds ==
  ASSUME IInv, IInv', Purged, CapacityExact', NEW t \in Threads, Call(t) \/ Continue(t),
         CachePurging(t), pc'[t] = "idle"
  PROVE  Referenced'
<1>1. /\ arg[t] = None /\ pc[t] \in {"walk", "uncharge"} /\ pc[t] \in Sweeping
  BY DEF CachePurging, Sweeping
<1>2. \A u \in Threads : pc'[u] = "idle"
  BY <1>1, SweepUndisturbed, Others DEF IInv
<1>3. /\ \A p \in Priorities : p < pr[t] => mru[p] = {}
      /\ pc[t] = "walk" => mru[pr[t]] \subseteq todo[t]
      /\ pc[t] = "uncharge" => mru[pr[t]] = {}
  BY <1>1 DEF Purged, Emptied, MruLabels
<1>4. AfterShake(t) /\ mru' = mru /\ mru[pr[t]] = {}
  <2>1. CASE Uncharge(t)
    BY <1>3, <2>1 DEF Uncharge, lists
  <2>2. CASE ShakeUnlock(t)
    <3>1. ~Goto(t, "release")
      BY DEF Goto, IInv, TypeOK, LocalTypeOK
    <3> QED  BY <1>3, <2>2, <3>1 DEF ShakeUnlock, lists
  <2>3. ~ShakeNode(t) /\ ~ShakeNodeBusy(t)
    BY DEF ShakeNode, ShakeNodeBusy, Skip, Goto, IInv, TypeOK, LocalTypeOK
  <2>4. Uncharge(t) \/ ShakeUnlock(t)
    BY <1>1, <2>3
       DEF Call, GetStart, Put, SetPriority, PurgeStart, CachePurgeStart, Continue, LockHash,
           PutEnlru, PutUnlock, Get, SearchHit, SearchMiss, GetReferenced, GetUnreferenced,
           GetUnlru, Charge, ChargeRefused, Alloc, AllocFailed, Insert, Expand, Shake,
           ShakeLock, ShakeHashBusy, ShakeHash, ShakeTake, Release, Purge, PurgeRefused,
           PurgeLockNode, PurgeUnlru, PurgeRelease, PurgeUncharge
  <2> QED  BY <2>1, <2>2, <2>4
<1>5. \A p \in Priorities : mru'[p] = {}
  BY <1>1, <1>3, <1>4, NextList
<1>6. Owned'
  BY OwnedKept DEF Purged
<1>7. Deserted'
  BY <1>2, <1>5 DEF Deserted
<1>8. IInv' /\ Owned' /\ CapacityExact' /\ Deserted' => Referenced'
  BY NobodyInside, PTL
<1> QED  BY <1>6, <1>7, <1>8

(* cache_purge leaves exactly the nodes somebody still references, and      *)
(* c_count counts them.                                                     *)
THEOREM PurgesAll == Spec => PurgeComplete
<1>1. Init => Purged
  BY DEF Init, Purged, Owned, Emptied, AtBase, Sweeping
<1>2. IInv /\ IInv' /\ Purged /\ [Next]_vars => Purged'
  <2>1. UNCHANGED vars /\ Purged => Purged'
    BY DEF vars, lists, nodes, locals, Purged, Owned, Cached, Transit, Emptied, AtBase
  <2> QED  BY <2>1, PurgedKept DEF Next
<1>3. Spec => []Purged
  BY <1>1, <1>2, InvAlways, PTL DEF Spec
<1>4. IInv /\ IInv' /\ Purged /\ CapacityExact' /\ [Next]_vars =>
        [\A t \in Threads : CachePurging(t) /\ pc'[t] = "idle" =>
           /\ live' = {ref'[h] : h \in Handles} \ {None}
           /\ total' = Cardinality(live')]_vars
  <2> SUFFICES ASSUME IInv, IInv', Purged, CapacityExact', NEW u \in Threads,
                      Call(u) \/ Continue(u), NEW t \in Threads, CachePurging(t),
                      pc'[t] = "idle"
               PROVE  /\ live' = {ref'[h] : h \in Handles} \ {None}
                      /\ total' = Cardinality(live')
    BY DEF Next
  <2>1. t = u
    BY Others DEF IInv, CachePurging
  <2> QED  BY <2>1, PurgeEnds DEF Referenced
<1> QED  BY <1>3, <1>4, InvAlways, AccountCorrect, PTL DEF Spec, PurgeComplete
=============================================================================
