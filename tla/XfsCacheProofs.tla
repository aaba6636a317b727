--------------------------- MODULE XfsCacheProofs ---------------------------
(* Proofs about XfsCache, for every number of threads, nodes, keys, chains *)
(* and priorities.                                                         *)
EXTENDS XfsCache, FiniteSetTheorems, TLAPS

LEMMA PriorityFacts ==
  /\ 0 \in Priorities
  /\ -1 \notin Priorities
  /\ \A p \in -1 .. MaxPriority + 1 : Clamp(p) \in Priorities
BY ConstantsAssumption DEF Priorities, Clamp

LEMMA TempCardinality ==
  ASSUME TypeOK, NEW t \in Threads
  PROVE  IsFiniteSet(temp[t]) /\ Cardinality(temp[t]) \in Nat
<1>1. temp[t] \in SUBSET Nodes
  BY DEF TypeOK, LocalTypeOK
<1> QED
  BY <1>1, ConstantsAssumption, FS_Subset, FS_CardinalityType

LEMMA GrantType ==
  ASSUME TypeOK, NEW t \in Threads, NEW n \in Nodes, Grant(t, n)
  PROVE  ref' \in [Handles -> Nodes \cup {None}] /\ LocalTypeOK'
<1> USE PriorityFacts DEF TypeOK, LocalTypeOK, Handles
<1>1. PICK s \in Slots : ref' = [ref EXCEPT ![<<t, s>>] = n]
  BY DEF Grant
<1>2. Return(t)
  BY DEF Grant
<1>3. LocalTypeOK'
  BY <1>2 DEF Return, Goto, Labels, KeyLabels, NodeLabels
<1> QED
  BY <1>1, <1>3

LEMMA AfterShakeType ==
  ASSUME TypeOK, NEW t \in Threads, AfterShake(t), pc[t] \in {"walk", "uncharge"}
  PROVE  LocalTypeOK'
<1> USE PriorityFacts DEF TypeOK, LocalTypeOK, Labels, KeyLabels, NodeLabels
<1> DEFINE next == IF Cardinality(temp[t]) = ShakeCount /\ arg[t] # None
                   THEN pr[t] ELSE pr[t] + 1
<1>1. CASE /\ next \in Priorities
           /\ pr' = [pr EXCEPT ![t] = next]
           /\ temp' = [temp EXCEPT ![t] = {}]
           /\ Goto(t, IF arg[t] = None THEN "shake" ELSE "lookup")
           /\ UNCHANGED <<arg, cur, todo>>
  BY <1>1 DEF Goto
<1>2. CASE /\ next \notin Priorities /\ arg[t] # None
           /\ temp' = [temp EXCEPT ![t] = {}]
           /\ Goto(t, "expand")
           /\ UNCHANGED <<arg, cur, pr, todo>>
  BY <1>2 DEF Goto
<1>3. CASE Return(t)
  BY <1>3 DEF Return, Goto
<1> QED
  BY <1>1, <1>2, <1>3 DEF AfterShake


LEMMA TypeKept ==
  ASSUME TypeOK, [Next]_vars
  PROVE  TypeOK'
<1> USE ConstantsAssumption, PriorityFacts DEF Handles, Labels, KeyLabels, NodeLabels
<1> USE DEF TypeOK, LocalTypeOK, Goto, Return, lists, locks, nodes, counts, locals
<1>1. ASSUME NEW t \in Threads, Call(t) PROVE TypeOK'
  <2>1. ASSUME NEW k \in Keys, GetStart(t, k) PROVE TypeOK'
    BY <2>1 DEF GetStart
  <2>2. ASSUME NEW s \in Slots, Put(t, s) PROVE TypeOK'
    <3> DEFINE n == ref[<<t, s>>]
    <3>1. n \in Nodes
      BY <2>2 DEF Put
    <3>2. count' \in [Nodes -> Nat] /\ ref' \in [Handles -> Nodes \cup {None}]
      BY <2>2, <3>1 DEF Put
    <3>3. CASE UNCHANGED <<nlock, pc, arg, cur>>
      BY <2>2, <3>2, <3>3 DEF Put
    <3>4. CASE /\ nlock' = [nlock EXCEPT ![n] = t]
               /\ pc' = [pc EXCEPT ![t] = "enlru"]
               /\ arg' = [arg EXCEPT ![t] = key[n]]
               /\ cur' = [cur EXCEPT ![t] = n]
      <4>1. nlock' \in [Nodes -> Threads \cup {None}]
        BY <3>4
      <4>2. LocalTypeOK'
        BY <2>2, <3>1, <3>4 DEF Put
      <4> QED
        BY <2>2, <3>2, <4>1, <4>2 DEF Put
    <3> QED
      BY <2>2, <3>3, <3>4 DEF Put
  <2>3. ASSUME NEW s \in Slots, NEW p \in -1 .. MaxPriority + 1, SetPriority(t, s, p)
        PROVE TypeOK'
    BY <2>3 DEF SetPriority
  <2>4. ASSUME NEW n \in Nodes, PurgeStart(t, n) PROVE TypeOK'
    <3>1. LocalTypeOK'
      BY <2>4 DEF PurgeStart
    <3> HIDE DEF LocalTypeOK
    <3> QED
      BY <2>4, <3>1 DEF PurgeStart
  <2>5. ASSUME CachePurgeStart(t) PROVE TypeOK'
    BY <2>5 DEF CachePurgeStart
  <2> QED
    BY <1>1, <2>1, <2>2, <2>3, <2>4, <2>5 DEF Call
<1>2. ASSUME NEW t \in Threads, Get(t) PROVE TypeOK'
  <2>1. ASSUME SearchHit(t) PROVE TypeOK'
    BY <2>1 DEF SearchHit, Matching, ChainOf
  <2>2. ASSUME SearchMiss(t) PROVE TypeOK'
    BY <2>2 DEF SearchMiss, UnlockHash, ChainOf
  <2>3. ASSUME GetReferenced(t) PROVE TypeOK'
    <3>1. cur[t] \in Nodes
      BY <2>3 DEF GetReferenced
    <3>2. ref' \in [Handles -> Nodes \cup {None}] /\ LocalTypeOK'
      <4> HIDE DEF LocalTypeOK, TypeOK, Return
      <4> QED
        BY <2>3, <3>1, GrantType DEF GetReferenced
    <3>3. count' \in [Nodes -> Nat]
      BY <2>3, <3>1 DEF GetReferenced, Ref
    <3>4. hlock' \in [Buckets -> Threads \cup {None}]
      BY <2>3 DEF GetReferenced, UnlockHash
    <3> HIDE DEF LocalTypeOK, Return
    <3> QED
      BY <2>3, <3>2, <3>3, <3>4 DEF GetReferenced
  <2>4. ASSUME GetUnreferenced(t) PROVE TypeOK'
    BY <2>4 DEF GetUnreferenced
  <2>5. ASSUME GetUnlru(t) PROVE TypeOK'
    <3>1. cur[t] \in Nodes
      BY <2>5 DEF GetUnlru
    <3>2. ref' \in [Handles -> Nodes \cup {None}] /\ LocalTypeOK'
      <4> HIDE DEF LocalTypeOK, TypeOK, Return
      <4> QED
        BY <2>5, <3>1, GrantType DEF GetUnlru
    <3>3. count' \in [Nodes -> Nat] /\ nlock' \in [Nodes -> Threads \cup {None}]
      BY <2>5, <3>1 DEF GetUnlru, Ref
    <3>4. hlock' \in [Buckets -> Threads \cup {None}]
      BY <2>5 DEF GetUnlru, UnlockHash
    <3>5. mru' \in [Priorities -> SUBSET Nodes]
      BY <2>5 DEF GetUnlru, Unlru
    <3> HIDE DEF LocalTypeOK, Return
    <3> QED
      BY <2>5, <3>2, <3>3, <3>4, <3>5 DEF GetUnlru
  <2>6. ASSUME Charge(t) PROVE TypeOK'
    BY <2>6 DEF Charge
  <2>7. ASSUME ChargeRefused(t) PROVE TypeOK'
    BY <2>7 DEF ChargeRefused
  <2>8. ASSUME Alloc(t) PROVE TypeOK'
    BY <2>8 DEF Alloc
  <2>9. ASSUME AllocFailed(t) PROVE TypeOK'
    BY <2>9 DEF AllocFailed
  <2>10. ASSUME Insert(t) PROVE TypeOK'
    BY <2>10, GrantType DEF Insert, UnlockHash
  <2>11. ASSUME Expand(t) PROVE TypeOK'
    BY <2>11 DEF Expand
  <2> QED
    BY <1>2, <2>1, <2>2, <2>3, <2>4, <2>5, <2>6, <2>7, <2>8, <2>9, <2>10, <2>11 DEF Get
<1>3. ASSUME NEW t \in Threads, Shake(t) PROVE TypeOK'
  <2>1. ASSUME ShakeLock(t) PROVE TypeOK'
    BY <2>1 DEF ShakeLock
  <2>2. ASSUME ShakeNodeBusy(t) PROVE TypeOK'
    BY <2>2 DEF ShakeNodeBusy, Skip
  <2>3. ASSUME ShakeNode(t) PROVE TypeOK'
    BY <2>3 DEF ShakeNode
  <2>4. ASSUME ShakeHashBusy(t) PROVE TypeOK'
    BY <2>4 DEF ShakeHashBusy, Skip
  <2>5. ASSUME ShakeHash(t) PROVE TypeOK'
    BY <2>5 DEF ShakeHash, ChainOf
  <2>6. ASSUME ShakeTake(t) PROVE TypeOK'
    <3>1. cur[t] \in Nodes /\ pc[t] = "take"
      BY <2>6 DEF ShakeTake
    <3>2. /\ chain' \in [Buckets -> SUBSET Nodes]
          /\ mru' \in [Priorities -> SUBSET Nodes]
          /\ prio' \in [Nodes -> Priorities \cup {-1}]
          /\ hlock' \in [Buckets -> Threads \cup {None}]
          /\ nlock' \in [Nodes -> Threads \cup {None}]
      BY <2>6, <3>1 DEF ShakeTake, UnlockHash, ChainOf
    <3>3. LocalTypeOK'
      BY <2>6, <3>1 DEF ShakeTake
    <3> HIDE DEF LocalTypeOK
    <3> QED
      BY <2>6, <3>2, <3>3 DEF ShakeTake
  <2>7. ASSUME ShakeUnlock(t) PROVE TypeOK'
    <3>1. mlock' \in [Priorities -> Threads \cup {None}]
      BY <2>7 DEF ShakeUnlock
    <3>2. LocalTypeOK'
      <4>1. CASE AfterShake(t)
        <5> HIDE DEF TypeOK, LocalTypeOK, Goto, Return
        <5> QED
          BY <2>7, <4>1, AfterShakeType DEF ShakeUnlock
      <4>2. CASE Goto(t, "release") /\ UNCHANGED locals
        BY <4>2
      <4> HIDE DEF TypeOK, LocalTypeOK, Goto, Return
      <4> QED
        BY <2>7, <4>1, <4>2 DEF ShakeUnlock
    <3> HIDE DEF LocalTypeOK, Goto, Return
    <3> QED
      BY <2>7, <3>1, <3>2 DEF ShakeUnlock
  <2>8. ASSUME Release(t) PROVE TypeOK'
    BY <2>8 DEF Release
  <2>9. ASSUME Uncharge(t) PROVE TypeOK'
    BY TempCardinality, AfterShakeType, <2>9 DEF Uncharge
  <2> QED
    BY <1>3, <2>1, <2>2, <2>3, <2>4, <2>5, <2>6, <2>7, <2>8, <2>9 DEF Shake
<1>4. ASSUME NEW t \in Threads, Purge(t) PROVE TypeOK'
  <2>1. ASSUME PurgeRefused(t) PROVE TypeOK'
    BY <2>1 DEF PurgeRefused, UnlockHash, ChainOf
  <2>2. ASSUME PurgeLockNode(t) PROVE TypeOK'
    BY <2>2 DEF PurgeLockNode
  <2>3. ASSUME PurgeUnlru(t) PROVE TypeOK'
    BY <2>3 DEF PurgeUnlru, Unlru
  <2>4. ASSUME PurgeRelease(t) PROVE TypeOK'
    BY <2>4 DEF PurgeRelease, UnlockHash, ChainOf
  <2>5. ASSUME PurgeUncharge(t) PROVE TypeOK'
    BY <2>5 DEF PurgeUncharge
  <2> QED
    BY <1>4, <2>1, <2>2, <2>3, <2>4, <2>5 DEF Purge
<1>5. ASSUME NEW t \in Threads, LockHash(t) \/ PutEnlru(t) \/ PutUnlock(t) PROVE TypeOK'
  <2>1. ASSUME LockHash(t) PROVE TypeOK'
    <3>1. hlock' \in [Buckets -> Threads \cup {None}]
      BY <2>1 DEF LockHash
    <3>2. CASE pc[t] = "lookup"
      BY <2>1, <3>1, <3>2 DEF LockHash, AfterHashLock
    <3>3. CASE pc[t] = "insert"
      BY <2>1, <3>1, <3>3 DEF LockHash, AfterHashLock
    <3>4. CASE pc[t] = "purge"
      BY <2>1, <3>1, <3>4 DEF LockHash, AfterHashLock
    <3> QED
      BY <2>1, <3>2, <3>3, <3>4 DEF LockHash
  <2>2. ASSUME PutEnlru(t) PROVE TypeOK'
    <3>1. cur[t] \in Nodes
      BY <2>2 DEF PutEnlru
    <3>2. mru' \in [Priorities -> SUBSET Nodes]
      BY <2>2, <3>1 DEF PutEnlru, Enlru
    <3>3. LocalTypeOK'
      BY <2>2 DEF PutEnlru
    <3> HIDE DEF LocalTypeOK
    <3> QED
      BY <2>2, <3>2, <3>3 DEF PutEnlru
  <2>3. ASSUME PutUnlock(t) PROVE TypeOK'
    BY <2>3 DEF PutUnlock
  <2> QED
    BY <1>5, <2>1, <2>2, <2>3
<1>6. CASE UNCHANGED vars
  BY <1>6 DEF vars
<1> QED
  BY <1>1, <1>2, <1>3, <1>4, <1>5, <1>6 DEF Next, Continue

(* Every variable of the cache stays in its range: cache.c as a whole.     *)
THEOREM TypeCorrect == Spec => []TypeOK
<1>1. Init => TypeOK
  BY ConstantsAssumption, PriorityFacts
     DEF Init, TypeOK, LocalTypeOK, Handles, Labels, KeyLabels, NodeLabels
<1>2. TypeOK /\ [Next]_vars => TypeOK'
  BY TypeKept
<1> QED
  BY <1>1, <1>2, PTL DEF Spec
-----------------------------------------------------------------------------
(* The inductive invariant: what every action relies on, and leaves.       *)

(* A mutex is held by t exactly while t is between the code's lock and its *)
(* unlock, and on the object t is working on.                              *)
HashLabels  == {"search", "hit", "unlru", "inserting", "take", "purging",
                "purgemru", "purged"}
OwnerLabels == {"unlru", "enlru", "putdone", "tryhash", "take", "purgemru"}
MruLabels   == {"walk", "tryhash", "take"}

LocksHeld ==
  /\ \A t \in Threads, b \in Buckets :
       hlock[b] = t <=> pc[t] \in HashLabels /\ ChainOf(t) = b
  /\ \A t \in Threads, n \in Nodes :
       nlock[n] = t <=> pc[t] \in OwnerLabels /\ cur[t] = n
  /\ \A t \in Threads, p \in Priorities :
       mlock[p] = t <=> pc[t] \in MruLabels /\ pr[t] = p

(* What the lists hold: a node on a chain is allocated and hashes to it, a *)
(* node on an MRU list is cached, unreferenced and of that priority, and   *)
(* an unreferenced cached node is on its list or about to be.              *)
ChainsOK ==
  \A b \in Buckets : \A n \in chain[b] :
    n \in live /\ key[n] \in Keys /\ Hash[key[n]] = b /\ prio[n] \in Priorities
MrusOK ==
  \A p \in Priorities : \A n \in mru[p] :
    n \in Cached /\ count[n] = 0 /\ prio[n] = p
RefsCached == \A h \in Handles : ref[h] # None => ref[h] \in Cached
Listed(n) ==
  \/ n \in mru[prio[n]]
  \/ \E t \in Threads : pc[t] \in {"enlru", "purged"} /\ cur[t] = n
ZeroListed == \A n \in Cached : count[n] = 0 => Listed(n)
ListsOK == ChainsOK /\ MrusOK /\ RefsCached /\ RefCountExact /\ ZeroListed

(* cache_purge, and the purge of a node nobody holds, have the cache to    *)
(* themselves.                                                             *)
Solo ==
  \A t, u \in Threads :
    t # u /\ pc[t] # "idle" /\ arg[t] = None => pc[u] = "idle"

(* What a thread may assume about its locals. *)
Fresh  == {"insert", "inserting"}
Taking == {"walk", "tryhash", "take", "release"}
Off(n) == \A p \in Priorities : n \notin mru[p]
LookupOK(t) ==
  /\ pc[t] \in {"hit", "unlru"} => cur[t] \in Matching(t)
  /\ pc[t] = "unlru" => count[cur[t]] = 0
FreshOK(t) ==
  pc[t] \in Fresh => /\ cur[t] \in live \ Cached /\ key[cur[t]] = arg[t]
                     /\ count[cur[t]] = 1 /\ prio[cur[t]] \in Priorities
ShakeOK(t) ==
  /\ pc[t] \in MruLabels => todo[t] \subseteq mru[pr[t]]
  /\ pc[t] \in {"tryhash", "take"} => cur[t] \in todo[t]
  /\ pc[t] \in Taking => temp[t] \subseteq live \ Cached
  /\ pc[t] \notin Taking \cup {"uncharge"} => temp[t] = {}
PutOK(t) ==
  pc[t] = "enlru" => cur[t] \in Cached /\ count[cur[t]] = 0 /\ Off(cur[t])
PurgeOK(t) ==
  /\ pc[t] \in {"purge", "purging"} =>
       /\ cur[t] \in Cached
       /\ arg[t] = None \/ \E s \in Slots : ref[<<t, s>>] = cur[t]
  /\ pc[t] \in {"purgemru", "purged"} =>
       arg[t] = None /\ cur[t] \in Cached /\ count[cur[t]] = 0
  /\ pc[t] = "purged" => Off(cur[t])
ThreadOK(t) ==
  /\ pc[t] = "idle" => arg[t] = None
  /\ LookupOK(t) /\ FreshOK(t) /\ ShakeOK(t) /\ PutOK(t) /\ PurgeOK(t)

(* Nodes in transit, allocated and not cached, belong to one thread. *)
Transit(t) == (IF pc[t] \in Fresh THEN {cur[t]} ELSE {})
              \cup (IF pc[t] \in Taking THEN temp[t] ELSE {})
TransitDisjoint ==
  \A t, u \in Threads : t # u => Transit(t) \cap Transit(u) = {}

IInv ==
  /\ TypeOK /\ LocksHeld /\ ListsOK /\ Solo
  /\ \A t \in Threads : ThreadOK(t)
  /\ TransitDisjoint

-----------------------------------------------------------------------------
(* What the invariant says about nodes and locals.                         *)

LEMMA HandlesFinite == IsFiniteSet(Handles)
BY ConstantsAssumption, FS_Product DEF Handles

LEMMA CountZero ==
  ASSUME IInv
  PROVE  \A n \in Cached : count[n] = 0 <=> \A h \in Handles : ref[h] # n
<1> SUFFICES ASSUME NEW n \in Cached
             PROVE  count[n] = 0 <=> \A h \in Handles : ref[h] # n
  OBVIOUS
<1>1. IsFiniteSet(Referencing(n))
  BY HandlesFinite, FS_Subset DEF Referencing
<1>2. count[n] = Cardinality(Referencing(n))
  BY DEF IInv, ListsOK, RefCountExact
<1> QED
  BY <1>1, <1>2, FS_EmptySet DEF Referencing

LEMMA CachedNodes == TypeOK => Cached \subseteq Nodes
BY DEF TypeOK, Cached

LEMMA Others ==
  ASSUME TypeOK, NEW t \in Threads, Call(t) \/ Continue(t)
  PROVE  \A u \in Threads \ {t} :
           /\ pc'[u] = pc[u] /\ arg'[u] = arg[u] /\ cur'[u] = cur[u]
           /\ pr'[u] = pr[u] /\ todo'[u] = todo[u] /\ temp'[u] = temp[u]
<1> USE DEF TypeOK, LocalTypeOK, Goto, Return, Grant, Skip, AfterShake, locals
<1>1. CASE Call(t)
  <2>1. CASE \E k \in Keys : GetStart(t, k)
    BY <2>1 DEF GetStart
  <2>2. CASE \E s \in Slots : Put(t, s)
    BY <2>2 DEF Put
  <2>3. CASE \E s \in Slots, p \in -1 .. MaxPriority + 1 : SetPriority(t, s, p)
    BY <2>3 DEF SetPriority
  <2>4. CASE \E n \in Nodes : PurgeStart(t, n)
    BY <2>4 DEF PurgeStart
  <2>5. CASE CachePurgeStart(t)
    BY <2>5 DEF CachePurgeStart
  <2> HIDE DEF TypeOK, LocalTypeOK, Goto, Return, Grant, Skip, AfterShake, locals
  <2> QED
    BY <1>1, <2>1, <2>2, <2>3, <2>4, <2>5, Zenon DEF Call
<1>2. CASE Get(t)
  BY <1>2 DEF Get, SearchHit, SearchMiss, GetReferenced, GetUnreferenced, GetUnlru,
     Charge,
              ChargeRefused, Alloc, AllocFailed, Insert, Expand
<1>3. CASE Shake(t)
  BY <1>3 DEF Shake, ShakeLock, ShakeNodeBusy, ShakeNode, ShakeHashBusy, ShakeHash,
              ShakeTake, ShakeUnlock, Release, Uncharge
<1>4. CASE Purge(t)
  BY <1>4 DEF Purge, PurgeRefused, PurgeLockNode, PurgeUnlru, PurgeRelease,
     PurgeUncharge
<1> QED
  BY <1>1, <1>2, <1>3, <1>4 DEF Continue, LockHash, PutEnlru, PutUnlock

LEMMA CachedAfter ==
  ASSUME IInv, NEW t \in Threads
  PROVE  /\ chain' = chain => Cached' = Cached
         /\ Insert(t) => Cached' = Cached \cup {cur[t]}
         /\ ShakeTake(t) \/ PurgeRelease(t) => Cached' = Cached \ {cur[t]}
<1> USE ConstantsAssumption DEF IInv, TypeOK, LocalTypeOK, Cached, KeyLabels,
        NodeLabels, ChainOf
<1>1. chain' = chain => Cached' = Cached
  OBVIOUS
<1>2. ASSUME Insert(t) PROVE Cached' = Cached \cup {cur[t]}
  <2>1. ChainOf(t) \in Buckets
    BY <1>2 DEF Insert, ThreadOK, LookupOK, FreshOK, ShakeOK, PutOK, PurgeOK, Fresh
  <2>2. chain' = [chain EXCEPT ![ChainOf(t)] = @ \cup {cur[t]}]
    BY <1>2 DEF Insert
  <2> HIDE DEF ChainOf
  <2> QED
    BY <2>1, <2>2
<1>3. ASSUME ShakeTake(t) \/ PurgeRelease(t) PROVE Cached' = Cached \ {cur[t]}
  <2>1. chain' = [chain EXCEPT ![ChainOf(t)] = @ \ {cur[t]}]
    BY <1>3 DEF ShakeTake, PurgeRelease
  <2>2. ChainOf(t) = Hash[key[cur[t]]]
    BY <1>3 DEF ShakeTake, PurgeRelease
  <2>3. \A b \in Buckets : cur[t] \in chain[b] => b = ChainOf(t)
    BY <2>2 DEF ListsOK, ChainsOK
  <2> HIDE DEF ChainOf
  <2> QED
    BY <2>1, <2>3
<1> QED
  BY <1>1, <1>2, <1>3

LEMMA CachedFacts ==
  ASSUME IInv
  PROVE  \A n \in Cached : n \in live /\ key[n] \in Keys /\ prio[n] \in Priorities
BY DEF IInv, ListsOK, ChainsOK, Cached

LEMMA CurFacts ==
  ASSUME IInv, NEW t \in Threads
  PROVE  /\ pc[t] \in {"hit", "unlru"} => cur[t] \in Cached /\ key[cur[t]] = arg[t]
         /\ pc[t] \in {"tryhash", "take"} =>
              cur[t] \in Cached /\ count[cur[t]] = 0 /\ prio[cur[t]] = pr[t]
         /\ pc[t] \in Fresh => \A h \in Handles : ref[h] # cur[t]
<1> USE DEF IInv, TypeOK, LocalTypeOK
<1>1. ASSUME pc[t] \in {"hit", "unlru"} PROVE cur[t] \in Cached /\ key[cur[t]] = arg[t]
  BY <1>1, ConstantsAssumption
     DEF ThreadOK, LookupOK, FreshOK, ShakeOK, PutOK, PurgeOK, Matching, Cached,
         ChainOf, KeyLabels
<1>2. ASSUME pc[t] \in {"tryhash", "take"}
      PROVE  cur[t] \in Cached /\ count[cur[t]] = 0 /\ prio[cur[t]] = pr[t]
  BY <1>2 DEF ThreadOK, LookupOK, FreshOK, ShakeOK, PutOK, PurgeOK, ListsOK, MrusOK,
     MruLabels
<1>3. ASSUME pc[t] \in Fresh PROVE \A h \in Handles : ref[h] # cur[t]
  BY <1>3, ConstantsAssumption
     DEF ThreadOK, LookupOK, FreshOK, ShakeOK, PutOK, PurgeOK, ListsOK, RefsCached,
         Fresh, NodeLabels
<1> QED
  BY <1>1, <1>2, <1>3

LEMMA Granted ==
  ASSUME TypeOK, NEW t \in Threads, NEW n \in Nodes, Grant(t, n)
  PROVE  \E g \in Handles : ref[g] = None /\ ref' = [ref EXCEPT ![g] = n]
BY DEF Grant, Handles

LEMMA Disturbing ==
  ASSUME NEW t \in Threads, Call(t) \/ Continue(t)
  PROVE  \/ UNCHANGED <<lists, nodes, ref>> /\ pc[t] \notin {"enlru", "purged"}
         \/ GetReferenced(t) \/ GetUnlru(t) \/ Alloc(t) \/ Insert(t)
         \/ ShakeTake(t) \/ Release(t) \/ PutEnlru(t)
         \/ PurgeUnlru(t) \/ PurgeRelease(t)
         \/ \E s \in Slots : Put(t, s)
         \/ \E s \in Slots, p \in -1 .. MaxPriority + 1 : SetPriority(t, s, p)
<1> USE DEF lists, nodes
<1>1. ASSUME Call(t) PROVE \/ UNCHANGED <<lists, nodes, ref>> /\ pc[t] \notin {"enlru", "purged"}
                           \/ \E s \in Slots : Put(t, s)
                           \/ \E s \in Slots, p \in -1 .. MaxPriority + 1 : SetPriority(t, s, p)
  BY <1>1 DEF Call, GetStart, PurgeStart, CachePurgeStart
<1>2. ASSUME Get(t) PROVE \/ UNCHANGED <<lists, nodes, ref>> /\ pc[t] \notin {"enlru", "purged"}
                          \/ GetReferenced(t) \/ GetUnlru(t) \/ Alloc(t) \/ Insert(t)
  BY <1>2 DEF Get, SearchHit, SearchMiss, GetUnreferenced, Charge, ChargeRefused,
     AllocFailed, Expand
<1>3. ASSUME Shake(t) PROVE \/ UNCHANGED <<lists, nodes, ref>> /\ pc[t] \notin {"enlru", "purged"}
     \/ ShakeTake(t) \/ Release(t)
  BY <1>3 DEF Shake, ShakeLock, ShakeNodeBusy, ShakeNode, ShakeHashBusy, ShakeHash,
     ShakeUnlock, Uncharge
<1>4. ASSUME Purge(t) PROVE \/ UNCHANGED <<lists, nodes, ref>> /\ pc[t] \notin {"enlru", "purged"}
     \/ PurgeUnlru(t) \/ PurgeRelease(t)
  BY <1>4 DEF Purge, PurgeRefused, PurgeLockNode, PurgeUncharge
<1> QED
  BY <1>1, <1>2, <1>3, <1>4 DEF Continue, LockHash, PutUnlock

(* What a step of t never does to the other threads.  A list changes only  *)
(* under its mutex, a count under the node's mutex, and what is not cached *)
(* changes only for the thread that has it in transit.                     *)
LEMMA ChainGuarantee ==
  ASSUME IInv, NEW t \in Threads, Call(t) \/ Continue(t)
  PROVE  \A b \in Buckets : hlock[b] # t => chain'[b] = chain[b]
<1>1. LocksHeld /\ TypeOK
  BY DEF IInv
<1>2. \/ chain' = chain
      \/ Insert(t) \/ ShakeTake(t) \/ PurgeRelease(t)
  BY Disturbing
     DEF lists, GetReferenced, GetUnlru, Alloc, Release, PutEnlru, PurgeUnlru, Put,
         SetPriority
<1>3. ASSUME Insert(t) \/ ShakeTake(t) \/ PurgeRelease(t)
      PROVE  /\ pc[t] \in HashLabels
             /\ \A b \in Buckets : b # ChainOf(t) => chain'[b] = chain[b]
  <2> HIDE DEF ChainOf
  <2> QED
    BY <1>1, <1>3 DEF Insert, ShakeTake, PurgeRelease, HashLabels, TypeOK
<1> QED
  BY <1>1, <1>2, <1>3 DEF LocksHeld

LEMMA MruGuarantee ==
  ASSUME IInv, NEW t \in Threads, Call(t) \/ Continue(t), NEW p \in Priorities
  PROVE  /\ mlock[p] \notin {None, t} => mru'[p] = mru[p]
         /\ \A n \in mru'[p] \ mru[p] : nlock[n] = t
<1>1. TypeOK /\ LocksHeld
  BY DEF IInv
<1> USE <1>1 DEF TypeOK, LocalTypeOK, LocksHeld, NodeLabels
<1>2. \/ mru' = mru
      \/ GetUnlru(t) \/ PurgeUnlru(t) \/ ShakeTake(t) \/ PutEnlru(t)
  BY Disturbing
     DEF lists, GetReferenced, Alloc, Insert, Release, PurgeRelease, Put, SetPriority
<1>3. CASE GetUnlru(t) \/ PurgeUnlru(t)
  BY <1>3 DEF GetUnlru, PurgeUnlru, Unlru
<1>4. CASE ShakeTake(t)
  BY <1>4 DEF ShakeTake, MruLabels
<1>5. CASE PutEnlru(t)
  BY <1>5 DEF PutEnlru, Enlru, OwnerLabels
<1> QED
  BY <1>2, <1>3, <1>4, <1>5

LEMMA NodeGuarantee ==
  ASSUME IInv, NEW t \in Threads, Call(t) \/ Continue(t), NEW n \in live
  PROVE  /\ key'[n] = key[n]
         /\ \/ count'[n] = count[n]
            \/ nlock[n] = t /\ n \in Cached
            \/ nlock[n] = None /\ \E h \in Handles : ref[h] = n
         /\ prio'[n] = prio[n] \/ n \in Cached
<1>1. TypeOK /\ LocksHeld /\ RefsCached
  BY DEF IInv, ListsOK
<1> USE <1>1 DEF TypeOK, LocalTypeOK, NodeLabels
<1>2. \/ UNCHANGED <<key, count, prio>>
      \/ GetReferenced(t) \/ GetUnlru(t) \/ Alloc(t) \/ ShakeTake(t)
      \/ \E s \in Slots : Put(t, s)
      \/ \E s \in Slots, p \in -1 .. MaxPriority + 1 : SetPriority(t, s, p)
  BY Disturbing DEF nodes, Insert, Release, PutEnlru, PurgeUnlru, PurgeRelease
<1>3. CASE GetReferenced(t)
  <2>1. nlock[cur[t]] = None /\ count[cur[t]] # 0 /\ cur[t] \in Cached
    BY <1>3, CurFacts DEF GetReferenced
  <2>2. \E h \in Handles : ref[h] = cur[t]
    BY <2>1, CountZero
  <2> QED
    BY <1>3, <2>1, <2>2 DEF GetReferenced, Ref
<1>4. CASE GetUnlru(t)
  BY <1>4, CurFacts DEF GetUnlru, Ref, LocksHeld, OwnerLabels
<1>5. CASE Alloc(t)
  BY <1>5 DEF Alloc
<1>6. CASE ShakeTake(t)
  BY <1>6, CurFacts DEF ShakeTake
<1>7. CASE \E s \in Slots : Put(t, s)
  BY <1>7 DEF Put, Handles
<1>8. CASE \E s \in Slots, p \in -1 .. MaxPriority + 1 : SetPriority(t, s, p)
  BY <1>8 DEF SetPriority, Handles, RefsCached
<1> QED
  BY <1>2, <1>3, <1>4, <1>5, <1>6, <1>7, <1>8

LEMMA LifeGuarantee ==
  ASSUME IInv, NEW t \in Threads, Call(t) \/ Continue(t)
  PROVE  /\ \A n \in live \ live' : n \in Transit(t) \/ (n \in Cached /\ pc[t] # "idle" /\ arg[t] = None)
         /\ \A n \in Cached' \ Cached : n \in Transit(t)
         /\ \A n \in Cached \ Cached' : nlock[n] = t \/ (pc[t] # "idle" /\ arg[t] = None)
<1>1. TypeOK /\ LocksHeld /\ ThreadOK(t)
  BY DEF IInv
<1>2. \/ UNCHANGED <<live, chain>>
      \/ Alloc(t) \/ Insert(t) \/ ShakeTake(t) \/ Release(t) \/ PurgeRelease(t)
  BY Disturbing
     DEF lists, nodes, GetReferenced, GetUnlru, PutEnlru, PurgeUnlru, Put, SetPriority
<1>3. CASE UNCHANGED <<live, chain>>
  BY <1>3, CachedAfter
<1>4. CASE Alloc(t)
  BY <1>4, CachedAfter DEF Alloc, lists
<1>5. CASE Insert(t)
  BY <1>5, CachedAfter DEF Insert, nodes, Transit, Fresh
<1>6. CASE ShakeTake(t)
  <2>1. nlock[cur[t]] = t /\ live' = live
    BY <1>1, <1>6 DEF ShakeTake, LocksHeld, OwnerLabels, TypeOK, LocalTypeOK, NodeLabels
  <2>2. Cached' = Cached \ {cur[t]}
    BY <1>6, CachedAfter
  <2> QED
    BY <2>1, <2>2
<1>7. CASE Release(t)
  <2>1. live' = live \ temp[t] /\ chain' = chain /\ temp[t] \subseteq Transit(t)
    BY <1>7 DEF Release, lists, Transit, Taking
  <2>2. Cached' = Cached
    BY <2>1, CachedAfter
  <2> QED
    BY <2>1, <2>2
<1>8. CASE PurgeRelease(t)
  <2>1. cur[t] \in Cached /\ pc[t] # "idle" /\ arg[t] = None /\ live' = live \ {cur[t]}
    BY <1>1, <1>8 DEF PurgeRelease, ThreadOK, PurgeOK
  <2> QED
    BY <1>8, <2>1, CachedAfter
<1> QED
  BY <1>2, <1>3, <1>4, <1>5, <1>6, <1>7, <1>8

-----------------------------------------------------------------------------
(* Every part of the invariant is kept.                                    *)

LEMMA RefsKept ==
  ASSUME IInv, NEW t \in Threads, Call(t) \/ Continue(t)
  PROVE  RefsCached'
<1>a. TypeOK /\ RefsCached
  BY DEF IInv, ListsOK
<1>b. ThreadOK(t)
  BY DEF IInv
<1> USE <1>a, CachedAfter DEF TypeOK, LocalTypeOK, lists, nodes, RefsCached
<1>1. CASE UNCHANGED <<chain, ref>>
  BY <1>1
<1>2. CASE GetReferenced(t) \/ GetUnlru(t)
  <2>1. cur[t] \in Cached /\ cur[t] \in Nodes /\ chain' = chain /\ Grant(t, cur[t])
    BY <1>2, CurFacts, CachedNodes DEF GetReferenced, GetUnlru
  <2>2. PICK g \in Handles : ref' = [ref EXCEPT ![g] = cur[t]]
    BY <2>1, Granted
  <2> QED
    BY <2>1, <2>2
<1>3. CASE Insert(t)
  <2>1. cur[t] \in Nodes /\ Grant(t, cur[t])
    BY <1>3 DEF Insert, NodeLabels
  <2>2. PICK g \in Handles : ref' = [ref EXCEPT ![g] = cur[t]]
    BY <2>1, Granted
  <2> QED
    BY <1>3, <2>1, <2>2
<1>4. CASE ShakeTake(t) \/ PurgeRelease(t)
  <2>1. cur[t] \in Cached /\ count[cur[t]] = 0
    BY <1>4, <1>b, CurFacts DEF ShakeTake, PurgeRelease, ThreadOK, LookupOK, FreshOK,
       ShakeOK, PutOK, PurgeOK
  <2>2. \A h \in Handles : ref[h] # cur[t]
    BY <2>1, CountZero
  <2>3. ref' = ref
    BY <1>4 DEF ShakeTake, PurgeRelease
  <2> QED
    BY <1>4, <2>2, <2>3
<1>5. ASSUME NEW s \in Slots, Put(t, s) PROVE RefsCached'
  BY <1>5 DEF Put
<1> HIDE DEF RefsCached
<1> QED
  BY Disturbing, <1>1, <1>2, <1>3, <1>4, <1>5
     DEF Alloc, Release, PutEnlru, PurgeUnlru, SetPriority

LEMMA MrusKept ==
  ASSUME IInv, NEW t \in Threads, Call(t) \/ Continue(t)
  PROVE  MrusOK'
<1>a. TypeOK /\ MrusOK
  BY DEF IInv, ListsOK
<1>b. ThreadOK(t)
  BY DEF IInv
<1> USE PriorityFacts, <1>a, CachedAfter DEF TypeOK, LocalTypeOK, lists, nodes, MrusOK
<1>1. CASE UNCHANGED <<lists, nodes, ref>>
  BY <1>1
<1>2. CASE GetReferenced(t)
  BY <1>2 DEF GetReferenced, Ref
<1>3. CASE GetUnlru(t)
  BY <1>3 DEF GetUnlru, Ref, Unlru
<1>4. CASE Alloc(t)
  <2>1. PICK m \in Nodes \ live : /\ count' = [count EXCEPT ![m] = 1]
                                  /\ prio' = [prio EXCEPT ![m] = 0]
    BY <1>4 DEF Alloc
  <2>2. m \notin Cached
    BY CachedFacts
  <2> QED
    BY <1>4, <2>1, <2>2 DEF Alloc
<1>5. CASE Insert(t)
  BY <1>5 DEF Insert
<1>6. CASE ShakeTake(t)
  <2>1. cur[t] \in Nodes /\ prio[cur[t]] = pr[t] /\ pr[t] \in Priorities
    BY <1>6, CurFacts, CachedNodes DEF ShakeTake
  <2>2. Cached' = Cached \ {cur[t]} /\ count' = count
    BY <1>6 DEF ShakeTake
  <2>3. /\ prio' = [prio EXCEPT ![cur[t]] = -1]
        /\ mru' = [mru EXCEPT ![pr[t]] = @ \ {cur[t]}]
    BY <1>6 DEF ShakeTake
  <2> QED
    BY <2>1, <2>2, <2>3
<1>7. CASE Release(t)
  BY <1>7 DEF Release
<1>8. CASE PutEnlru(t)
  <2>1. cur[t] \in Cached /\ count[cur[t]] = 0
    BY <1>8, <1>b DEF PutEnlru, ThreadOK, LookupOK, FreshOK, ShakeOK, PutOK, PurgeOK
  <2>2. prio[cur[t]] \in Priorities
    BY <2>1, CachedFacts
  <2> QED
    BY <1>8, <2>1, <2>2 DEF PutEnlru, Enlru
<1>9. CASE PurgeUnlru(t)
  BY <1>9 DEF PurgeUnlru, Unlru
<1>10. CASE PurgeRelease(t)
  <2>1. Off(cur[t])
    BY <1>10, <1>b DEF PurgeRelease, ThreadOK, LookupOK, FreshOK, ShakeOK, PutOK,
       PurgeOK
  <2>2. Cached' = Cached \ {cur[t]} /\ UNCHANGED <<mru, count, prio>>
    BY <1>10 DEF PurgeRelease
  <2> QED
    BY <2>1, <2>2 DEF Off
<1>11. ASSUME NEW s \in Slots, Put(t, s) PROVE MrusOK'
  <2>1. ref[<<t, s>>] \in Cached /\ count[ref[<<t, s>>]] # 0
    BY <1>11, CountZero DEF Put, Handles, IInv, ListsOK, RefsCached
  <2> QED
    BY <1>11, <2>1 DEF Put
<1>12. ASSUME NEW s \in Slots, NEW p \in -1 .. MaxPriority + 1, SetPriority(t, s, p)
       PROVE  MrusOK'
  <2>1. ref[<<t, s>>] \in Cached /\ count[ref[<<t, s>>]] # 0
    BY <1>12, CountZero DEF SetPriority, Handles, IInv, ListsOK, RefsCached
  <2> QED
    BY <1>12, <2>1 DEF SetPriority
<1> HIDE DEF MrusOK
<1> QED
  BY Disturbing, <1>1, <1>2, <1>3, <1>4, <1>5, <1>6, <1>7, <1>8, <1>9, <1>10, <1>11,
     <1>12

LEMMA ChainsKept ==
  ASSUME IInv, NEW t \in Threads, Call(t) \/ Continue(t)
  PROVE  ChainsOK'
<1>a. TypeOK /\ ChainsOK
  BY DEF IInv, ListsOK
<1>b. ThreadOK(t)
  BY DEF IInv
<1> USE ConstantsAssumption, PriorityFacts, <1>a DEF TypeOK, LocalTypeOK, lists,
        nodes, ChainsOK
<1>1. CASE UNCHANGED <<chain, live, key, prio>>
  BY <1>1
<1>2. CASE Alloc(t)
  BY <1>2 DEF Alloc, KeyLabels
<1>3. CASE Insert(t)
  BY <1>3, <1>b DEF Insert, ChainOf, ThreadOK, LookupOK, FreshOK, ShakeOK, PutOK,
     PurgeOK, Fresh, KeyLabels
<1>4. CASE ShakeTake(t)
  <2>1. cur[t] \in Cached
    BY <1>4, CurFacts DEF ShakeTake
  <2>2. \A b \in Buckets : cur[t] \notin chain'[b]
    BY <1>4, <2>1 DEF ShakeTake, ChainOf
  <2> QED
    BY <1>4, <2>2 DEF ShakeTake
<1>5. CASE Release(t)
  <2>1. temp[t] \cap Cached = {}
    BY <1>5, <1>b DEF Release, ThreadOK, LookupOK, FreshOK, ShakeOK, PutOK, PurgeOK,
       Taking
  <2> QED
    BY <1>5, <2>1 DEF Release, Cached
<1>6. CASE PurgeRelease(t)
  <2>1. \A b \in Buckets : cur[t] \notin chain'[b]
    BY <1>6 DEF PurgeRelease, ChainOf
  <2> QED
    BY <1>6, <2>1 DEF PurgeRelease
<1>7. ASSUME NEW s \in Slots, Put(t, s) PROVE ChainsOK'
  BY <1>7 DEF Put
<1>8. ASSUME NEW s \in Slots, NEW p \in -1 .. MaxPriority + 1, SetPriority(t, s, p)
      PROVE  ChainsOK'
  BY <1>8 DEF SetPriority
<1> HIDE DEF ChainsOK
<1> QED
  BY Disturbing, <1>1, <1>2, <1>3, <1>4, <1>5, <1>6, <1>7, <1>8
     DEF GetReferenced, GetUnlru, PutEnlru, PurgeUnlru

LEMMA CountKept ==
  ASSUME IInv, NEW t \in Threads, Call(t) \/ Continue(t)
  PROVE  RefCountExact'
<1>a. TypeOK /\ RefCountExact /\ Cached \subseteq Nodes
  BY CachedNodes DEF IInv, ListsOK
<1>b. ThreadOK(t)
  BY DEF IInv
<1>c. \A n \in Nodes : IsFiniteSet(Referencing(n)) /\ Cardinality(Referencing(n)) \in Nat
  BY HandlesFinite, FS_Subset, FS_CardinalityType DEF Referencing
<1>d. ASSUME NEW n \in Nodes, Grant(t, n), Referencing(n) = {} \/ n \in Cached
      PROVE  /\ Cardinality(Referencing(n)') = Cardinality(Referencing(n)) + 1
             /\ \A m \in Nodes \ {n} : Referencing(m)' = Referencing(m)
  <2>1. PICK g \in Handles : ref[g] = None /\ ref' = [ref EXCEPT ![g] = n]
    BY <1>a, <1>d, Granted
  <2>2. Referencing(n)' = Referencing(n) \cup {g} /\ g \notin Referencing(n)
    BY <1>a, <2>1, ConstantsAssumption DEF Referencing, TypeOK
  <2>3. \A m \in Nodes \ {n} : Referencing(m)' = Referencing(m)
    BY <1>a, <2>1, ConstantsAssumption DEF Referencing, TypeOK
  <2> QED
    BY <2>2, <2>3, <1>c, FS_AddElement
<1> USE <1>a, CachedAfter DEF TypeOK, LocalTypeOK, lists, nodes, RefCountExact
<1>1. CASE UNCHANGED <<chain, count, ref>>
  BY <1>1 DEF Referencing
<1>2. CASE GetReferenced(t) \/ GetUnlru(t)
  <2>1. cur[t] \in Cached /\ chain' = chain /\ Grant(t, cur[t]) /\ Ref(cur[t])
    BY <1>2, CurFacts DEF GetReferenced, GetUnlru
  <2> QED
    BY <1>d, <2>1 DEF Ref
<1>3. CASE Alloc(t)
  <2>1. PICK m \in Nodes \ live : count' = [count EXCEPT ![m] = 1]
    BY <1>3 DEF Alloc
  <2>2. m \notin Cached
    BY CachedFacts
  <2> QED
    BY <1>3, <2>1, <2>2 DEF Alloc, Referencing
<1>4. CASE Insert(t)
  <2>1. PICK n \in Nodes : n = cur[t]
    BY <1>4 DEF Insert, NodeLabels
  <2>2. Grant(t, n) /\ count' = count
    BY <1>4, <2>1 DEF Insert
  <2>3. count[n] = 1 /\ n \notin Cached
    BY <1>4, <1>b, <2>1 DEF Insert, ThreadOK, LookupOK, FreshOK, ShakeOK, PutOK,
       PurgeOK, Fresh
  <2>4. Referencing(n) = {}
    BY <1>4, <2>1, CurFacts DEF Insert, Fresh, Referencing
  <2>5. Cardinality(Referencing(n)') = 1
    <3>1. Cardinality(Referencing(n)) = 0
      BY <1>c, <2>4, FS_EmptySet
    <3>2. Cardinality(Referencing(n)') = Cardinality(Referencing(n)) + 1
      BY <1>d, <2>2, <2>4
    <3> QED
      BY <3>1, <3>2
  <2>6. \A m \in Nodes \ {n} : Referencing(m)' = Referencing(m)
    BY <1>d, <2>2, <2>4
  <2>7. Cached' = Cached \cup {n}
    BY <1>4, <2>1
  <2> QED
    BY <2>2, <2>3, <2>5, <2>6, <2>7
<1>5. CASE ShakeTake(t) \/ PurgeRelease(t)
  <2>1. Cached' \subseteq Cached
    BY <1>5
  <2>2. ref' = ref /\ count' = count
    <3> HIDE DEF TypeOK, LocalTypeOK, RefCountExact
    <3> QED
      BY <1>5 DEF ShakeTake, PurgeRelease
  <2> HIDE DEF TypeOK, LocalTypeOK
  <2> QED
    BY <2>1, <2>2 DEF Referencing
<1>6. ASSUME NEW s \in Slots, Put(t, s) PROVE RefCountExact'
  <2>1. PICK n \in Cached, h \in Handles : h = <<t, s>> /\ ref[h] = n
    BY <1>6 DEF Put, Handles, IInv, ListsOK, RefsCached
  <2>2. /\ ref' = [ref EXCEPT ![h] = None]
        /\ count' = [count EXCEPT ![n] = @ - 1] /\ chain' = chain
    BY <1>6, <2>1 DEF Put
  <2>a. n \in Nodes /\ None \notin Nodes /\ ref \in [Handles -> Nodes \cup {None}]
    BY <2>1, CachedNodes, ConstantsAssumption
  <2>3. Referencing(n)' = Referencing(n) \ {h} /\ h \in Referencing(n)
    <3> HIDE DEF TypeOK, LocalTypeOK, RefCountExact
    <3> QED
      BY <2>1, <2>2, <2>a DEF Referencing
  <2>4. \A m \in Nodes \ {n} : Referencing(m)' = Referencing(m)
    <3> HIDE DEF TypeOK, LocalTypeOK, RefCountExact
    <3> QED
      BY <2>1, <2>2, <2>a DEF Referencing
  <2>5. Cardinality(Referencing(n)') = Cardinality(Referencing(n)) - 1
    <3> HIDE DEF TypeOK, LocalTypeOK, RefCountExact
    <3>1. Cardinality(Referencing(n) \ {h}) = Cardinality(Referencing(n)) - 1
      BY <1>c, <2>a, <2>3, FS_RemoveElement
    <3> QED
      BY <2>3, <3>1
  <2> QED
    BY <2>1, <2>2, <2>4, <2>5
<1> HIDE DEF RefCountExact
<1> QED
  BY Disturbing, <1>1, <1>2, <1>3, <1>4, <1>5, <1>6
     DEF Release, PutEnlru, PurgeUnlru, SetPriority

LEMMA StillListed ==
  ASSUME IInv, NEW t \in Threads, Call(t) \/ Continue(t),
         NEW n \in Cached, count[n] = 0,
         pc[t] \in {"enlru", "purged"} => cur[t] # n,
         n \in mru[prio[n]] => n \in mru'[prio'[n]]
  PROVE  Listed(n)'
<1>1. Listed(n)
  BY DEF IInv, ListsOK, ZeroListed
<1>2. \A u \in Threads \ {t} : pc'[u] = pc[u] /\ cur'[u] = cur[u]
  BY Others DEF IInv
<1> QED
  BY <1>1, <1>2 DEF Listed

LEMMA ZeroKept ==
  ASSUME IInv, NEW t \in Threads, Call(t) \/ Continue(t)
  PROVE  ZeroListed'
<1> SUFFICES ASSUME NEW n \in Cached', count'[n] = 0 PROVE Listed(n)'
  BY DEF ZeroListed
<1>a. TypeOK /\ Cached \subseteq Nodes
  BY CachedNodes DEF IInv
<1>b. ThreadOK(t)
  BY DEF IInv
<1> USE ConstantsAssumption, PriorityFacts, <1>a, CachedAfter
    DEF TypeOK, LocalTypeOK, lists, nodes
<1>1. CASE UNCHANGED <<lists, nodes, ref>> /\ pc[t] \notin {"enlru", "purged"}
  BY <1>1, StillListed
<1>2. CASE GetReferenced(t)
  <2>1. n \in Cached /\ n # cur[t] /\ count[n] = 0
    BY <1>2 DEF GetReferenced, Ref
  <2> QED
    BY <1>2, <2>1, StillListed DEF GetReferenced
<1>3. CASE GetUnlru(t)
  <2>1. n \in Cached /\ n # cur[t] /\ count[n] = 0
    BY <1>3 DEF GetUnlru, Ref
  <2> QED
    BY <1>3, <2>1, StillListed DEF GetUnlru, Unlru
<1>4. CASE Alloc(t)
  <2>1. PICK m \in Nodes \ live : /\ count' = [count EXCEPT ![m] = 1]
                                  /\ prio' = [prio EXCEPT ![m] = 0]
    BY <1>4 DEF Alloc
  <2>2. n \in Cached /\ n # m /\ count[n] = 0
    BY <1>4, <2>1 DEF Alloc
  <2> QED
    BY <1>4, <2>1, <2>2, StillListed DEF Alloc
<1>5. CASE Insert(t)
  <2>1. n \in Cached /\ count[n] = 0
    <3>1. count[cur[t]] = 1
      BY <1>5, <1>b DEF Insert, ThreadOK, LookupOK, FreshOK, ShakeOK, PutOK, PurgeOK,
         Fresh
    <3>2. Cached' = Cached \cup {cur[t]} /\ count' = count
      BY <1>5 DEF Insert
    <3> QED
      BY <3>1, <3>2
  <2> QED
    BY <1>5, <2>1, StillListed DEF Insert
<1>6. CASE ShakeTake(t)
  <2>1. n \in Cached /\ n # cur[t] /\ count[n] = 0
    <3> HIDE DEF TypeOK, LocalTypeOK
    <3>1. Cached' = Cached \ {cur[t]}
      BY <1>6
    <3>2. count' = count
      BY <1>6 DEF ShakeTake
    <3> QED
      BY <3>1, <3>2
  <2> QED
    BY <1>6, <2>1, StillListed DEF ShakeTake
<1>7. CASE Release(t)
  BY <1>7, StillListed DEF Release
<1>8. CASE PutEnlru(t)
  <2>1. CASE n = cur[t]
    <3>1. prio[n] \in Priorities
      BY <1>8, <2>1, CachedFacts DEF PutEnlru
    <3> QED
      BY <1>8, <2>1, <3>1 DEF PutEnlru, Enlru, Listed
  <2>2. CASE n # cur[t]
    BY <1>8, <2>2, StillListed DEF PutEnlru, Enlru
  <2> QED
    BY <2>1, <2>2
<1>9. CASE PurgeUnlru(t)
  <2>1. CASE n = cur[t]
    <3>1. cur' = cur /\ pc'[t] = "purged"
      BY <1>9 DEF PurgeUnlru, Goto, locals
    <3> QED
      BY <2>1, <3>1 DEF Listed
  <2>2. CASE n # cur[t]
    BY <1>9, <2>2, StillListed DEF PurgeUnlru, Unlru
  <2> QED
    BY <2>1, <2>2
<1>10. CASE PurgeRelease(t)
  <2>1. n \in Cached /\ n # cur[t] /\ count[n] = 0
    <3> HIDE DEF TypeOK, LocalTypeOK
    <3>1. Cached' = Cached \ {cur[t]}
      BY <1>10
    <3>2. count' = count
      BY <1>10 DEF PurgeRelease
    <3> QED
      BY <3>1, <3>2
  <2> QED
    BY <1>10, <2>1, StillListed DEF PurgeRelease
<1>11. ASSUME NEW s \in Slots, Put(t, s) PROVE Listed(n)'
  <2> DEFINE m == ref[<<t, s>>]
  <2>1. CASE n = m
    <3>1. n \in Nodes /\ count[n] = 1
      BY <1>11, <2>1 DEF Put, Handles
    <3> QED
      <4>1. pc'[t] = "enlru" /\ cur'[t] = n
        BY <1>11, <2>1, <3>1 DEF Put, Goto
      <4> QED
        BY <4>1 DEF Listed
  <2>2. CASE n # m
    <3>1. n \in Cached /\ count[n] = 0
      BY <1>11, <2>2 DEF Put, Handles
    <3> QED
      BY <1>11, <2>2, <3>1, StillListed DEF Put
  <2> QED
    BY <2>1, <2>2
<1>12. ASSUME NEW s \in Slots, NEW p \in -1 .. MaxPriority + 1, SetPriority(t, s, p)
       PROVE  Listed(n)'
  <2>1. n # ref[<<t, s>>]
    BY <1>12, CountZero DEF SetPriority, Handles
  <2> QED
    BY <1>12, <2>1, StillListed DEF SetPriority
<1> QED
  BY Disturbing, <1>1, <1>2, <1>3, <1>4, <1>5, <1>6, <1>7, <1>8, <1>9, <1>10, <1>11,
     <1>12

LEMMA IdleCalls ==
  ASSUME NEW t \in Threads, pc[t] = "idle"
  PROVE  /\ ~Continue(t)
         /\ Call(t) => Alone(t) \/ Shared
BY DEF Call, GetStart, Put, SetPriority, PurgeStart, CachePurgeStart, Continue,
       LockHash, PutEnlru, PutUnlock, Get, SearchHit, SearchMiss, GetReferenced,
       GetUnreferenced, GetUnlru, Charge, ChargeRefused, Alloc, AllocFailed, Insert,
       Expand, Shake, ShakeLock, ShakeNodeBusy, ShakeNode, ShakeHashBusy, ShakeHash,
       ShakeTake, ShakeUnlock, Release, Uncharge, Purge, PurgeRefused, PurgeLockNode,
       PurgeUnlru, PurgeRelease, PurgeUncharge

LEMMA SoloKept ==
  ASSUME IInv, NEW t \in Threads, Call(t) \/ Continue(t)
  PROVE  Solo'
<1>1. \A u \in Threads \ {t} : pc'[u] = pc[u] /\ arg'[u] = arg[u]
  BY Others DEF IInv
<1>2. /\ pc \in [Threads -> Labels] /\ arg \in [Threads -> Keys \cup {None}]
      /\ (pc[t] = "idle" => arg[t] = None) /\ Solo
  BY DEF IInv, TypeOK, LocalTypeOK, ThreadOK
<1>3. CASE pc[t] # "idle"
  <2>1. \A u \in Threads \ {t} : pc[u] # "idle" => arg[u] # None
    BY <1>2, <1>3 DEF Solo
  <2>2. arg'[t] = arg[t] \/ pc'[t] = "idle"
    BY <1>2, <1>3
       DEF Call, GetStart, Put, SetPriority, PurgeStart, CachePurgeStart, Continue,
           LockHash, PutEnlru, PutUnlock, Get, SearchHit, SearchMiss, GetReferenced,
           GetUnreferenced, GetUnlru, Charge, ChargeRefused, Alloc, AllocFailed, Insert,
           Expand, Shake, ShakeLock, ShakeNodeBusy, ShakeNode, ShakeHashBusy, ShakeHash,
           ShakeTake, ShakeUnlock, Release, Uncharge, Purge, PurgeRefused,
           PurgeLockNode,
           PurgeUnlru, PurgeRelease, PurgeUncharge, AfterShake, Grant, Return, Goto,
           locals
  <2> QED
    BY <1>1, <1>2, <1>3, <2>1, <2>2 DEF Solo
<1>4. CASE pc[t] = "idle" /\ Alone(t)
  BY <1>1, <1>4 DEF Solo, Alone
<1>5. CASE pc[t] = "idle" /\ Shared /\ ~Alone(t)
  <2>1. \A u \in Threads \ {t} : pc[u] # "idle" => arg[u] # None
    BY <1>5 DEF Shared
  <2>2. arg'[t] # None \/ pc'[t] = "idle"
    <3>1. \A n \in Cached : key[n] \in Keys
      BY CachedFacts
    <3>2. \A h \in Handles : ref[h] # None => ref[h] \in Cached
      BY DEF IInv, ListsOK, RefsCached
    <3>3. ASSUME NEW k \in Keys, GetStart(t, k) PROVE arg'[t] # None
      BY <1>2, <3>3, ConstantsAssumption DEF GetStart
    <3>4. ASSUME NEW s \in Slots, Put(t, s) PROVE arg'[t] # None \/ pc'[t] = "idle"
      <4>1. key[ref[<<t, s>>]] # None
        BY <3>1, <3>2, <3>4, ConstantsAssumption DEF Put, Handles
      <4> QED
        BY <1>2, <1>5, <3>4, <4>1 DEF Put
    <3>5. ASSUME NEW s \in Slots, NEW p \in -1 .. MaxPriority + 1, SetPriority(t, s, p)
          PROVE  pc'[t] = "idle"
      BY <1>5, <3>5 DEF SetPriority
    <3>6. ASSUME NEW n \in Nodes, PurgeStart(t, n) PROVE arg'[t] # None
      <4>1. PICK z \in Slots : ref[<<t, z>>] = n /\ arg' = [arg EXCEPT ![t] = key[n]]
        BY <1>5, <3>6 DEF PurgeStart
      <4>2. key[n] \in Keys
        BY <3>1, <3>2, <4>1, ConstantsAssumption DEF Handles
      <4> QED
        BY <1>2, <4>1, <4>2, ConstantsAssumption
    <3>7. ~CachePurgeStart(t)
      BY <1>5 DEF CachePurgeStart
    <3>8. ~Continue(t)
      BY <1>5, IdleCalls
    <3> QED
      BY <3>3, <3>4, <3>5, <3>6, <3>7, <3>8 DEF Call
  <2> QED
    BY <1>1, <1>2, <2>1, <2>2 DEF Solo
<1>6. pc[t] = "idle" => Alone(t) \/ Shared
  BY IdleCalls
<1> QED
  BY <1>3, <1>4, <1>5, <1>6

LEMMA LocksKept ==
  ASSUME IInv, NEW t \in Threads, Call(t) \/ Continue(t)
  PROVE  LocksHeld'
<1> USE ConstantsAssumption, PriorityFacts
    DEF IInv, TypeOK, LocalTypeOK, LocksHeld, ChainOf, Goto, Return, lists, locks,
        nodes,
        counts, locals, HashLabels, OwnerLabels, MruLabels, Handles, KeyLabels, NodeLabels,
        UnlockHash, Grant, Skip, AfterShake, Solo, ThreadOK, LookupOK, FreshOK,
        ShakeOK, PutOK, PurgeOK, ListsOK, ChainsOK, MrusOK,
        Cached, Fresh
<1>1. ASSUME SearchHit(t) PROVE LocksHeld'
  BY <1>1 DEF SearchHit
<1>2. ASSUME SearchMiss(t) PROVE LocksHeld'
  BY <1>2 DEF SearchMiss
<1>3. ASSUME GetReferenced(t) PROVE LocksHeld'
  BY <1>3 DEF GetReferenced
<1>4. ASSUME GetUnreferenced(t) PROVE LocksHeld'
  BY <1>4 DEF GetUnreferenced
<1>5. ASSUME GetUnlru(t) PROVE LocksHeld'
  BY <1>5 DEF GetUnlru
<1>6. ASSUME Charge(t) PROVE LocksHeld'
  BY <1>6 DEF Charge
<1>7. ASSUME ChargeRefused(t) PROVE LocksHeld'
  BY <1>7 DEF ChargeRefused
<1>8. ASSUME Alloc(t) PROVE LocksHeld'
  BY <1>8 DEF Alloc
<1>9. ASSUME AllocFailed(t) PROVE LocksHeld'
  BY <1>9 DEF AllocFailed
<1>10. ASSUME Insert(t) PROVE LocksHeld'
  BY <1>10 DEF Insert
<1>11. ASSUME Expand(t) PROVE LocksHeld'
  BY <1>11 DEF Expand
<1>12. ASSUME ShakeLock(t) PROVE LocksHeld'
  BY <1>12 DEF ShakeLock
<1>13. ASSUME ShakeNodeBusy(t) PROVE LocksHeld'
  BY <1>13 DEF ShakeNodeBusy
<1>14. ASSUME ShakeNode(t) PROVE LocksHeld'
  BY <1>14 DEF ShakeNode
<1>15. ASSUME ShakeHashBusy(t) PROVE LocksHeld'
  BY <1>15 DEF ShakeHashBusy
<1>16. ASSUME ShakeHash(t) PROVE LocksHeld'
  BY <1>16 DEF ShakeHash
<1>17. ASSUME Release(t) PROVE LocksHeld'
  BY <1>17 DEF Release
<1>18. ASSUME PutEnlru(t) PROVE LocksHeld'
  BY <1>18 DEF PutEnlru
<1>19. ASSUME PutUnlock(t) PROVE LocksHeld'
  BY <1>19 DEF PutUnlock
<1>20. ASSUME PurgeRefused(t) PROVE LocksHeld'
  BY <1>20 DEF PurgeRefused
<1>21. ASSUME PurgeLockNode(t) PROVE LocksHeld'
  BY <1>21 DEF PurgeLockNode
<1>22. ASSUME PurgeUnlru(t) PROVE LocksHeld'
  BY <1>22 DEF PurgeUnlru
<1>23. ASSUME PurgeRelease(t) PROVE LocksHeld'
  BY <1>23 DEF PurgeRelease
<1>24. ASSUME PurgeUncharge(t) PROVE LocksHeld'
  BY <1>24 DEF PurgeUncharge
<1>25. ASSUME CachePurgeStart(t) PROVE LocksHeld'
  BY <1>25 DEF CachePurgeStart
<1>26. ASSUME NEW k \in Keys, GetStart(t, k) PROVE LocksHeld'
  BY <1>26 DEF GetStart
<1>27. ASSUME NEW s \in Slots, NEW p \in -1 .. MaxPriority + 1, SetPriority(t, s, p) PROVE LocksHeld'
  BY <1>27 DEF SetPriority
<1>28. ASSUME NEW n \in Nodes, PurgeStart(t, n) PROVE LocksHeld'
  BY <1>28 DEF PurgeStart
<1>29. ASSUME LockHash(t) PROVE LocksHeld'
  <2>1. \A u \in Threads, b \in Buckets :
         hlock'[b] = u <=> pc'[u] \in HashLabels /\ ChainOf(u)' = b
    BY <1>29 DEF LockHash, AfterHashLock
  <2>2. \A u \in Threads, n \in Nodes :
         nlock'[n] = u <=> pc'[u] \in OwnerLabels /\ cur'[u] = n
    BY <1>29 DEF LockHash, AfterHashLock
  <2>3. \A u \in Threads, p \in Priorities :
         mlock'[p] = u <=> pc'[u] \in MruLabels /\ pr'[u] = p
    BY <1>29 DEF LockHash, AfterHashLock
  <2> QED
    BY <2>1, <2>2, <2>3
<1>30. ASSUME ShakeTake(t) PROVE LocksHeld'
  <2>1. \A u \in Threads, b \in Buckets :
         hlock'[b] = u <=> pc'[u] \in HashLabels /\ ChainOf(u)' = b
    BY <1>30 DEF ShakeTake
  <2>2. \A u \in Threads, n \in Nodes :
         nlock'[n] = u <=> pc'[u] \in OwnerLabels /\ cur'[u] = n
    BY <1>30 DEF ShakeTake
  <2>3. \A u \in Threads, p \in Priorities :
         mlock'[p] = u <=> pc'[u] \in MruLabels /\ pr'[u] = p
    BY <1>30 DEF ShakeTake
  <2> QED
    BY <2>1, <2>2, <2>3
<1>31. ASSUME ShakeUnlock(t) PROVE LocksHeld'
  <2>1. \A u \in Threads, b \in Buckets :
         hlock'[b] = u <=> pc'[u] \in HashLabels /\ ChainOf(u)' = b
    <3>1. hlock' = hlock /\ key' = key /\ pc[t] = "walk"
      BY <1>31 DEF ShakeUnlock
    <3>2. pc'[t] \notin HashLabels
      BY <1>31 DEF ShakeUnlock
    <3>3. \A u \in Threads \ {t} : pc'[u] = pc[u] /\ arg'[u] = arg[u] /\ cur'[u] = cur[u]
      BY Others
    <3> QED
      BY <3>1, <3>2, <3>3
  <2>2. \A u \in Threads, n \in Nodes :
         nlock'[n] = u <=> pc'[u] \in OwnerLabels /\ cur'[u] = n
    <3>1. nlock' = nlock /\ pc[t] = "walk"
      BY <1>31 DEF ShakeUnlock
    <3>2. pc'[t] \notin OwnerLabels
      BY <1>31 DEF ShakeUnlock
    <3>3. \A u \in Threads \ {t} : pc'[u] = pc[u] /\ cur'[u] = cur[u]
      BY Others
    <3> QED
      BY <3>1, <3>2, <3>3
  <2>3. \A u \in Threads, p \in Priorities :
         mlock'[p] = u <=> pc'[u] \in MruLabels /\ pr'[u] = p
    BY <1>31 DEF ShakeUnlock
  <2> QED
    BY <2>1, <2>2, <2>3
<1>32. ASSUME Uncharge(t) PROVE LocksHeld'
  <2>1. \A u \in Threads, b \in Buckets :
         hlock'[b] = u <=> pc'[u] \in HashLabels /\ ChainOf(u)' = b
    <3>1. hlock' = hlock /\ key' = key /\ pc[t] = "uncharge"
      BY <1>32 DEF Uncharge
    <3>2. pc'[t] \notin HashLabels
      BY <1>32 DEF Uncharge
    <3>3. \A u \in Threads \ {t} : pc'[u] = pc[u] /\ arg'[u] = arg[u] /\ cur'[u] = cur[u]
      BY Others
    <3> QED
      BY <3>1, <3>2, <3>3
  <2>2. \A u \in Threads, n \in Nodes :
         nlock'[n] = u <=> pc'[u] \in OwnerLabels /\ cur'[u] = n
    <3>1. nlock' = nlock /\ pc[t] = "uncharge"
      BY <1>32 DEF Uncharge
    <3>2. pc'[t] \notin OwnerLabels
      BY <1>32 DEF Uncharge
    <3>3. \A u \in Threads \ {t} : pc'[u] = pc[u] /\ cur'[u] = cur[u]
      BY Others
    <3> QED
      BY <3>1, <3>2, <3>3
  <2>3. \A u \in Threads, p \in Priorities :
         mlock'[p] = u <=> pc'[u] \in MruLabels /\ pr'[u] = p
    BY <1>32 DEF Uncharge
  <2> QED
    BY <2>1, <2>2, <2>3
<1>33. ASSUME NEW s \in Slots, Put(t, s) PROVE LocksHeld'
  <2>1. \A u \in Threads, b \in Buckets :
         hlock'[b] = u <=> pc'[u] \in HashLabels /\ ChainOf(u)' = b
    BY <1>33 DEF Put
  <2>2. \A u \in Threads, n \in Nodes :
         nlock'[n] = u <=> pc'[u] \in OwnerLabels /\ cur'[u] = n
    BY <1>33 DEF Put
  <2>3. \A u \in Threads, p \in Priorities :
         mlock'[p] = u <=> pc'[u] \in MruLabels /\ pr'[u] = p
    BY <1>33 DEF Put
  <2> QED
    BY <2>1, <2>2, <2>3
<1> HIDE DEF LocksHeld, AfterShake
<1> QED
  BY <1>1, <1>2, <1>3, <1>4, <1>5, <1>6, <1>7, <1>8, <1>9, <1>10, <1>11, <1>12,
     <1>13, <1>14, <1>15, <1>16, <1>17, <1>18, <1>19, <1>20, <1>21, <1>22, <1>23,
     <1>24, <1>25, <1>26, <1>27, <1>28, <1>29, <1>30, <1>31, <1>32, <1>33 DEF Call,
     Continue, Get, Shake, Purge

LEMMA OtherHandles ==
  ASSUME IInv, NEW t \in Threads, Call(t) \/ Continue(t),
         NEW u \in Threads \ {t}, NEW s \in Slots
  PROVE  ref'[<<u, s>>] = ref[<<u, s>>]
<1>1. ref \in [Handles -> Nodes \cup {None}]
  BY DEF IInv, TypeOK
<1>2. \/ ref' = ref
      \/ \E n : Grant(t, n)
      \/ \E z \in Slots : Put(t, z)
  BY Disturbing
     DEF GetReferenced, GetUnlru, Insert, Alloc, Release, PutEnlru, PurgeUnlru,
         SetPriority,
         ShakeTake, PurgeRelease
<1>3. \/ ref' = ref
      \/ \E z \in Slots : \E n : ref' = [ref EXCEPT ![<<t, z>>] = n]
  BY <1>2 DEF Grant, Put
<1> QED
  BY <1>1, <1>3 DEF Handles

LEMMA OthersOK ==
  ASSUME IInv, NEW t \in Threads, Call(t) \/ Continue(t), NEW u \in Threads \ {t}
  PROVE  ThreadOK(u)'
<1>1. /\ pc'[u] = pc[u] /\ arg'[u] = arg[u] /\ cur'[u] = cur[u]
      /\ pr'[u] = pr[u] /\ todo'[u] = todo[u] /\ temp'[u] = temp[u]
  BY Others DEF IInv
<1>a. TypeOK /\ LocksHeld /\ RefsCached /\ ThreadOK(u) /\ Cached \subseteq Nodes
      /\ Transit(t) \cap Transit(u) = {}
  BY CachedNodes DEF IInv, ListsOK, TransitDisjoint
<1>3. \A n \in Cached : n \in live /\ key[n] \in Keys /\ prio[n] \in Priorities
  BY CachedFacts
<1>4. pc[u] # "idle" => arg[u] # None /\ (pc[t] # "idle" => arg[t] # None)
  BY IdleCalls DEF IInv, Solo, Alone, Shared
<1>5. LookupOK(u)'
  <2> SUFFICES ASSUME pc[u] \in {"hit", "unlru"} PROVE LookupOK(u)'
    BY <1>1 DEF LookupOK
  <2>1. PICK n \in Nodes : n = cur[u] /\ n \in Cached /\ key[n] = arg[u]
    BY <1>a, CurFacts
  <2>2. PICK b \in Buckets : b = Hash[arg[u]] /\ n \in chain[b] /\ hlock[b] = u
    BY <1>a, <2>1, ConstantsAssumption
       DEF ThreadOK, LookupOK, Matching, ChainOf, LocksHeld, HashLabels, TypeOK,
           LocalTypeOK, KeyLabels
  <2>3. chain'[b] = chain[b] /\ key'[n] = key[n]
    BY <1>3, <2>1, <2>2, ChainGuarantee, NodeGuarantee
  <2>4. ASSUME pc[u] = "unlru" PROVE count'[n] = 0
    <3>1. nlock[n] = u /\ count[n] = 0
      BY <1>a, <2>1, <2>4 DEF LocksHeld, OwnerLabels, ThreadOK, LookupOK
    <3> QED
      BY <1>3, <2>1, <3>1, NodeGuarantee, ConstantsAssumption
  <2> QED
    BY <1>1, <2>1, <2>2, <2>3, <2>4 DEF LookupOK, Matching, ChainOf
<1>6. FreshOK(u)'
  <2> SUFFICES ASSUME pc[u] \in Fresh PROVE FreshOK(u)'
    BY <1>1 DEF FreshOK
  <2>1. PICK n \in Nodes : n = cur[u]
    BY <1>a DEF TypeOK, LocalTypeOK, Fresh, NodeLabels
  <2>2. /\ n \in live \ Cached /\ key[n] = arg[u] /\ count[n] = 1 /\ prio[n] \in Priorities
        /\ n \notin Transit(t)
    BY <1>a, <2>1 DEF ThreadOK, FreshOK, Transit
  <2>3. n \in live' \ Cached'
    BY <2>2, LifeGuarantee
  <2>4. /\ key'[n] = key[n] /\ prio'[n] = prio[n]
        /\ \/ count'[n] = count[n]
           \/ \E h \in Handles : ref[h] = n
    BY <2>2, NodeGuarantee
  <2>5. \A h \in Handles : ref[h] # n
    BY <1>a, <2>1, <2>2, ConstantsAssumption DEF RefsCached
  <2> QED
    BY <1>1, <2>1, <2>2, <2>3, <2>4, <2>5 DEF FreshOK
<1>7. ShakeOK(u)'
  <2>1. pc[u] \in MruLabels => todo[u] \subseteq mru'[pr[u]]
    <3>1. pc[u] \in MruLabels => mlock[pr[u]] = u /\ pr[u] \in Priorities
      BY <1>a DEF LocksHeld, TypeOK, LocalTypeOK
    <3> QED
      BY <1>a, <3>1, MruGuarantee, ConstantsAssumption DEF ThreadOK, ShakeOK
  <2>2. ASSUME pc[u] \in Taking PROVE temp[u] \subseteq live' \ Cached'
    <3>1. temp[u] \subseteq live \ Cached /\ temp[u] \cap Transit(t) = {}
      BY <1>a, <2>2 DEF ThreadOK, ShakeOK, Transit
    <3> QED
      BY <3>1, LifeGuarantee
  <2> QED
    BY <1>1, <1>a, <2>1, <2>2 DEF ThreadOK, ShakeOK
<1>8. PutOK(u)'
  <2> SUFFICES ASSUME pc[u] = "enlru" PROVE PutOK(u)'
    BY <1>1 DEF PutOK
  <2>1. PICK n \in Nodes : n = cur[u] /\ n \in Cached /\ count[n] = 0 /\ Off(n) /\ nlock[n] = u
    BY <1>a DEF ThreadOK, PutOK, LocksHeld, OwnerLabels
  <2>2. n \in Cached' /\ count'[n] = 0
    BY <1>3, <1>4, <2>1, LifeGuarantee, NodeGuarantee, ConstantsAssumption
  <2>3. Off(n)'
    BY <2>1, MruGuarantee DEF Off
  <2> QED
    BY <1>1, <2>1, <2>2, <2>3 DEF PutOK
<1>9. PurgeOK(u)'
  <2> SUFFICES ASSUME pc[u] \in {"purge", "purging", "purgemru", "purged"} PROVE PurgeOK(u)'
    BY <1>1 DEF PurgeOK
  <2>1. PICK s \in Slots : ref[<<u, s>>] = cur[u] /\ pc[u] \in {"purge", "purging"}
    BY <1>4, <1>a DEF ThreadOK, PurgeOK
  <2>2. ref'[<<u, s>>] = cur[u] /\ cur[u] # None
    BY <1>a, <2>1, OtherHandles, ConstantsAssumption DEF TypeOK, LocalTypeOK, NodeLabels
  <2>3. cur[u] \in Cached'
    BY <2>2, RefsKept DEF RefsCached, Handles
  <2> QED
    BY <1>1, <2>1, <2>2, <2>3 DEF PurgeOK
<1> QED
  BY <1>1, <1>a, <1>5, <1>6, <1>7, <1>8, <1>9 DEF ThreadOK

LEMMA OwnOK ==
  ASSUME IInv, NEW t \in Threads, Call(t) \/ Continue(t), TypeOK'
  PROVE  ThreadOK(t)'
<1>a. TypeOK /\ LocksHeld /\ MrusOK /\ ChainsOK /\ RefsCached /\ ThreadOK(t) /\ Cached \subseteq Nodes
  BY CachedNodes DEF IInv, ListsOK
<1> USE ConstantsAssumption, PriorityFacts, <1>a
    DEF TypeOK, LocalTypeOK, lists, nodes, locals, ThreadOK, LookupOK, FreshOK,
        ShakeOK, PutOK, PurgeOK, 
        Goto, Return, Grant, Skip, AfterShake, KeyLabels, NodeLabels, Fresh, Taking,
        MruLabels
<1>1. ASSUME SearchHit(t) PROVE ThreadOK(t)'
  BY <1>1, CachedAfter DEF SearchHit, Matching, ChainOf
<1>2. ASSUME SearchMiss(t) PROVE ThreadOK(t)'
  BY <1>2 DEF SearchMiss
<1>3. ASSUME GetReferenced(t) PROVE ThreadOK(t)'
  BY <1>3 DEF GetReferenced
<1>4. ASSUME GetUnreferenced(t) PROVE ThreadOK(t)'
  BY <1>4 DEF GetUnreferenced, Matching, ChainOf
<1>5. ASSUME GetUnlru(t) PROVE ThreadOK(t)'
  BY <1>5 DEF GetUnlru
<1>6. ASSUME Charge(t) PROVE ThreadOK(t)'
  BY <1>6 DEF Charge
<1>7. ASSUME ChargeRefused(t) PROVE ThreadOK(t)'
  BY <1>7 DEF ChargeRefused
<1>8. ASSUME Alloc(t) PROVE ThreadOK(t)'
  BY <1>8, CachedFacts, CachedAfter DEF Alloc
<1>9. ASSUME AllocFailed(t) PROVE ThreadOK(t)'
  BY <1>9 DEF AllocFailed
<1>10. ASSUME Insert(t) PROVE ThreadOK(t)'
  BY <1>10 DEF Insert
<1>11. ASSUME Expand(t) PROVE ThreadOK(t)'
  BY <1>11 DEF Expand
<1>12. ASSUME ShakeLock(t) PROVE ThreadOK(t)'
  BY <1>12 DEF ShakeLock
<1>13. ASSUME ShakeNodeBusy(t) PROVE ThreadOK(t)'
  <2>1. ShakeOK(t)'
    BY <1>13, CachedAfter DEF ShakeNodeBusy
  <2> QED
    BY <1>13, <2>1 DEF ShakeNodeBusy
<1>14. ASSUME ShakeNode(t) PROVE ThreadOK(t)'
  <2>1. ShakeOK(t)'
    BY <1>14, CachedAfter DEF ShakeNode
  <2> QED
    BY <1>14, <2>1 DEF ShakeNode
<1>15. ASSUME ShakeHashBusy(t) PROVE ThreadOK(t)'
  <2>1. ShakeOK(t)'
    BY <1>15, CachedAfter DEF ShakeHashBusy
  <2> QED
    BY <1>15, <2>1 DEF ShakeHashBusy
<1>16. ASSUME ShakeHash(t) PROVE ThreadOK(t)'
  <2>1. ShakeOK(t)'
    BY <1>16, CachedAfter DEF ShakeHash
  <2> QED
    BY <1>16, <2>1 DEF ShakeHash
<1>17. ASSUME ShakeTake(t) PROVE ThreadOK(t)'
  <2>1. cur[t] \in Cached /\ cur[t] \in live /\ prio[cur[t]] = pr[t]
    BY <1>17, CurFacts, CachedFacts DEF ShakeTake
  <2>2. Cached' = Cached \ {cur[t]}
    BY <1>17, CachedAfter
  <2>3. todo'[t] \subseteq todo[t] \ {cur[t]} /\ temp'[t] = temp[t] \cup {cur[t]} /\ live' = live
    BY <1>17 DEF ShakeTake
  <2>4. mru'[pr[t]] = mru[pr[t]] \ {cur[t]} /\ pr' = pr /\ pc'[t] = "walk"
    BY <1>17 DEF ShakeTake
  <2> QED
    BY <1>17, <2>1, <2>2, <2>3, <2>4 DEF ShakeTake
<1>18. ASSUME ShakeUnlock(t) PROVE ThreadOK(t)'
  <2>1. ShakeOK(t)'
    BY <1>18, CachedAfter DEF ShakeUnlock
  <2> QED
    BY <1>18, <2>1 DEF ShakeUnlock
<1>19. ASSUME Release(t) PROVE ThreadOK(t)'
  BY <1>19 DEF Release
<1>20. ASSUME Uncharge(t) PROVE ThreadOK(t)'
  BY <1>20 DEF Uncharge
<1>21. ASSUME PutEnlru(t) PROVE ThreadOK(t)'
  BY <1>21 DEF PutEnlru
<1>22. ASSUME PutUnlock(t) PROVE ThreadOK(t)'
  BY <1>22 DEF PutUnlock
<1>23. ASSUME PurgeRefused(t) PROVE ThreadOK(t)'
  BY <1>23 DEF PurgeRefused
<1>24. ASSUME PurgeLockNode(t) PROVE ThreadOK(t)'
  <2>1. cur[t] \in Cached /\ count[cur[t]] = 0
    BY <1>24 DEF PurgeLockNode, Unreferenced
  <2>2. arg[t] = None
    <3>1. arg[t] = None \/ \E s \in Slots : ref[<<t, s>>] = cur[t]
      BY <1>24 DEF PurgeLockNode
    <3> QED
      BY <2>1, <3>1, CountZero DEF Handles
  <2>3. Cached' = Cached
    BY <1>24, CachedAfter DEF PurgeLockNode
  <2> QED
    BY <1>24, <2>1, <2>2, <2>3 DEF PurgeLockNode
<1>25. ASSUME PurgeUnlru(t) PROVE ThreadOK(t)'
  BY <1>25, CachedAfter DEF PurgeUnlru, Unlru, Off, MrusOK
<1>26. ASSUME PurgeRelease(t) PROVE ThreadOK(t)'
  BY <1>26 DEF PurgeRelease
<1>27. ASSUME PurgeUncharge(t) PROVE ThreadOK(t)'
  BY <1>27 DEF PurgeUncharge
<1>28. ASSUME CachePurgeStart(t) PROVE ThreadOK(t)'
  BY <1>28 DEF CachePurgeStart
<1>29. ASSUME LockHash(t) PROVE ThreadOK(t)'
  BY <1>29, CachedAfter DEF LockHash, AfterHashLock
<1>30. ASSUME NEW k \in Keys, GetStart(t, k) PROVE ThreadOK(t)'
  BY <1>30 DEF GetStart
<1>31. ASSUME NEW s \in Slots, NEW p \in -1 .. MaxPriority + 1, SetPriority(t, s, p) PROVE ThreadOK(t)'
  BY <1>31 DEF SetPriority
<1>32. ASSUME NEW n \in Nodes, PurgeStart(t, n) PROVE ThreadOK(t)'
  <2>1. n \in Cached
    <3>1. CASE \E s \in Slots : ref[<<t, s>>] = n
      <4>1. PICK h \in Handles : ref[h] = n
        BY <3>1 DEF Handles
      <4> QED
        BY <4>1 DEF RefsCached
    <3> QED
      BY <1>32, <3>1 DEF PurgeStart
  <2>2. Cached' = Cached /\ ref' = ref
    BY <1>32, CachedAfter DEF PurgeStart
  <2>3. arg'[t] = None \/ \E s \in Slots : ref[<<t, s>>] = n
    BY <1>32 DEF PurgeStart
  <2>4. pc'[t] = "purge" /\ cur'[t] = n /\ temp'[t] = {}
    BY <1>32 DEF PurgeStart
  <2> QED
    BY <2>1, <2>2, <2>3, <2>4
<1>33. ASSUME NEW s \in Slots, Put(t, s) PROVE ThreadOK(t)'
  BY <1>33, CachedAfter DEF Put, RefsCached, Handles, MrusOK, Off
<1> HIDE DEF ThreadOK
<1> QED
  BY <1>1, <1>2, <1>3, <1>4, <1>5, <1>6, <1>7, <1>8, <1>9, <1>10, <1>11, <1>12,
     <1>13, <1>14, <1>15, <1>16, <1>17, <1>18, <1>19, <1>20, <1>21, <1>22, <1>23,
     <1>24, <1>25, <1>26, <1>27, <1>28, <1>29, <1>30, <1>31, <1>32, <1>33 DEF Call,
     Continue, Get, Shake, Purge

LEMMA TransitKept ==
  ASSUME IInv, NEW t \in Threads, Call(t) \/ Continue(t)
  PROVE  TransitDisjoint'
<1>1. TypeOK /\ TransitDisjoint /\ ThreadOK(t) /\ \A u \in Threads : ThreadOK(u)
  BY DEF IInv
<1>2. \A u \in Threads : Transit(u) \subseteq live \ Cached
  BY <1>1 DEF Transit, ThreadOK, FreshOK, ShakeOK
<1>3. \A u \in Threads \ {t} : Transit(u)' = Transit(u)
  BY <1>1, Others DEF Transit
<1>4. Transit(t)' \subseteq Transit(t) \cup (Nodes \ live) \cup Cached
  <2> USE <1>1 DEF TypeOK, LocalTypeOK, Transit, Fresh, Taking, Goto, Return, Grant, Skip,
                   AfterShake, locals
  <2>1. CASE Call(t)
    <3>1. pc[t] = "idle" /\ temp' = temp
      BY <2>1 DEF Call, GetStart, Put, SetPriority, PurgeStart, CachePurgeStart
    <3>2. pc'[t] \in {"idle", "lookup", "enlru", "shake", "purge"}
      <4>1. CASE \E k \in Keys : GetStart(t, k)
        BY <4>1 DEF GetStart
      <4>2. CASE \E s \in Slots : Put(t, s)
        BY <4>2 DEF Put
      <4>3. CASE \E s \in Slots, p \in -1 .. MaxPriority + 1 : SetPriority(t, s, p)
        BY <3>1, <4>3 DEF SetPriority
      <4>4. CASE \E n \in Nodes : PurgeStart(t, n)
        BY <4>4 DEF PurgeStart
      <4>5. CASE CachePurgeStart(t)
        BY <4>5 DEF CachePurgeStart
      <4> HIDE DEF TypeOK, LocalTypeOK, Goto, Return, Grant, Skip, AfterShake, locals
      <4> QED
        BY <2>1, <4>1, <4>2, <4>3, <4>4, <4>5, Zenon DEF Call
    <3> QED
      BY <3>1, <3>2
  <2>2. CASE Alloc(t)
    BY <2>2 DEF Alloc, ThreadOK, ShakeOK
  <2>3. CASE LockHash(t)
    BY <2>3 DEF LockHash, AfterHashLock
  <2>4. CASE ShakeTake(t)
    BY <2>4, CurFacts DEF ShakeTake
  <2>5. CASE ShakeLock(t) \/ ShakeNodeBusy(t) \/ ShakeNode(t) \/ ShakeHashBusy(t) \/ ShakeHash(t)
    BY <2>5 DEF ShakeLock, ShakeNodeBusy, ShakeNode, ShakeHashBusy, ShakeHash,
       ThreadOK, ShakeOK
  <2>6. CASE ShakeUnlock(t) \/ Release(t) \/ Uncharge(t)
    BY <2>6 DEF ShakeUnlock, Release, Uncharge
  <2>7. CASE \/ SearchHit(t) \/ SearchMiss(t) \/ GetReferenced(t) \/ GetUnreferenced(t)
             \/ GetUnlru(t) \/ Charge(t) \/ ChargeRefused(t) \/ AllocFailed(t) \/ Insert(t)
             \/ Expand(t)
    BY <2>7 DEF SearchHit, SearchMiss, GetReferenced, GetUnreferenced, GetUnlru, Charge,
                ChargeRefused, AllocFailed, Insert, Expand
  <2>8. CASE Purge(t) \/ PutEnlru(t) \/ PutUnlock(t)
    BY <2>8 DEF Purge, PurgeRefused, PurgeLockNode, PurgeUnlru, PurgeRelease,
       PurgeUncharge,
                PutEnlru, PutUnlock
  <2> QED
    BY <2>1, <2>2, <2>3, <2>4, <2>5, <2>6, <2>7, <2>8 DEF Continue, Get, Shake
<1> QED
  BY <1>1, <1>2, <1>3, <1>4 DEF TransitDisjoint

-----------------------------------------------------------------------------
(* The theorems.                                                           *)

LEMMA InvInit == Init => IInv
<1> SUFFICES ASSUME Init PROVE IInv
  OBVIOUS
<1> USE ConstantsAssumption, PriorityFacts
<1>1. TypeOK
  BY DEF Init, TypeOK, LocalTypeOK, Handles, Labels, KeyLabels, NodeLabels
<1>2. Cached = {}
  BY DEF Init, Cached
<1>3. LocksHeld
  BY DEF Init, LocksHeld, HashLabels, OwnerLabels, MruLabels
<1>4. ListsOK
  BY <1>2 DEF Init, ListsOK, ChainsOK, MrusOK, RefsCached, RefCountExact, ZeroListed
<1>5. Solo /\ \A t \in Threads : ThreadOK(t)
  BY DEF Init, Solo, ThreadOK, LookupOK, FreshOK, ShakeOK, PutOK, PurgeOK, Fresh,
     Taking,
         MruLabels
<1>6. TransitDisjoint
  BY DEF Init, TransitDisjoint, Transit, Fresh, Taking
<1> QED
  BY <1>1, <1>3, <1>4, <1>5, <1>6 DEF IInv

LEMMA InvKept == IInv /\ [Next]_vars => IInv'
<1> SUFFICES ASSUME IInv, [Next]_vars PROVE IInv'
  OBVIOUS
<1>1. TypeOK'
  BY TypeKept DEF IInv
<1>2. ASSUME NEW t \in Threads, Call(t) \/ Continue(t) PROVE IInv'
  <2>1. \A u \in Threads : ThreadOK(u)'
    BY <1>1, <1>2, OwnOK, OthersOK
  <2>2. ListsOK'
    BY <1>2, ChainsKept, MrusKept, RefsKept, CountKept, ZeroKept DEF ListsOK
  <2> QED
    BY <1>1, <1>2, <2>1, <2>2, LocksKept, SoloKept, TransitKept DEF IInv
<1>3. CASE UNCHANGED vars
  <2>1. LocksHeld'
    BY <1>3 DEF vars, locks, nodes, locals, IInv, LocksHeld, ChainOf
  <2>2. Cached' = Cached
    BY <1>3 DEF vars, lists, Cached
  <2>3. ListsOK'
    BY <1>3, <2>2
       DEF vars, lists, nodes, locals, IInv, ListsOK, ChainsOK, MrusOK, RefsCached,
           RefCountExact,
           Referencing, ZeroListed, Listed
  <2>4. \A t \in Threads : ThreadOK(t)'
    BY <1>3, <2>2
       DEF vars, lists, nodes, locals, IInv, ThreadOK, LookupOK, FreshOK, ShakeOK,
           PutOK, PurgeOK,
           Matching, ChainOf, Off
  <2>5. Solo' /\ TransitDisjoint'
    BY <1>3 DEF vars, locals, IInv, Solo, TransitDisjoint, Transit
  <2> QED
    BY <1>1, <2>1, <2>3, <2>4, <2>5 DEF IInv
<1> QED
  BY <1>2, <1>3 DEF Next

LEMMA InvAlways == Spec => []IInv
<1>1. IInv /\ [Next]_vars => IInv'
  BY InvKept
<1> QED
  BY InvInit, <1>1, PTL DEF Spec

(* cn_count of every cached node is the number of references handed out.   *)
THEOREM CountsCorrect == Spec => []RefCountExact
<1>1. IInv => RefCountExact
  BY DEF IInv, ListsOK
<1> QED
  BY InvAlways, <1>1, PTL

(* No interleaving of gets, puts, purges and the shaker takes a node away  *)
(* from a thread that references it.                                       *)
THEOREM PinnedCorrect == Spec => []PinnedStaysCached
<1>1. IInv => PinnedStaysCached
  <2> SUFFICES ASSUME IInv, NEW h \in Handles, ref[h] # None
               PROVE  ref[h] \in live /\ ref[h] \in chain[Hash[key[ref[h]]]]
    BY DEF PinnedStaysCached
  <2>1. PICK b \in Buckets : ref[h] \in chain[b]
    BY DEF IInv, ListsOK, RefsCached, Cached
  <2> QED
    BY <2>1 DEF IInv, ListsOK, ChainsOK
<1> QED
  BY InvAlways, <1>1, PTL

(* The assertions of cache_shake, cache.c:221-222, and those of            *)
(* cache_node_get on a node it revives, cache.c:331-332, never fail.       *)
THEOREM ShakerCorrect == Spec => []ShakerAsserts
<1>1. ASSUME IInv, NEW t \in Threads, pc[t] = "unlru"
      PROVE  prio[cur[t]] \in Priorities /\ cur[t] \in mru[prio[cur[t]]]
  <2>1. cur[t] \in Cached /\ count[cur[t]] = 0
    BY <1>1, CurFacts DEF IInv, ThreadOK, LookupOK
  <2>2. prio[cur[t]] \in Priorities /\ Listed(cur[t])
    BY <1>1, <2>1, CachedFacts DEF IInv, ListsOK, ZeroListed
  <2>3. ASSUME NEW u \in Threads, pc[u] = "enlru" PROVE cur[u] # cur[t]
    BY <1>1, <2>1, <2>3, CachedNodes DEF IInv, LocksHeld, OwnerLabels
  <2>4. ASSUME NEW u \in Threads, pc[u] = "purged" PROVE FALSE
    BY <1>1, <2>4 DEF IInv, Solo, ThreadOK, PurgeOK
  <2> QED
    BY <2>2, <2>3, <2>4 DEF Listed
<1>2. IInv => ShakerAsserts
  BY CurFacts, <1>1 DEF ShakerAsserts
<1> QED
  BY InvAlways, <1>2, PTL

(* A cached node that nobody references and nobody is working on is where  *)
(* the shaker looks for it.                                                *)
THEOREM ReclaimableCorrect == Spec => []Reclaimable
<1>1. IInv => Reclaimable
  <2> SUFFICES ASSUME IInv, NEW n \in Cached, count[n] = 0, nlock[n] = None
               PROVE  \/ prio[n] \in Priorities /\ n \in mru[prio[n]]
                      \/ \E t \in Threads : pc[t] = "purged" /\ cur[t] = n
    BY DEF Reclaimable
  <2>1. prio[n] \in Priorities /\ Listed(n)
    BY CachedFacts DEF IInv, ListsOK, ZeroListed
  <2>2. \A t \in Threads : ~(pc[t] = "enlru" /\ cur[t] = n)
    BY CachedNodes, ConstantsAssumption DEF IInv, LocksHeld, OwnerLabels
  <2> QED
    BY <2>1, <2>2 DEF Listed
<1> QED
  BY InvAlways, <1>1, PTL

(* The cache never holds more nodes than c_maxcount, which only cache_expand *)
(* moves, nor more than c_max reports.                                       *)
THEOREM CapacityCorrect == Spec => []CapacityBound
<1> DEFINE BInv == CapacityBound /\ maxcount <= MaxcountBound
<1>1. Init => BInv
  BY ConstantsAssumption DEF Init, CapacityBound
<1>2. TypeOK /\ BInv /\ [Next]_vars => BInv'
  <2> SUFFICES ASSUME TypeOK, BInv, [Next]_vars PROVE BInv'
    OBVIOUS
  <2> USE DEF CapacityBound, TypeOK, counts
  <2>1. ASSUME NEW t \in Threads, Call(t) PROVE UNCHANGED counts
    BY <2>1 DEF Call, GetStart, Put, SetPriority, PurgeStart, CachePurgeStart
  <2>2. ASSUME NEW t \in Threads, Get(t) PROVE BInv'
    <3>1. CASE Charge(t)
      BY <3>1 DEF Charge, Room
    <3>2. CASE AllocFailed(t)
      BY <3>2 DEF AllocFailed
    <3>3. CASE Expand(t)
      BY <3>3, ConstantsAssumption DEF Expand
    <3> QED
      BY <2>2, <3>1, <3>2, <3>3
         DEF Get, SearchHit, SearchMiss, GetReferenced, GetUnreferenced, GetUnlru,
             ChargeRefused, Alloc, Insert
  <2>3. ASSUME NEW t \in Threads, Shake(t) PROVE BInv'
    <3>1. CASE Uncharge(t)
      BY <3>1, TempCardinality DEF Uncharge
    <3> QED
      BY <2>3, <3>1
         DEF Shake, ShakeLock, ShakeNodeBusy, ShakeNode, ShakeHashBusy, ShakeHash,
             ShakeTake,
             ShakeUnlock, Release
  <2>4. ASSUME NEW t \in Threads, Purge(t) PROVE BInv'
    BY <2>4 DEF Purge, PurgeRefused, PurgeLockNode, PurgeUnlru, PurgeRelease,
       PurgeUncharge
  <2> QED
    BY <2>1, <2>2, <2>3, <2>4 DEF Next, Continue, LockHash, PutEnlru, PutUnlock, vars
<1> QED
  BY TypeCorrect, <1>1, <1>2, PTL DEF Spec
-----------------------------------------------------------------------------
(* The account of nodes                                                    *)

(* What a thread still owes to c_count: a node charged and not allocated,  *)
(* or released and not uncharged.                                          *)
Charging == {"alloc", "purgecount"}
One(condition) == IF condition THEN 1 ELSE 0
Debt(t) == IF pc[t] = "uncharge" THEN Cardinality(temp[t]) ELSE 0
Chargers == {t \in Threads : pc[t] \in Charging}

(* The part of Uncharged that belongs to t, and the rest. *)
Mine(t) == IF pc[t] = "uncharge" THEN {t} \X temp[t] ELSE {}
Rest(t) == UNION {{u} \X temp[u] : u \in {v \in Threads \ {t} : pc[v] = "uncharge"}}

LEMMA UnchargedSplit ==
  ASSUME TypeOK, NEW t \in Threads
  PROVE  /\ Uncharged = Rest(t) \cup Mine(t) /\ Rest(t) \cap Mine(t) = {}
         /\ IsFiniteSet(Rest(t)) /\ Cardinality(Rest(t)) \in Nat
         /\ Cardinality(Uncharged) = Cardinality(Rest(t)) + Debt(t)
         /\ Debt(t) \in Nat
<1>1. Uncharged = Rest(t) \cup Mine(t) /\ Rest(t) \cap Mine(t) = {}
  BY DEF Uncharged, Rest, Mine
<1>2. Rest(t) \subseteq Threads \X Nodes
  BY DEF Rest, TypeOK, LocalTypeOK
<1>3. IsFiniteSet(Rest(t)) /\ Cardinality(Rest(t)) \in Nat
  BY <1>2, ConstantsAssumption, FS_Product, FS_Subset, FS_CardinalityType
<1>4. IsFiniteSet(temp[t]) /\ Cardinality(temp[t]) \in Nat
  BY TempCardinality
<1>5. IsFiniteSet(Mine(t)) /\ Cardinality(Mine(t)) = Debt(t)
  <2>1. IsFiniteSet({t}) /\ Cardinality({t}) = 1
    BY FS_Singleton
  <2>2. IsFiniteSet({t} \X temp[t]) /\ Cardinality({t} \X temp[t]) = Cardinality(temp[t])
    BY <1>4, <2>1, FS_Product
  <2> QED  BY <2>2, FS_EmptySet DEF Mine, Debt
<1>6. Cardinality(Uncharged) = Cardinality(Rest(t)) + Debt(t)
  <2>1. Cardinality(Rest(t) \cup Mine(t)) =
          Cardinality(Rest(t)) + Cardinality(Mine(t)) - Cardinality(Rest(t) \cap Mine(t))
    BY <1>3, <1>5, FS_Union
  <2>2. Cardinality(Rest(t) \cap Mine(t)) = 0
    BY <1>1, FS_EmptySet
  <2> QED  BY <1>1, <1>3, <1>4, <1>5, <2>1, <2>2 DEF Debt
<1> QED  BY <1>1, <1>3, <1>4, <1>6 DEF Debt

LEMMA DebtsMove ==
  ASSUME TypeOK, TypeOK', NEW t \in Threads, Call(t) \/ Continue(t)
  PROVE  /\ Cardinality(Uncharged)' = Cardinality(Uncharged) + Debt(t)' - Debt(t)
         /\ Cardinality(Chargers)' = Cardinality(Chargers)
              + One(pc[t] \in Charging)' - One(pc[t] \in Charging)
         /\ Cardinality(Uncharged) \in Nat /\ Cardinality(Chargers) \in Nat
         /\ Debt(t) \in Nat /\ Debt(t)' \in Nat
<1>1. \A u \in Threads \ {t} : pc'[u] = pc[u] /\ temp'[u] = temp[u]
  BY Others
<1>2. Rest(t)' = Rest(t)
  BY <1>1 DEF Rest
<1>3. /\ Cardinality(Uncharged) = Cardinality(Rest(t)) + Debt(t)
      /\ Cardinality(Rest(t)) \in Nat /\ Debt(t) \in Nat
  BY UnchargedSplit
<1>4. /\ Cardinality(Uncharged)' = Cardinality(Rest(t))' + Debt(t)' /\ Debt(t)' \in Nat
  <2>1. (TypeOK => Cardinality(Uncharged) = Cardinality(Rest(t)) + Debt(t)
                   /\ Debt(t) \in Nat)'
    BY UnchargedSplit, PTL
  <2> QED  BY <2>1
<1>5. /\ IsFiniteSet(Chargers) /\ Cardinality(Chargers) \in Nat
      /\ IsFiniteSet(Chargers') /\ Cardinality(Chargers') \in Nat
  BY ConstantsAssumption, FS_Subset, FS_CardinalityType DEF Chargers
<1>6. Chargers \ {t} = Chargers' \ {t}
  BY <1>1 DEF Chargers
<1>7. /\ Cardinality(Chargers \ {t}) = Cardinality(Chargers) - One(pc[t] \in Charging)
      /\ Cardinality(Chargers' \ {t}) = Cardinality(Chargers') - One(pc'[t] \in Charging)
  <2>1. (t \in Chargers <=> pc[t] \in Charging) /\ (t \in Chargers' <=> pc'[t] \in Charging)
    BY DEF Chargers
  <2> HIDE DEF Chargers
  <2>2. /\ Cardinality(Chargers \ {t}) =
             IF t \in Chargers THEN Cardinality(Chargers) - 1 ELSE Cardinality(Chargers)
        /\ Cardinality(Chargers' \ {t}) =
             IF t \in Chargers' THEN Cardinality(Chargers') - 1 ELSE Cardinality(Chargers')
    BY <1>5, FS_RemoveElement
  <2> QED  BY <1>5, <2>1, <2>2 DEF One
<1>8. /\ One(pc[t] \in Charging) \in {0, 1} /\ One(pc[t] \in Charging)' \in {0, 1}
      /\ One(pc'[t] \in Charging) = One(pc[t] \in Charging)'
  BY DEF One
<1>9. Cardinality(Chargers)' = Cardinality(Chargers')
  OBVIOUS
<1>10. Cardinality(Chargers)' = Cardinality(Chargers)
              + One(pc[t] \in Charging)' - One(pc[t] \in Charging)
  <2> HIDE DEF Chargers
  <2>1. Cardinality(Chargers' \ {t}) = Cardinality(Chargers \ {t})
    BY <1>6, Zenon
  <2> DEFINE new == One(pc'[t] \in Charging)
             old == One(pc[t] \in Charging)
  <2>2. One(pc[t] \in Charging)' = new /\ new \in {0, 1} /\ old \in {0, 1}
    BY <1>8
  <2> HIDE DEF new, old
  <2>3. Cardinality(Chargers') = Cardinality(Chargers) + new - old
    BY <1>5, <1>7, <2>1, <2>2 DEF new, old
  <2> QED  BY <1>9, <2>2, <2>3 DEF old
<1>11. Cardinality(Uncharged)' = Cardinality(Uncharged) + Debt(t)' - Debt(t)
       /\ Cardinality(Uncharged) \in Nat
  BY <1>2, <1>3, <1>4
<1> QED  BY <1>3, <1>4, <1>5, <1>10, <1>11

(* Every step moves c_count by as many nodes as it allocates and frees, and *)
(* as it comes to owe or pays back.                                         *)
Balanced(t) ==
  total' = total + Cardinality(live') - Cardinality(live) + Debt(t)' - Debt(t)
           + One(pc[t] \in Charging)' - One(pc[t] \in Charging)

LEMMA AccountBalanced ==
  ASSUME IInv, TypeOK', NEW t \in Threads, Call(t) \/ Continue(t)
  PROVE  Balanced(t)
<1>1. TypeOK /\ ThreadOK(t)
  BY DEF IInv
<1>2. /\ IsFiniteSet(live) /\ Cardinality(live) \in Nat
      /\ Cardinality(live') \in Nat /\ total \in Int
  BY <1>1, ConstantsAssumption, FS_Subset, FS_CardinalityType DEF TypeOK
<1>3. Debt(t) \in Nat /\ Debt(t)' \in Nat
  BY <1>1, DebtsMove
<1>4. /\ pc[t] \in Charging => Debt(t) = 0 /\ One(pc[t] \in Charging) = 1
      /\ pc[t] \notin Charging => One(pc[t] \in Charging) = 0
      /\ pc[t] # "uncharge" => Debt(t) = 0
      /\ pc'[t] \in Charging => Debt(t)' = 0 /\ One(pc[t] \in Charging)' = 1
      /\ pc'[t] \notin Charging => One(pc[t] \in Charging)' = 0
      /\ pc'[t] # "uncharge" => Debt(t)' = 0
  BY DEF Debt, One, Charging
<1>5. CASE Charge(t)
  <2>1. pc[t] = "allocate" /\ pc'[t] = "alloc" /\ total' = total + 1 /\ live' = live
    BY <1>1, <1>5 DEF Charge, Goto, TypeOK, LocalTypeOK, nodes
  <2> QED  BY <1>2, <1>4, <2>1 DEF Balanced, Charging
<1>6. CASE Alloc(t)
  <2>1. PICK n \in Nodes \ live : live' = live \cup {n}
    BY <1>6 DEF Alloc
  <2>2. Cardinality(live') = Cardinality(live) + 1
    BY <1>2, <2>1, FS_AddElement
  <2>3. pc[t] = "alloc" /\ pc'[t] = "insert" /\ total' = total
    BY <1>1, <1>6 DEF Alloc, Goto, TypeOK, LocalTypeOK, counts
  <2> QED  BY <1>2, <1>4, <2>2, <2>3 DEF Balanced, Charging
<1>7. CASE AllocFailed(t)
  <2>1. pc[t] = "alloc" /\ pc'[t] = "shake" /\ total' = total - 1 /\ live' = live
    BY <1>1, <1>7 DEF AllocFailed, Goto, TypeOK, LocalTypeOK, nodes
  <2> QED  BY <1>2, <1>4, <2>1 DEF Balanced, Charging
<1>8. CASE Release(t)
  <2>1. /\ pc[t] = "release" /\ pc'[t] = "uncharge" /\ total' = total
        /\ live' = live \ temp[t] /\ temp' = temp
    BY <1>1, <1>8 DEF Release, Goto, TypeOK, LocalTypeOK, counts, locals
  <2>2. temp[t] \subseteq live
    BY <1>1, <2>1 DEF ThreadOK, ShakeOK, Taking
  <2>3. Cardinality(live') = Cardinality(live) - Cardinality(temp[t])
    <3>1. live \cap temp[t] = temp[t]
      BY <2>2
    <3>2. Cardinality(live \ temp[t]) = Cardinality(live) - Cardinality(live \cap temp[t])
      BY <1>2, FS_Difference
    <3> QED  BY <2>1, <3>1, <3>2
  <2>4. Debt(t)' = Cardinality(temp[t]) /\ Cardinality(temp[t]) \in Nat
    BY <1>1, <2>1, TempCardinality DEF Debt
  <2> QED  BY <1>2, <1>4, <2>1, <2>3, <2>4 DEF Balanced, Charging
<1>9. CASE Uncharge(t)
  <2>1. pc[t] = "uncharge" /\ total' = total - Cardinality(temp[t]) /\ live' = live
    BY <1>9 DEF Uncharge, nodes
  <2>2. pc'[t] \in {"shake", "lookup", "expand", "idle"}
    BY <1>1, <1>9 DEF Uncharge, AfterShake, Return, Goto, TypeOK, LocalTypeOK
  <2>3. Debt(t) = Cardinality(temp[t]) /\ Cardinality(temp[t]) \in Nat
    BY <1>1, <2>1, TempCardinality DEF Debt
  <2> QED  BY <1>2, <1>4, <2>1, <2>2, <2>3 DEF Balanced, Charging
<1>10. CASE PurgeRelease(t)
  <2>1. /\ pc[t] = "purged" /\ pc'[t] = "purgecount" /\ total' = total
        /\ live' = live \ {cur[t]}
    BY <1>1, <1>10 DEF PurgeRelease, Goto, TypeOK, LocalTypeOK, counts
  <2>2. cur[t] \in live
    BY <1>1, <2>1, CachedFacts DEF ThreadOK, PurgeOK
  <2>3. Cardinality(live') = Cardinality(live) - 1
    BY <1>2, <2>1, <2>2, FS_RemoveElement
  <2> QED  BY <1>2, <1>4, <2>1, <2>3 DEF Balanced, Charging
<1>11. CASE PurgeUncharge(t)
  <2>1. pc[t] = "purgecount" /\ pc'[t] = "idle" /\ total' = total - 1 /\ live' = live
    BY <1>1, <1>11 DEF PurgeUncharge, Return, Goto, TypeOK, LocalTypeOK, nodes
  <2> QED  BY <1>2, <1>4, <2>1 DEF Balanced, Charging
<1>12. CASE /\ total' = total /\ live' = live
            /\ pc[t] \notin Charging \cup {"uncharge"}
            /\ pc'[t] \notin Charging \cup {"uncharge"}
  BY <1>2, <1>4, <1>12 DEF Balanced
<1>13. \/ Charge(t) \/ Alloc(t) \/ AllocFailed(t) \/ Release(t) \/ Uncharge(t)
       \/ PurgeRelease(t) \/ PurgeUncharge(t)
       \/ /\ total' = total /\ live' = live
          /\ pc[t] \notin Charging \cup {"uncharge"}
          /\ pc'[t] \notin Charging \cup {"uncharge"}
  <2> USE <1>1 DEF TypeOK, LocalTypeOK, Goto, Return, Charging, counts, nodes
  <2>1. CASE Call(t)
    <3>1. CASE \E k \in Keys : GetStart(t, k)
      BY <3>1 DEF GetStart
    <3>2. CASE \E s \in Slots : Put(t, s)
      BY <3>2 DEF Put
    <3>3. CASE \E s \in Slots, p \in -1 .. MaxPriority + 1 : SetPriority(t, s, p)
      BY <3>3 DEF SetPriority
    <3>4. CASE \E n \in Nodes : PurgeStart(t, n)
      BY <3>4 DEF PurgeStart
    <3>5. CASE CachePurgeStart(t)
      BY <3>5 DEF CachePurgeStart
    <3> HIDE DEF TypeOK, LocalTypeOK, Goto, Return, Charging, counts, nodes
    <3> QED  BY <2>1, <3>1, <3>2, <3>3, <3>4, <3>5, Zenon DEF Call
  <2>2. CASE Get(t)
    BY <2>2 DEF Get, SearchHit, SearchMiss, GetReferenced, GetUnreferenced, GetUnlru,
                ChargeRefused, Insert, Expand, Grant
  <2>3. CASE Shake(t)
    <3>1. ASSUME AfterShake(t), pc[t] = "walk"  PROVE pc'[t] \notin Charging \cup {"uncharge"}
      BY <3>1 DEF AfterShake
    <3>2. CASE ShakeUnlock(t)
      BY <3>1, <3>2 DEF ShakeUnlock
    <3> QED  BY <2>3, <3>2 DEF Shake, ShakeLock, ShakeNodeBusy, ShakeNode, ShakeHashBusy,
                     ShakeHash, ShakeTake, Skip
  <2>4. CASE Purge(t)
    BY <2>4 DEF Purge, PurgeRefused, PurgeLockNode, PurgeUnlru
  <2>5. CASE LockHash(t)
    BY <2>5 DEF LockHash, AfterHashLock
  <2>6. CASE PutEnlru(t) \/ PutUnlock(t)
    BY <2>6 DEF PutEnlru, PutUnlock
  <2> QED  BY <2>1, <2>2, <2>3, <2>4, <2>5, <2>6 DEF Continue
<1> QED  BY <1>5, <1>6, <1>7, <1>8, <1>9, <1>10, <1>11, <1>12, <1>13

(* c_count is the number of nodes there are, charged for or not yet         *)
(* uncharged: no call and no failed allocation leaks capacity.              *)
THEOREM AccountCorrect == Spec => []CapacityExact
<1>1. Init => CapacityExact
  <2> SUFFICES ASSUME Init  PROVE CapacityExact
    OBVIOUS
  <2>1. live = {} /\ total = 0
    BY DEF Init
  <2>2. Uncharged = {} /\ {t \in Threads : pc[t] \in {"alloc", "purgecount"}} = {}
    BY DEF Init, Uncharged
  <2> QED  BY <2>1, <2>2, FS_EmptySet DEF CapacityExact
<1>2. CapacityExact <=> total = Cardinality(live) + Cardinality(Uncharged)
                                + Cardinality(Chargers)
  BY DEF CapacityExact, Chargers, Charging
<1>3. ASSUME IInv, CapacityExact, TypeOK', NEW t \in Threads, Call(t) \/ Continue(t)
      PROVE  CapacityExact'
  <2>1. Balanced(t)
    BY <1>3, AccountBalanced
  <2>2. /\ Cardinality(Uncharged)' = Cardinality(Uncharged) + Debt(t)' - Debt(t)
        /\ Cardinality(Chargers)' = Cardinality(Chargers)
              + One(pc[t] \in Charging)' - One(pc[t] \in Charging)
        /\ Cardinality(Uncharged) \in Nat /\ Cardinality(Chargers) \in Nat
        /\ Debt(t) \in Nat /\ Debt(t)' \in Nat
    BY <1>3, DebtsMove DEF IInv
  <2>3. Cardinality(live) \in Nat /\ Cardinality(live') \in Nat
    BY <1>3, ConstantsAssumption, FS_Subset, FS_CardinalityType DEF IInv, TypeOK
  <2>4. total = Cardinality(live) + Cardinality(Uncharged) + Cardinality(Chargers)
    BY <1>2, <1>3
  <2>5. total' = Cardinality(live') + Cardinality(Uncharged)' + Cardinality(Chargers)'
    BY <2>1, <2>2, <2>3, <2>4 DEF Balanced, One
  <2>6. CapacityExact' <=> total' = Cardinality(live') + Cardinality(Uncharged)'
                                    + Cardinality(Chargers)'
    BY DEF CapacityExact, Chargers, Charging
  <2> QED  BY <2>5, <2>6
<1>4. IInv /\ CapacityExact /\ TypeOK' /\ [Next]_vars => CapacityExact'
  <2>1. UNCHANGED vars /\ CapacityExact => CapacityExact'
    BY DEF vars, nodes, counts, locals, CapacityExact, Uncharged
  <2> QED  BY <1>3, <2>1 DEF Next
<1> QED  BY <1>1, <1>4, InvAlways, TypeCorrect, PTL DEF Spec
=============================================================================
