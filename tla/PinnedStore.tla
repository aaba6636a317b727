---------------------------- MODULE PinnedStore -----------------------------
(***************************************************************************)
(* What libxfs/cache.c promises its clients, the buffer cache and the      *)
(* inode cache, with no locks, lists or counters: a lookup pins an entry   *)
(* that has the name asked for, a pinned entry stays where it is under     *)
(* that name until its last pin is dropped, and only unpinned entries go.  *)
(* It does not promise that a name has one entry only: two threads that    *)
(* miss at the same time get an entry each.                                *)
(***************************************************************************)

CONSTANTS Threads, Slots, Nodes, Keys, None

VARIABLES
  resident, \* the entries in the store
  name,     \* the name of a resident entry, None for the others
  want,     \* the name a thread is looking up, or None
  pin       \* the entry each slot of each thread pins, None if it is free

storeVars == <<resident, name, want, pin>>

Init ==
  /\ resident = {}
  /\ name = [n \in Nodes |-> None]
  /\ want = [t \in Threads |-> None]
  /\ pin = [h \in Threads \X Slots |-> None]

Ask(t, k) ==
  /\ want[t] = None
  /\ want' = [want EXCEPT ![t] = k]
  /\ UNCHANGED <<resident, name, pin>>

\* The answer is a resident entry with that name, or a new one.
Answer(t, s, n) ==
  /\ want[t] # None /\ pin[<<t, s>>] = None
  /\ \/ /\ n \in resident /\ name[n] = want[t]
        /\ UNCHANGED <<resident, name>>
     \/ /\ n \notin resident
        /\ resident' = resident \cup {n}
        /\ name' = [name EXCEPT ![n] = want[t]]
  /\ pin' = [pin EXCEPT ![<<t, s>>] = n]
  /\ want' = [want EXCEPT ![t] = None]

Unpin(h) ==
  /\ pin[h] # None
  /\ pin' = [pin EXCEPT ![h] = None]
  /\ UNCHANGED <<resident, name, want>>

Evict(n) ==
  /\ n \in resident
  /\ \A h \in Threads \X Slots : pin[h] # n
  /\ resident' = resident \ {n}
  /\ name' = [name EXCEPT ![n] = None]
  /\ UNCHANGED <<want, pin>>

Next ==
  \/ \E t \in Threads, k \in Keys : Ask(t, k)
  \/ \E t \in Threads, s \in Slots, n \in Nodes : Answer(t, s, n)
  \/ \E h \in Threads \X Slots : Unpin(h)
  \/ \E n \in Nodes : Evict(n)

Spec == Init /\ [][Next]_storeVars
=============================================================================
