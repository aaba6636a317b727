------------------------------ MODULE WorkQueue ------------------------------
(***************************************************************************)
(* repair/threads.c: the work queue xfs_repair spreads its per-AG work     *)
(* over (phase3.c, phase4.c, scan.c).  One thread creates the queue,       *)
(* queues an item per allocation group and destroys the queue, which is    *)
(* the barrier at the end of the phase; the workers take items from a      *)
(* linked list under one mutex and sleep on one condition variable.        *)
(*                                                                         *)
(* The code between taking wq->lock and releasing it (or sleeping) is one  *)
(* action.  A sleeping worker may wake without a signal, as POSIX allows.  *)
(* Items live at addresses that malloc may hand out again after free.      *)
(* A malloc or a pthread_create that fails ends the process (do_error).    *)
(*                                                                         *)
(* NoSignal, NothingLast, ... state plausible mistakes in the definition   *)
(* after them; the specification does not use them.                        *)
(***************************************************************************)
EXTENDS Integers, Sequences, FiniteSets, Functions

CONSTANTS
  Workers,   \* the threads of the queue
  AGs,       \* number of allocation groups: items to queue
  Addresses, \* where malloc may place an item
  NULL

ASSUME WorkQueueAssumption ==
  /\ IsFiniteSet(Workers) /\ Workers # {}
  /\ AGs \in Nat /\ NULL \notin Addresses

Groups == 1 .. AGs

VARIABLES
  next_item,  \* wq->next_item
  last_item,  \* wq->last_item
  item_count, \* wq->item_count
  terminate,  \* wq->terminate
  heap,       \* the items allocated: address -> [agno, next]
  main,       \* where the queueing thread is
  queued,     \* how many groups it has queued
  state,      \* where a worker is
  item,       \* a worker's local variable "wi"
  done        \* the groups whose function has returned

list == <<next_item, last_item, item_count, heap>>
vars == <<list, terminate, main, queued, state, item, done>>

States == {"none", "check", "waiting", "running", "exited"}

Init ==
  /\ next_item = NULL /\ last_item = NULL /\ item_count = 0 /\ heap = <<>>
  /\ terminate = FALSE
  /\ main = "creating" /\ queued = 0
  /\ state = [w \in Workers |-> "none"] /\ item = [w \in Workers |-> NULL]
  /\ done = {}

-----------------------------------------------------------------------------
(* The queueing thread *)

\* create_work_queue: pthread_create, in a loop.
CreateWorker(w) ==
  /\ main = "creating" /\ state[w] = "none"
  /\ state' = [state EXCEPT ![w] = "check"]
  /\ main' = IF \A v \in Workers \ {w} : state[v] # "none"
             THEN "queueing" ELSE main
  /\ UNCHANGED <<list, terminate, queued, item, done>>

NoSignal == UNCHANGED state
\* pthread_cond_signal wakes one of the sleeping workers, if there is one.
Signal ==
  IF \E w \in Workers : state[w] = "waiting"
  THEN \E w \in Workers : /\ state[w] = "waiting"
                          /\ state' = [state EXCEPT ![w] = "check"]
  ELSE UNCHANGED state

\* last_item is never reset: it does not tell an empty list.
NothingLast == last_item = NULL
Empty == next_item = NULL

Counted == item_count' = item_count + 1

\* malloc finds an address that is free, then the item is linked and counted.
QueueWork(a) ==
  /\ main = "queueing" /\ queued < AGs
  /\ a \notin DOMAIN heap
  /\ LET wi == [agno |-> queued + 1, next |-> NULL]
         added == [b \in DOMAIN heap \cup {a} |-> IF b = a THEN wi ELSE heap[b]]
     IN \/ /\ Empty
           /\ heap' = added
           /\ next_item' = a
           /\ Signal
        \/ /\ ~Empty
           /\ heap' = [added EXCEPT ![last_item].next = a]
           /\ UNCHANGED <<next_item, state>>
  /\ last_item' = a
  /\ Counted
  /\ queued' = queued + 1
  /\ UNCHANGED <<terminate, main, item, done>>

\* destroy_work_queue
SetTerminate ==
  /\ main = "queueing" /\ queued = AGs
  /\ terminate' = TRUE
  /\ main' = "terminating"
  /\ UNCHANGED <<list, queued, state, item, done>>

WakeOne == Signal
WakeAll ==
  state' = [w \in Workers |-> IF state[w] = "waiting" THEN "check" ELSE state[w]]

Broadcast ==
  /\ main = "terminating"
  /\ WakeAll
  /\ main' = "joining"
  /\ UNCHANGED <<list, terminate, queued, item, done>>

Join ==
  /\ main = "joining"
  /\ \A w \in Workers : state[w] = "exited"
  /\ main' = "destroyed"
  /\ UNCHANGED <<list, terminate, queued, state, item, done>>

-----------------------------------------------------------------------------
(* worker_thread *)

Sleep(w) ==
  /\ state[w] = "check"
  /\ next_item = NULL /\ ~terminate
  /\ state' = [state EXCEPT ![w] = "waiting"]
  /\ UNCHANGED <<list, terminate, main, queued, item, done>>

SpuriousWakeup(w) ==
  /\ state[w] = "waiting"
  /\ state' = [state EXCEPT ![w] = "check"]
  /\ UNCHANGED <<list, terminate, main, queued, item, done>>

\* terminate alone, without looking at the list, would lose queued work.
LeaveAtOnce == terminate
MayLeave == next_item = NULL /\ terminate

Leave(w) ==
  /\ state[w] = "check"
  /\ MayLeave
  /\ state' = [state EXCEPT ![w] = "exited"]
  /\ UNCHANGED <<list, terminate, main, queued, item, done>>

Dequeue(w) ==
  /\ state[w] = "check"
  /\ next_item # NULL
  /\ item' = [item EXCEPT ![w] = next_item]
  /\ next_item' = heap[next_item].next
  /\ item_count' = item_count - 1
  /\ state' = [state EXCEPT ![w] = "running"]
  /\ UNCHANGED <<last_item, heap, terminate, main, queued, done>>

\* (wi->function)(...) returns; free(wi).
Finish(w) ==
  /\ state[w] = "running"
  /\ done' = done \cup {heap[item[w]].agno}
  /\ heap' = Restrict(heap, DOMAIN heap \ {item[w]})
  /\ item' = [item EXCEPT ![w] = NULL]
  /\ state' = [state EXCEPT ![w] = "check"]
  /\ UNCHANGED <<next_item, last_item, item_count, terminate, main, queued>>

-----------------------------------------------------------------------------
Main ==
  \/ \E w \in Workers : CreateWorker(w)
  \/ \E a \in Addresses : QueueWork(a)
  \/ SetTerminate \/ Broadcast \/ Join

Work(w) == Sleep(w) \/ Leave(w) \/ Dequeue(w) \/ Finish(w)

Done == main = "destroyed" /\ UNCHANGED vars

Next == Main \/ (\E w \in Workers : Work(w) \/ SpuriousWakeup(w)) \/ Done

Spec == Init /\ [][Next]_vars

\* Every thread is scheduled, gets wq->lock in the end, and the functions the
\* items name return.  Nothing promises a spurious wakeup.
Fairness == WF_vars(Main) /\ \A w \in Workers : WF_vars(Work(w))
FairSpec == Spec /\ Fairness

-----------------------------------------------------------------------------
(* Properties *)

Running == {w \in Workers : state[w] = "running"}

\* Every variable stays in its range; a worker that runs has an item.
TypeOK ==
  /\ next_item \in Addresses \cup {NULL} /\ last_item \in Addresses \cup {NULL}
  /\ item_count \in 0 .. AGs /\ queued \in 0 .. AGs /\ terminate \in BOOLEAN
  /\ DOMAIN heap \subseteq Addresses
  /\ heap \in [DOMAIN heap -> [agno : Groups, next : Addresses \cup {NULL}]]
  /\ main \in {"creating", "queueing", "terminating", "joining", "destroyed"}
  /\ state \in [Workers -> States]
  /\ item \in [Workers -> Addresses \cup {NULL}]
  /\ \A w \in Running : item[w] \in DOMAIN heap
  /\ done \subseteq Groups

\* The list is what the three ASSERTs on item_count take it for: it links, in
\* the order they were queued, exactly the item_count groups no worker has
\* taken, and never an item that has been freed, though last_item dangles
\* when the list is empty and the allocator reuses addresses.
Taken  == done \cup {heap[item[w]].agno : w \in Running}
Linked == DOMAIN heap \ {item[w] : w \in Running}
ListExact ==
  /\ Taken = 1 .. queued - item_count
  /\ {heap[a].agno : a \in Linked} = queued - item_count + 1 .. queued
  /\ next_item = NULL <=> item_count = 0
  /\ item_count > 0 => /\ {next_item, last_item} \subseteq Linked
                       /\ heap[next_item].agno = queued - item_count + 1
                       /\ heap[last_item].agno = queued
  /\ \A a \in Linked :
       IF a = last_item THEN heap[a].next = NULL
       ELSE heap[a].next \in Linked /\ heap[heap[a].next].agno = heap[a].agno + 1

\* queue_work signals only when the list was empty, and wakes one worker; yet
\* while there is work some worker is awake and comes to look for it.
NoLostWakeup ==
  next_item # NULL => \E w \in Workers : state[w] \in {"check", "running"}

\* destroy_work_queue is the barrier at the end of a phase: when it returns,
\* the work of every group is done and no item is left behind.
Barrier == main = "destroyed" => done = Groups /\ DOMAIN heap = {}

\* The phase ends.
Ends == <>(main = "destroyed")
=============================================================================
