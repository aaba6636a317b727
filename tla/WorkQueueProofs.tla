--------------------------- MODULE WorkQueueProofs ---------------------------
(* Proofs about WorkQueue, for every number of workers and groups.         *)
EXTENDS WorkQueue, TLAPS

(* Items are not shared, and the linked ones differ in their group. *)
Exclusive ==
  /\ \A v, w \in Running : v # w => item[v] # item[w]
  /\ \A a, b \in Linked : heap[a].agno = heap[b].agno => a = b

(* Who can still be asleep, or gone, when. *)
Phases ==
  /\ main = "creating" => next_item = NULL /\ queued = 0
  /\ terminate <=> main \in {"terminating", "joining", "destroyed"}
  /\ main # "creating" => \A w \in Workers : state[w] # "none"
  /\ terminate => queued = AGs
  /\ \A w \in Workers : state[w] = "exited" => terminate /\ next_item = NULL
  /\ \A w \in Workers : state[w] = "none" => main = "creating"
  /\ main = "destroyed" => \A w \in Workers : state[w] = "exited"
  /\ item_count <= queued

IInv == TypeOK /\ Phases /\ NoLostWakeup /\ Exclusive /\ ListExact

LEMMA QueueWorkHeap ==
  ASSUME IInv, NEW a \in Addresses, QueueWork(a)
  PROVE  /\ DOMAIN heap' = DOMAIN heap \cup {a} /\ a \notin DOMAIN heap
         /\ heap' = [b \in DOMAIN heap \cup {a} |-> heap'[b]]
         /\ heap'[a] = [agno |-> queued + 1, next |-> NULL]
         /\ \A b \in DOMAIN heap :
              heap'[b] = IF next_item # NULL /\ b = last_item
                         THEN [agno |-> heap[b].agno, next |-> a] ELSE heap[b]
<1> DEFINE wi == [agno |-> queued + 1, next |-> NULL]
           added == [b \in DOMAIN heap \cup {a} |-> IF b = a THEN wi ELSE heap[b]]
<1>1. a \notin DOMAIN heap
  BY DEF QueueWork
<1>2. CASE next_item = NULL
  <2>1. heap' = added
    BY <1>2 DEF QueueWork, Empty
  <2> QED  BY <1>1, <1>2, <2>1
<1>3. CASE next_item # NULL
  <2>1. heap' = [added EXCEPT ![last_item].next = a]
    BY <1>3 DEF QueueWork, Empty
  <2>2. last_item \in DOMAIN heap
    BY <1>3 DEF IInv, TypeOK, ListExact, Linked
  <2>3. heap[last_item] = [agno |-> heap[last_item].agno, next |-> heap[last_item].next]
    BY <2>2 DEF IInv, TypeOK
  <2>4. added[last_item] = heap[last_item]
    BY <1>1, <2>2
  <2>5. [added[last_item] EXCEPT !.next = a] = [agno |-> heap[last_item].agno, next |-> a]
    BY <2>3, <2>4
  <2>6. heap' = [b \in DOMAIN heap \cup {a} |->
                   IF b = last_item THEN [agno |-> heap[last_item].agno, next |-> a]
                   ELSE added[b]]
    BY <2>1, <2>5
  <2> QED  BY <1>1, <1>3, <2>2, <2>6
<1> QED  BY <1>2, <1>3

LEMMA TypeKept ==
  ASSUME IInv, [Next]_vars
  PROVE  TypeOK'
<1> USE WorkQueueAssumption DEF IInv, TypeOK, list, States, Running, Groups
<1>1. ASSUME NEW w \in Workers, CreateWorker(w) PROVE TypeOK'
  BY <1>1 DEF CreateWorker
<1>2. ASSUME NEW a \in Addresses, QueueWork(a) PROVE TypeOK'
  <2>1. item_count + 1 \in 0 .. AGs /\ queued + 1 \in Groups
    BY <1>2 DEF QueueWork, Phases
  <2>2. state' \in [Workers -> States] /\ \A v \in Running' : v \in Running
    BY <1>2 DEF QueueWork, Signal
  <2>3. DOMAIN heap' = DOMAIN heap \cup {a}
    BY <1>2 DEF QueueWork
  <2>4. heap' \in [DOMAIN heap' -> [agno : Groups, next : Addresses \cup {NULL}]]
    <3>1. \A b \in DOMAIN heap : /\ heap[b] \in [agno : Groups, next : Addresses \cup {NULL}]
                                 /\ heap[b].agno \in Groups
      OBVIOUS
    <3>2. \A b \in DOMAIN heap \cup {a} :
             heap'[b] \in [agno : Groups, next : Addresses \cup {NULL}]
      <4> SUFFICES ASSUME NEW b \in DOMAIN heap \cup {a}
                   PROVE  heap'[b] \in [agno : Groups, next : Addresses \cup {NULL}]
        OBVIOUS
      <4>1. CASE b = a
        <5>1. heap'[a] = [agno |-> queued + 1, next |-> NULL]
          BY <1>2, QueueWorkHeap
        <5> QED  BY <5>1, <4>1, <2>1
      <4>2. CASE b # a /\ next_item # NULL /\ b = last_item
        <5>1. heap'[b] = [agno |-> heap[b].agno, next |-> a]
          BY <4>2, <1>2, QueueWorkHeap
        <5> QED  BY <5>1, <3>1, <4>2
      <4>3. CASE b # a /\ ~(next_item # NULL /\ b = last_item)
        <5>1. heap'[b] = heap[b]
          BY <4>3, <1>2, QueueWorkHeap
        <5> QED  BY <5>1, <3>1, <4>3
      <4> QED  BY <4>1, <4>2, <4>3
    <3>3. heap' = [b \in DOMAIN heap \cup {a} |-> heap'[b]]
      BY <1>2, QueueWorkHeap
    <3> QED  BY <3>2, <3>3
  <2> QED
    BY <1>2, <2>1, <2>2, <2>3, <2>4 DEF QueueWork, Empty, Counted
<1>3. ASSUME SetTerminate \/ Join PROVE TypeOK'
  BY <1>3 DEF SetTerminate, Join
<1>4. ASSUME Broadcast PROVE TypeOK'
  BY <1>4 DEF Broadcast, WakeAll
<1>5. ASSUME NEW w \in Workers, Sleep(w) \/ Leave(w) \/ SpuriousWakeup(w) PROVE TypeOK'
  BY <1>5 DEF Sleep, Leave, SpuriousWakeup
<1>6. ASSUME NEW w \in Workers, Dequeue(w) PROVE TypeOK'
  BY <1>6 DEF Dequeue, ListExact, Linked
<1>7. ASSUME NEW w \in Workers, Finish(w) PROVE TypeOK'
  BY <1>7 DEF Finish, Restrict, Exclusive
<1>8. CASE UNCHANGED vars
  BY <1>8 DEF vars
<1> QED
  BY <1>1, <1>2, <1>3, <1>4, <1>5, <1>6, <1>7, <1>8 DEF Next, Main, Work, Done

LEMMA PhasesKept ==
  ASSUME IInv, [Next]_vars
  PROVE  Phases' /\ NoLostWakeup'
<1> USE WorkQueueAssumption DEF IInv, TypeOK, list, Phases, NoLostWakeup, States
<1>1. ASSUME NEW w \in Workers, CreateWorker(w) PROVE Phases' /\ NoLostWakeup'
  BY <1>1 DEF CreateWorker
<1>2. ASSUME NEW a \in Addresses, QueueWork(a) PROVE Phases' /\ NoLostWakeup'
  BY <1>2 DEF QueueWork, Empty, Counted, Signal
<1>3. ASSUME SetTerminate \/ Join PROVE Phases' /\ NoLostWakeup'
  BY <1>3 DEF SetTerminate, Join
<1>4. ASSUME Broadcast PROVE Phases' /\ NoLostWakeup'
  BY <1>4 DEF Broadcast, WakeAll
<1>5. ASSUME NEW w \in Workers, Sleep(w) \/ Leave(w) \/ SpuriousWakeup(w)
      PROVE  Phases' /\ NoLostWakeup'
  BY <1>5 DEF Sleep, Leave, SpuriousWakeup, MayLeave
<1>6. ASSUME NEW w \in Workers, Dequeue(w) PROVE Phases' /\ NoLostWakeup'
  BY <1>6 DEF Dequeue, ListExact
<1>7. ASSUME NEW w \in Workers, Finish(w) PROVE Phases' /\ NoLostWakeup'
  BY <1>7 DEF Finish
<1>8. CASE UNCHANGED vars
  BY <1>8 DEF vars
<1> QED
  BY <1>1, <1>2, <1>3, <1>4, <1>5, <1>6, <1>7, <1>8 DEF Next, Main, Work, Done

LEMMA QueueWorkKeepsList ==
  ASSUME IInv, NEW a \in Addresses, QueueWork(a)
  PROVE  (ListExact /\ Exclusive)'
<1>0. /\ DOMAIN heap' = DOMAIN heap \cup {a} /\ a \notin DOMAIN heap
      /\ item' = item /\ Running' = Running
      /\ last_item' = a /\ item_count' = item_count + 1 /\ queued' = queued + 1
      /\ queued \in Nat /\ item_count \in Nat /\ a # NULL /\ item_count <= queued
  BY WorkQueueAssumption DEF IInv, TypeOK, Phases, QueueWork, Counted, Signal, Running, Empty
<1>1. Linked' = Linked \cup {a} /\ a \notin Linked /\ Linked \subseteq DOMAIN heap
  BY <1>0 DEF Linked, IInv, TypeOK
<1>2. /\ \A b \in DOMAIN heap : heap'[b].agno = heap[b].agno
      /\ heap'[a] = [agno |-> queued + 1, next |-> NULL]
  <2>1. /\ heap'[a] = [agno |-> queued + 1, next |-> NULL]
        /\ \A b \in DOMAIN heap :
             heap'[b] = IF next_item # NULL /\ b = last_item
                        THEN [agno |-> heap[b].agno, next |-> a] ELSE heap[b]
    BY QueueWorkHeap
  <2>2. ASSUME NEW b \in DOMAIN heap PROVE heap'[b].agno = heap[b].agno
    <3>1. CASE next_item # NULL /\ b = last_item
      <4>1. heap'[b] = [agno |-> heap[b].agno, next |-> a]
        BY <2>1, <3>1
      <4> QED  BY <4>1
    <3>2. CASE ~(next_item # NULL /\ b = last_item)
      <4>1. heap'[b] = heap[b]
        BY <2>1, <3>2
      <4> QED  BY <4>1
    <3> QED  BY <3>1, <3>2
  <2> QED  BY <2>1, <2>2
<1>3. Taken' = Taken /\ done' = done
  BY <1>0, <1>2 DEF Taken, QueueWork, IInv, TypeOK
<1>4. {heap'[b].agno : b \in Linked'} = {heap[b].agno : b \in Linked} \cup {queued + 1}
  BY <1>0, <1>1, <1>2
<1>5. \A b \in Linked : heap[b].agno \in queued - item_count + 1 .. queued
  BY DEF IInv, ListExact
<1>6. Exclusive'
  BY <1>0, <1>1, <1>2, <1>5 DEF Exclusive, IInv
<1>7. CASE next_item = NULL
  <2>1. item_count = 0 /\ next_item' = a /\ Linked = {}
    BY <1>0, <1>5, <1>7 DEF QueueWork, Empty, IInv, ListExact
  <2> QED
    BY <1>0, <1>1, <1>2, <1>3, <1>4, <1>6, <2>1 DEF ListExact, IInv
<1>8. CASE next_item # NULL
  <2>1. /\ item_count > 0 /\ next_item' = next_item
        /\ {next_item, last_item} \subseteq Linked /\ heap[last_item].agno = queued
        /\ heap[next_item].agno = queued - item_count + 1
    BY <1>0, <1>8 DEF QueueWork, Empty, IInv, ListExact
  <2>2. heap'[last_item].next = a
    BY <1>0, <1>1, <1>8, <2>1 DEF QueueWork, Empty, IInv, TypeOK
  <2>3. \A b \in DOMAIN heap : b # last_item => heap'[b] = heap[b]
    BY <1>0, <1>8 DEF QueueWork, Empty
  <2>4. ASSUME NEW b \in Linked'
        PROVE  IF b = last_item' THEN heap'[b].next = NULL
               ELSE /\ heap'[b].next \in Linked'
                    /\ heap'[heap'[b].next].agno = heap'[b].agno + 1
    <3>1. CASE b = a
      BY <3>1, <1>0, <1>2
    <3>2. CASE b = last_item /\ b # a
      BY <3>2, <1>0, <1>1, <1>2, <2>1, <2>2
    <3>3. CASE b \in Linked /\ b # last_item /\ b # a
      <4>1. heap[b].next \in Linked /\ heap[heap[b].next].agno = heap[b].agno + 1
        BY <3>3 DEF IInv, ListExact
      <4> QED  BY <4>1, <3>3, <1>0, <1>1, <1>2, <2>3
    <3> QED  BY <3>1, <3>2, <3>3, <1>1
  <2>5. {heap[b].agno : b \in Linked} \cup {queued + 1}
          = queued' - item_count' + 1 .. queued'
    <3>1. {heap[b].agno : b \in Linked} = queued - item_count + 1 .. queued
      BY DEF IInv, ListExact
    <3>2. /\ queued \in Nat /\ item_count \in Nat
          /\ queued' = queued + 1 /\ item_count' = item_count + 1
      BY <1>0 DEF IInv, TypeOK
    <3>3. queued' - item_count' + 1 .. queued'
            = (queued - item_count + 1 .. queued) \cup {queued + 1}
      BY <2>1, <3>2
    <3> QED  BY <3>1, <3>3
  <2>6. Taken' = 1 .. queued' - item_count'
    BY <1>0, <1>3 DEF IInv, ListExact
  <2>7. /\ {next_item', last_item'} \subseteq Linked'
        /\ heap'[next_item'].agno = queued' - item_count' + 1
        /\ heap'[last_item'].agno = queued'
    BY <1>0, <1>1, <1>2, <2>1
  <2>8. ~(next_item' = NULL) /\ ~(item_count' = 0)
    BY <1>0, <1>8, <2>1
  <2>9. {heap'[b].agno : b \in Linked'} = queued' - item_count' + 1 .. queued'
    BY <1>4, <2>5
  <2> HIDE DEF Taken, Linked
  <2>10. ListExact'
    BY <2>4, <2>6, <2>7, <2>8, <2>9 DEF ListExact
  <2> QED  BY <2>10, <1>6
<1> QED  BY <1>7, <1>8

LEMMA DequeueKeepsList ==
  ASSUME IInv, NEW w \in Workers, Dequeue(w)
  PROVE  (ListExact /\ Exclusive)'
<1> DEFINE n == next_item
<1>0. /\ heap' = heap /\ last_item' = last_item /\ queued' = queued /\ done' = done
      /\ w \notin Running /\ Running' = Running \cup {w}
      /\ item'[w] = n /\ \A v \in Workers : v # w => item'[v] = item[v]
      /\ next_item' = heap[n].next /\ item_count' = item_count - 1
      /\ queued \in Nat /\ item_count \in Nat /\ n # NULL /\ item_count <= queued
  BY DEF IInv, TypeOK, Phases, Dequeue, Running
<1>1. /\ item_count > 0 /\ n \in Linked /\ last_item \in Linked /\ NULL \notin Linked
      /\ heap[n].agno = queued - item_count + 1 /\ heap[last_item].agno = queued
  BY <1>0, WorkQueueAssumption DEF IInv, ListExact, TypeOK, Linked
<1>2. Linked' = Linked \ {n}
  BY <1>0 DEF Linked, Running
<1>3. \A b \in Linked : b # n => heap[b].agno # heap[n].agno
  BY <1>1 DEF IInv, Exclusive
<1>4. Taken' = Taken \cup {heap[n].agno}
  BY <1>0 DEF Taken, Running
<1>5. Taken' = 1 .. queued' - item_count'
  BY <1>0, <1>1, <1>4 DEF IInv, ListExact
<1>6. {heap'[b].agno : b \in Linked'} = queued' - item_count' + 1 .. queued'
  <2>1. {heap[b].agno : b \in Linked \ {n}} = {heap[b].agno : b \in Linked} \ {heap[n].agno}
    BY <1>1, <1>3
  <2>2. {heap[b].agno : b \in Linked} = queued - item_count + 1 .. queued
    BY DEF IInv, ListExact
  <2>3. {heap[b].agno : b \in Linked \ {n}} = queued - item_count + 2 .. queued
    <3>1. /\ queued \in Nat /\ item_count \in Nat /\ item_count > 0
          /\ heap[n].agno = queued - item_count + 1
      BY <1>0, <1>1
    <3>2. (queued - item_count + 1 .. queued) \ {queued - item_count + 1}
            = queued - item_count + 2 .. queued
      BY <3>1
    <3> QED  BY <2>1, <2>2, <3>1, <3>2
  <2>4. queued' - item_count' + 1 = queued - item_count + 2 /\ queued' = queued
    BY <1>0
  <2> QED  BY <2>3, <2>4, <1>0, <1>2
<1>7. ASSUME NEW b \in Linked, b # last_item
      PROVE  heap[b].next \in Linked /\ heap[heap[b].next].agno = heap[b].agno + 1
  BY <1>7 DEF IInv, ListExact
<1>8. heap[last_item].next = NULL
  BY <1>1 DEF IInv, ListExact
<1>9. \A b \in Linked : heap[b].agno \in queued - item_count + 1 .. queued
  BY DEF IInv, ListExact
<1>10. /\ next_item' = NULL <=> item_count' = 0
       /\ item_count' > 0 => /\ {next_item', last_item'} \subseteq Linked'
                             /\ heap'[next_item'].agno = queued' - item_count' + 1
                             /\ heap'[last_item'].agno = queued'
  <2>1. CASE n = last_item
    BY <2>1, <1>0, <1>1, <1>8
  <2>2. CASE n # last_item
    <3>1. heap[n].next \in Linked /\ heap[heap[n].next].agno = heap[n].agno + 1
      BY <2>2, <1>1, <1>7
    <3>2. item_count > 1
      BY <3>1, <1>0, <1>1, <1>9
    <3> QED  BY <2>2, <3>1, <3>2, <1>0, <1>1, <1>2
  <2> QED  BY <2>1, <2>2
<1>11. \A b \in Linked' : IF b = last_item' THEN heap'[b].next = NULL
                           ELSE /\ heap'[b].next \in Linked'
                                /\ heap'[heap'[b].next].agno = heap'[b].agno + 1
  <2> SUFFICES ASSUME NEW b \in Linked', b # last_item
               PROVE  heap[b].next \in Linked' /\ heap[heap[b].next].agno = heap[b].agno + 1
    BY <1>0, <1>8
  <2>1. b \in Linked /\ heap[b].agno \in queued - item_count + 1 .. queued
    BY <1>2, <1>9
  <2>2. heap[b].next \in Linked /\ heap[heap[b].next].agno = heap[b].agno + 1
    BY <2>1, <1>7
  <2>3. heap[b].next # n
    BY <2>1, <2>2, <1>0, <1>1
  <2> QED  BY <2>2, <2>3, <1>2
<1>12. Exclusive'
  <2>1. \A v \in Running : item[v] # n
    BY <1>1 DEF Linked
  <2>2. \A v \in Running : v \in Workers
    BY DEF Running
  <2>3. \A u, v \in Running' : u # v => item'[u] # item'[v]
    BY <2>1, <2>2, <1>0 DEF IInv, Exclusive
  <2>4. \A a, b \in Linked' : heap'[a].agno = heap'[b].agno => a = b
    BY <1>0, <1>2 DEF IInv, Exclusive
  <2> QED  BY <2>3, <2>4 DEF Exclusive
<1>13. ListExact'
  BY <1>5, <1>6, <1>10, <1>11 DEF ListExact
<1> QED  BY <1>12, <1>13

LEMMA FinishKeepsList ==
  ASSUME IInv, NEW w \in Workers, Finish(w)
  PROVE  (ListExact /\ Exclusive)'
<1>0. /\ UNCHANGED <<next_item, last_item, item_count, queued>>
      /\ w \in Running /\ Running' = Running \ {w}
      /\ \A v \in Workers : v # w => item'[v] = item[v]
      /\ DOMAIN heap' = DOMAIN heap \ {item[w]} /\ item[w] \in DOMAIN heap
      /\ \A b \in DOMAIN heap' : heap'[b] = heap[b]
      /\ done' = done \cup {heap[item[w]].agno}
  BY DEF IInv, TypeOK, Finish, Running, Restrict
<1>1. \A v \in Running' : v \in Running /\ v \in Workers /\ v # w /\ item'[v] = item[v] /\ item[v] # item[w]
                        /\ item[v] \in DOMAIN heap'
  BY <1>0 DEF IInv, TypeOK, Exclusive, Running
<1>2. Linked' = Linked
  BY <1>0, <1>1 DEF Linked
<1>3. \A b \in Linked : heap'[b] = heap[b]
  BY <1>0 DEF Linked
<1>4. Taken' = Taken
  BY <1>0, <1>1 DEF Taken
<1>5. Exclusive'
  BY <1>1, <1>2, <1>3 DEF Exclusive, IInv
<1>6. {heap'[b].agno : b \in Linked} = {heap[b].agno : b \in Linked}
  BY <1>3
<1>7. ListExact'
  <2>1. ListExact
    BY DEF IInv
  <2> HIDE DEF Linked, Taken
  <2> QED  BY <1>0, <1>2, <1>3, <1>4, <1>6, <2>1 DEF ListExact
<1> QED  BY <1>5, <1>7

LEMMA ListKept ==
  ASSUME IInv, [Next]_vars
  PROVE  (ListExact /\ Exclusive)'
<1>1. ASSUME UNCHANGED <<list, queued, done, item>>, Running' = Running
      PROVE  (ListExact /\ Exclusive)'
  BY <1>1 DEF IInv, list, ListExact, Exclusive, Taken, Linked
<1>2. ASSUME NEW w \in Workers, CreateWorker(w) \/ Sleep(w) \/ Leave(w) \/ SpuriousWakeup(w)
      PROVE  (ListExact /\ Exclusive)'
  <2>1. Running' = Running
    BY <1>2 DEF CreateWorker, Sleep, Leave, SpuriousWakeup, Running, IInv, TypeOK, States
  <2> QED
    BY <2>1, <1>1, <1>2 DEF CreateWorker, Sleep, Leave, SpuriousWakeup
<1>3. ASSUME SetTerminate \/ Join \/ Broadcast \/ UNCHANGED vars
      PROVE  (ListExact /\ Exclusive)'
  <2>1. Running' = Running
    BY <1>3 DEF SetTerminate, Join, Broadcast, WakeAll, vars, Running, IInv, TypeOK, States
  <2> QED
    BY <2>1, <1>1, <1>3 DEF SetTerminate, Join, Broadcast, vars
<1> QED
  BY <1>2, <1>3, QueueWorkKeepsList, DequeueKeepsList, FinishKeepsList
  DEF Next, Main, Work, Done

LEMMA InitIInv == Init => IInv
<1> SUFFICES ASSUME Init PROVE IInv
  OBVIOUS
<1>1. DOMAIN heap = {} /\ heap = [a \in {} |-> heap[a]]
  BY DEF Init
<1>2. Running = {} /\ Linked = {} /\ Taken = {}
  BY <1>1 DEF Init, Running, Linked, Taken
<1>3. TypeOK
  <2>1. heap \in [DOMAIN heap -> [agno : Groups, next : Addresses \cup {NULL}]]
    BY <1>1
  <2>2. /\ next_item = NULL /\ last_item = NULL /\ item_count = 0 /\ queued = 0 /\ terminate = FALSE
        /\ main = "creating" /\ done = {} /\ AGs \in Nat
        /\ state \in [Workers -> States] /\ item \in [Workers -> Addresses \cup {NULL}]
    BY WorkQueueAssumption DEF Init, States
  <2>3. item_count \in 0 .. AGs /\ queued \in 0 .. AGs
    BY <2>2
  <2>4. /\ \A w \in Running : item[w] \in DOMAIN heap
        /\ DOMAIN heap \subseteq Addresses /\ done \subseteq Groups
    BY <1>1, <1>2, <2>2
  <2> QED  BY <2>1, <2>2, <2>3, <2>4 DEF TypeOK
<1>4. Phases /\ NoLostWakeup
  BY DEF Init, Phases, NoLostWakeup
<1>5. Exclusive
  BY <1>2 DEF Exclusive
<1>6. ListExact
  <2>1. {heap[a].agno : a \in Linked} = {}
    BY <1>2
  <2>2. item_count = 0 /\ queued = 0 /\ next_item = NULL
    BY DEF Init
  <2>3. 1 .. queued - item_count = {} /\ queued - item_count + 1 .. queued = {}
    BY <2>2
  <2> QED  BY <1>2, <2>1, <2>2, <2>3 DEF ListExact
<1> QED  BY <1>3, <1>4, <1>5, <1>6 DEF IInv

LEMMA Invariance == Spec => []IInv
<1>1. IInv /\ [Next]_vars => IInv'
  BY TypeKept, PhasesKept, ListKept DEF IInv
<1> QED
  BY <1>1, InitIInv, PTL DEF Spec

(* Every variable stays in its range, so heap is only read where an item is *)
(* allocated: no worker uses an item after free, none is freed twice.       *)
THEOREM TypeCorrect == Spec => []TypeOK
BY Invariance, PTL DEF IInv

(* The linked list, item_count and last_item of a work_queue_t agree, with   *)
(* the items in queueing order and no address freed while still linked.      *)
THEOREM ListCorrect == Spec => []ListExact
BY Invariance, PTL DEF IInv

(* One signal, sent only when the list was empty, is enough in queue_work.   *)
THEOREM WakeupCorrect == Spec => []NoLostWakeup
BY Invariance, PTL DEF IInv

(* When destroy_work_queue returns, the function of every group has returned *)
(* and every item has been freed.                                            *)
THEOREM BarrierCorrect == Spec => []Barrier
<1>1. IInv => Barrier
  <2> SUFFICES ASSUME IInv, main = "destroyed" PROVE done = Groups /\ DOMAIN heap = {}
    BY DEF Barrier
  <2>1. queued = AGs /\ Running = {} /\ next_item = NULL
    BY WorkQueueAssumption DEF IInv, Phases, Running
  <2>2. item_count = 0 /\ AGs \in Nat
    BY <2>1, WorkQueueAssumption DEF IInv, ListExact
  <2>3. done = 1 .. AGs
    <3>1. Taken = done
      BY <2>1 DEF Taken
    <3> QED  BY <3>1, <2>1, <2>2 DEF IInv, ListExact
  <2>4. {heap[a].agno : a \in DOMAIN heap} = AGs + 1 .. AGs
    BY <2>1, <2>2 DEF IInv, ListExact, Linked
  <2>5. DOMAIN heap = {}
    <3>1. AGs + 1 .. AGs = {}
      BY <2>2
    <3> QED  BY <3>1, <2>4
  <2> QED  BY <2>3, <2>5 DEF Groups
<1> QED  BY <1>1, Invariance, PTL
=============================================================================
