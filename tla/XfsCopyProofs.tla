--------------------------- MODULE XfsCopyProofs ---------------------------
(* Proofs about XfsCopy, for every number of targets and of buffers.       *)
EXTENDS XfsCopy, FiniteSetTheorems, TLAPS

(* The targets w_buf has still to be written to: released and not finished, *)
(* or still to be released.                                                 *)
Pending ==
  {t \in Targets : \/ ~wait[t]
                   \/ pc[t] \in {"write", "written", "error"}
                   \/ main = "release" /\ next <= t /\ state[t] # "INACTIVE"}

Behind(t) == main = "count" \/ (t \in Pending /\ pc[t] # "written")

Threads ==
  \A t \in Targets :
    /\ pc[t] = "exited" <=> state[t] = "INACTIVE"
    /\ ~wait[t] => pc[t] = "lock"
    /\ main = "release" /\ next <= t => wait[t] /\ pc[t] \in {"lock", "exited"}

Quiet == main \notin {"release", "wait"} => Pending = {} /\ mainwait
Countdown == num_working = Cardinality(Pending)
Woken == ~mainwait => Pending = {}
Places ==
  /\ main \in {"count", "release", "wait"} => w_buf \in Fills
  /\ main = "tail" => w_buf > NumBufs
  /\ main = "done" => w_buf = NumBufs + NumTail /\ reported = Targets \ Active
Copied ==
  \A t \in Active : \A k \in Fills :
    k <= w_buf /\ (Behind(t) => k # w_buf) => k \in written[t]

IInv == TypeOK /\ Threads /\ Quiet /\ Countdown /\ Woken /\ Places /\ Copied

-----------------------------------------------------------------------------
LEMMA Bounded ==
  ASSUME NEW S \in SUBSET Targets
  PROVE  IsFiniteSet(S) /\ Cardinality(S) \in 0 .. NumTargets
<1>1. NumTargets \in Nat
  BY CopyAssumption
<1>2. IsFiniteSet(Targets) /\ Cardinality(Targets) = NumTargets
  BY <1>1, FS_Interval DEF Targets
<1>3. IsFiniteSet(S) /\ Cardinality(S) <= NumTargets
  BY <1>2, FS_Subset
<1> QED  BY <1>1, <1>3, FS_CardinalityType

(* The types, but for the bound of the counter. *)
Types ==
  /\ state \in [Targets -> {"ACTIVE", "INACTIVE"}] /\ wait \in [Targets -> BOOLEAN]
  /\ num_working \in Int /\ mainwait \in BOOLEAN
  /\ w_buf \in 0 .. NumBufs + NumTail /\ next \in 1 .. NumTargets + 1
  /\ main \in {"read", "count", "release", "wait", "tail", "done", "dead"}
  /\ pc \in [Targets -> {"lock", "write", "written", "error", "exited"}]
  /\ written \in [Targets -> SUBSET (1 .. NumBufs + NumTail)]
  /\ reported \subseteq NotYet

LEMMA TypesKept ==
  ASSUME IInv, [Next]_vars
  PROVE  Types'
<1>1. Types /\ num_working \in Int
  BY CopyAssumption DEF IInv, TypeOK, Types
<1>2. CASE Read
  BY <1>1, <1>2, CopyAssumption DEF Types, Read
<1>3. CASE Count
  <2>1. Cardinality(Active) \in Int
    BY Bounded, CopyAssumption DEF Active
  <2> QED  BY <1>1, <1>3, <2>1, CopyAssumption DEF Types, Count, Counted
<1>4. CASE Release
  <2>1. next' \in 1 .. NumTargets + 1
    BY <1>1, <1>4, CopyAssumption DEF Types, Release, Targets
  <2>2. wait' \in [Targets -> BOOLEAN]
    BY <1>1, <1>4 DEF Types, Release
  <2> QED  BY <1>1, <1>4, <2>1, <2>2 DEF Types, Release
<1>5. CASE Wait
  BY <1>1, <1>5 DEF Types, Wait
<1>6. CASE Tail
  BY <1>1, <1>6, CopyAssumption DEF Types, Tail
<1>7. CASE TailWrite
  <2>1. CASE next \in Targets
    <3>1. next' \in 1 .. NumTargets + 1
      BY <1>1, <1>7, <2>1, CopyAssumption DEF Types, TailWrite, Targets
    <3>2. w_buf \in 1 .. NumBufs + NumTail
      BY <1>7, CopyAssumption, <1>1 DEF IInv, Places, TailWrite, Types
    <3>3. written' \in [Targets -> SUBSET (1 .. NumBufs + NumTail)]
      BY <1>1, <1>7, <2>1, <3>2 DEF Types, TailWrite
    <3> QED  BY <1>1, <1>7, <2>1, <3>1, <3>3 DEF Types, TailWrite
  <2>2. CASE next \notin Targets
    BY <1>1, <1>7, <2>2 DEF Types, TailWrite
  <2> QED  BY <2>1, <2>2
<1>8. CASE CheckErrors
  BY <1>1, <1>8, CopyAssumption DEF Types, CheckErrors, NotYet, Targets
<1>9. ASSUME NEW t \in Targets, Thread(t)  PROVE Types'
  <2>1. CASE Lock(t)
    BY <1>1, <2>1 DEF Types, Lock
  <2>2. CASE Write(t)
    <3>1. t \in Pending
      BY <2>2 DEF Write, Pending
    <3>2. w_buf \in 1 .. NumBufs + NumTail
      BY <3>1, CopyAssumption DEF IInv, Quiet, Places, Fills
    <3>3. written' \in [Targets -> SUBSET (1 .. NumBufs + NumTail)]
      BY <1>1, <2>2, <3>2 DEF Types, Write
    <3>4. pc' \in [Targets -> {"lock", "write", "written", "error", "exited"}]
      BY <1>1, <2>2 DEF Types, Write
    <3> QED  BY <1>1, <2>2, <3>3, <3>4 DEF Types, Write
  <2>3. CASE Written(t)
    BY <1>1, <2>3 DEF Types, Written, Finish
  <2>4. CASE HandleError(t)
    BY <1>1, <2>4 DEF Types, HandleError, Finish, Given, LessOne
  <2> QED  BY <1>9, <2>1, <2>2, <2>3, <2>4 DEF Thread
<1>10. CASE UNCHANGED vars
  BY <1>1, <1>10 DEF Types, vars
<1> QED  BY <1>2, <1>3, <1>4, <1>5, <1>6, <1>7, <1>8, <1>9, <1>10 DEF Next, Main

(* What a step does to the pending targets and to their counter. *)
Same == Pending' = Pending /\ num_working' = num_working /\ mainwait' = mainwait
Finished(t) ==
  /\ t \in Pending /\ Pending' = Pending \ {t}
  /\ num_working' = num_working - 1
  /\ mainwait' = (mainwait /\ num_working' # 0)

LEMMA PendingSteps ==
  ASSUME IInv, [Next]_vars
  PROVE  \/ Same
         \/ Count /\ Pending = {} /\ Pending' = Active
         \/ Wait /\ Pending = {} /\ Pending' = {} /\ num_working' = num_working
         \/ \E t \in Targets : Finished(t)
<1>1. CASE Read \/ Tail \/ TailWrite \/ CheckErrors \/ UNCHANGED vars
  BY <1>1 DEF Read, Tail, TailWrite, CheckErrors, vars, Same, Pending
<1>2. CASE Count
  <2>1. Pending = {}
    BY <1>2 DEF IInv, Quiet, Count
  <2>2. \A t \in Targets : 1 <= t
    BY DEF Targets
  <2>3. \A t \in Targets : t \in Pending' <=> state[t] # "INACTIVE"
    BY <1>2, <2>1, <2>2 DEF Count, Pending
  <2> QED  BY <1>2, <2>1, <2>3 DEF Pending, Active
<1>3. CASE Release
  <2>1. CASE next \in Targets
    <3>1. ASSUME NEW t \in Targets
          PROVE  t \in Pending' <=> t \in Pending
      <4>1. pc' = pc /\ state' = state /\ main = "release" /\ main' = "release"
        BY <1>3, <2>1 DEF Release
      <4>2. CASE t = next
        <5>1. wait'[t] = (state[t] = "INACTIVE")
          BY <1>3, <2>1, <4>2 DEF Release, IInv, TypeOK
        <5>2. ~(next' <= t) /\ next <= t
          BY <1>3, <2>1, <4>2 DEF Release, Targets
        <5>3. wait[t] /\ pc[t] \in {"lock", "exited"}
          BY <4>1, <5>2 DEF IInv, Threads
        <5> QED  BY <4>1, <5>1, <5>2, <5>3 DEF Pending
      <4>3. CASE t # next
        <5>1. wait'[t] = wait[t]
          BY <1>3, <2>1, <4>3 DEF Release, IInv, TypeOK
        <5>2. next' <= t <=> next <= t
          BY <1>3, <2>1, <4>3 DEF Release, Targets
        <5> QED  BY <4>1, <5>1, <5>2 DEF Pending
      <4> QED  BY <4>2, <4>3
    <3>2. Pending' = Pending
      BY <3>1 DEF Pending
    <3> QED  BY <1>3, <2>1, <3>2 DEF Release, Same
  <2>2. CASE next \notin Targets
    <3>1. \A t \in Targets : ~(next <= t)
      BY <2>2, CopyAssumption DEF IInv, TypeOK, Targets
    <3> QED  BY <1>3, <2>2, <3>1 DEF Release, Same, Pending
  <2> QED  BY <2>1, <2>2
<1>4. CASE Wait
  <2>1. Pending = {}
    BY <1>4 DEF IInv, Woken, Wait
  <2>2. Pending' = {}
    BY <1>4, <2>1 DEF Wait, Pending
  <2> QED  BY <1>4, <2>1, <2>2 DEF Wait
<1>5. ASSUME NEW t \in Targets, Lock(t) \/ Write(t)  PROVE Same
  <2>1. t \in Pending
    BY <1>5 DEF Lock, Write, Pending
  <2>2. t \in Pending'
    BY <1>5 DEF Lock, Write, Pending, IInv, TypeOK
  <2>3. \A u \in Targets \ {t} : u \in Pending' <=> u \in Pending
    BY <1>5 DEF Lock, Write, Pending, IInv, TypeOK
  <2>4. Pending' = Pending
    BY <2>1, <2>2, <2>3 DEF Pending
  <2> QED  BY <1>5, <2>4 DEF Lock, Write, Same
<1>6. ASSUME NEW t \in Targets, Written(t) \/ HandleError(t)  PROVE Finished(t)
  <2>1. t \in Pending /\ pc[t] \in {"written", "error"}
    BY <1>6 DEF Written, HandleError, Pending
  <2>2. wait[t] /\ ~(main = "release" /\ next <= t)
    BY <2>1 DEF IInv, Threads
  <2>3. wait' = wait /\ main' = main /\ next' = next /\ pc'[t] \in {"lock", "exited"}
    BY <1>6 DEF Written, HandleError, IInv, TypeOK
  <2>4. t \notin Pending'
    BY <2>2, <2>3 DEF Pending
  <2>5. \A u \in Targets \ {t} : pc'[u] = pc[u] /\ state'[u] = state[u]
    BY <1>6 DEF Written, HandleError, IInv, TypeOK
  <2>6. \A u \in Targets \ {t} : u \in Pending' <=> u \in Pending
    BY <2>3, <2>5 DEF Pending
  <2>7. Pending' = Pending \ {t}
    BY <2>1, <2>4, <2>6 DEF Pending
  <2> QED  BY <1>6, <2>1, <2>7 DEF Written, HandleError, Finish, LessOne, Finished
<1> QED  BY <1>1, <1>2, <1>3, <1>4, <1>5, <1>6 DEF Next, Main, Thread

(* The counter, and what it wakes. *)
LEMMA CountKept ==
  ASSUME IInv, [Next]_vars
  PROVE  (Countdown /\ Woken)' /\ num_working' \in 0 .. NumTargets
<1>1. Pending \in SUBSET Targets /\ Pending' \in SUBSET Targets
  BY DEF Pending
<1>2. Cardinality(Pending') \in 0 .. NumTargets /\ IsFiniteSet(Pending) /\ IsFiniteSet(Pending')
  BY <1>1, Bounded
<1>3. Cardinality(Pending) \in Nat
  BY <1>2, FS_CardinalityType
<1>4. SUFFICES (Countdown /\ Woken)'
  BY <1>2 DEF Countdown
<1>5. CASE Same
  BY <1>5 DEF Same, IInv, Countdown, Woken
<1>6. CASE Count /\ Pending = {} /\ Pending' = Active
  <2>1. num_working = 0
    BY <1>6, FS_EmptySet DEF IInv, Countdown
  <2>2. mainwait' = mainwait /\ mainwait
    BY <1>6 DEF Count, IInv, Quiet
  <2>3. Cardinality(Active) \in Nat
    BY <1>2, <1>6, CopyAssumption
  <2> QED  BY <1>6, <2>1, <2>2, <2>3 DEF Count, Counted, Countdown, Woken
<1>7. CASE Wait /\ Pending = {} /\ Pending' = {} /\ num_working' = num_working
  BY <1>7 DEF IInv, Countdown, Woken
<1>8. ASSUME NEW t \in Targets, Finished(t)  PROVE (Countdown /\ Woken)'
  <2>1. Cardinality(Pending') = Cardinality(Pending) - 1
    BY <1>2, <1>8, FS_RemoveElement DEF Finished
  <2>2. Countdown'
    BY <1>8, <2>1 DEF Finished, IInv, Countdown
  <2>3. mainwait
    BY <1>8 DEF IInv, Woken, Finished
  <2>4. ~mainwait' => Cardinality(Pending') = 0
    BY <1>8, <2>2, <2>3 DEF Finished, Countdown
  <2>5. Woken'
    BY <1>2, <2>4, FS_EmptySet DEF Woken
  <2> QED  BY <2>2, <2>5
<1> QED  BY <1>5, <1>6, <1>7, <1>8, PendingSteps

LEMMA QuietKept ==
  ASSUME IInv, [Next]_vars
  PROVE  Quiet' /\ Places'
<1>1. Types'
  BY TypesKept
<1>2. Quiet'
  <2>1. CASE main' \in {"release", "wait"}
    BY <2>1 DEF Quiet
  <2>2. CASE Wait
    <3>1. Pending' = {}
      BY <2>2 DEF IInv, Woken, Wait, Pending
    <3> QED  BY <2>2, <3>1 DEF Wait, Quiet
  <2>3. CASE main \notin {"release", "wait"} /\ main' \notin {"release", "wait"}
    <3>1. Pending = {} /\ mainwait
      BY <2>3 DEF IInv, Quiet
    <3>2. Same
      <4>1. ~Count /\ ~Wait
        BY <2>3 DEF Count, Wait
      <4> QED  BY <3>1, <4>1, PendingSteps DEF Finished
    <3> QED  BY <3>1, <3>2 DEF Same, Quiet
  <2>4. main \in {"release", "wait"} /\ main' \notin {"release", "wait"} => Wait
    BY DEF Next, Main, Thread, Read, Count, Release, Wait, Tail, TailWrite, CheckErrors,
           Lock, Write, Written, HandleError, vars
  <2> QED  BY <2>1, <2>2, <2>3, <2>4
<1>3. Places'
  <2>1. CASE Read
    BY <2>1, CopyAssumption DEF Read, IInv, TypeOK, Places, Fills
  <2>2. CASE Count \/ Release \/ Wait \/ UNCHANGED vars
    BY <2>2 DEF Count, Release, Wait, vars, IInv, Places, Active
  <2>3. CASE Tail
    BY <2>3, CopyAssumption DEF Tail, IInv, TypeOK, Places
  <2>4. CASE TailWrite \/ CheckErrors
    BY <2>4 DEF TailWrite, CheckErrors, IInv, Places, Active
  <2>5. ASSUME NEW t \in Targets, Thread(t)  PROVE Places'
    BY <2>5 DEF Thread, Lock, Write, Written, HandleError, Running, IInv, Places
  <2> QED  BY <2>1, <2>2, <2>3, <2>4, <2>5 DEF Next, Main
<1> QED  BY <1>2, <1>3

LEMMA ThreadsKept ==
  ASSUME IInv, [Next]_vars
  PROVE  Threads'
<1>1. CASE Read \/ Wait \/ Tail \/ TailWrite \/ CheckErrors \/ UNCHANGED vars
  BY <1>1 DEF Read, Wait, Tail, TailWrite, CheckErrors, vars, IInv, Threads
<1>2. CASE Count
  <2>1. Pending = {}
    BY <1>2 DEF IInv, Quiet, Count
  <2>2. \A t \in Targets : wait[t] /\ pc[t] \in {"lock", "exited"}
    BY <2>1 DEF Pending, IInv, TypeOK
  <2> QED  BY <1>2, <2>2 DEF Count, IInv, Threads
<1>3. CASE Release
  <2>1. CASE next \in Targets
    <3> SUFFICES ASSUME NEW t \in Targets
                 PROVE  /\ pc'[t] = "exited" <=> state'[t] = "INACTIVE"
                        /\ ~wait'[t] => pc'[t] = "lock"
                        /\ main' = "release" /\ next' <= t =>
                             wait'[t] /\ pc'[t] \in {"lock", "exited"}
      BY DEF Threads
    <3>1. pc' = pc /\ state' = state /\ main = "release"
      BY <1>3, <2>1 DEF Release
    <3>2. CASE t = next
      <4>1. wait'[t] = (state[t] = "INACTIVE")
        BY <1>3, <2>1, <3>2 DEF Release, IInv, TypeOK
      <4>2. ~(next' <= t) /\ next <= t
        BY <1>3, <2>1, <3>2 DEF Release, Targets
      <4>3. pc[t] \in {"lock", "exited"} /\ (pc[t] = "exited" <=> state[t] = "INACTIVE")
        BY <3>1, <4>2 DEF IInv, Threads
      <4> QED  BY <3>1, <4>1, <4>2, <4>3
    <3>3. CASE t # next
      <4>1. wait'[t] = wait[t]
        BY <1>3, <2>1, <3>3 DEF Release, IInv, TypeOK
      <4>2. next' <= t => next <= t
        BY <1>3, <2>1 DEF Release, Targets
      <4> QED  BY <3>1, <4>1, <4>2 DEF IInv, Threads
    <3> QED  BY <3>2, <3>3
  <2>2. CASE next \notin Targets
    BY <1>3, <2>2 DEF Release, IInv, Threads
  <2> QED  BY <2>1, <2>2
<1>4. ASSUME NEW t \in Targets, Thread(t)  PROVE Threads'
  <2>1. main' = main /\ next' = next
    BY <1>4 DEF Thread, Lock, Write, Written, HandleError
  <2>2. ~(main = "release" /\ next <= t) /\ pc[t] # "exited"
    BY <1>4 DEF Thread, Lock, Write, Written, HandleError, IInv, Threads
  <2>3. \A u \in Targets \ {t} : pc'[u] = pc[u] /\ state'[u] = state[u] /\ wait'[u] = wait[u]
    BY <1>4 DEF Thread, Lock, Write, Written, HandleError, IInv, TypeOK
  <2>4. pc'[t] = "exited" <=> state'[t] = "INACTIVE"
    BY <1>4, <2>2 DEF Thread, Lock, Write, Written, HandleError, Given, IInv, TypeOK, Threads
  <2>5. wait'[t]
    BY <1>4 DEF Thread, Lock, Write, Written, HandleError, IInv, TypeOK, Threads
  <2> QED  BY <2>1, <2>2, <2>3, <2>4, <2>5 DEF IInv, Threads
<1> QED  BY <1>1, <1>2, <1>3, <1>4 DEF Next, Main

LEMMA CopiedKept ==
  ASSUME IInv, [Next]_vars
  PROVE  Copied'
<1> SUFFICES ASSUME NEW t \in Active', NEW k \in Fills,
                    k <= w_buf', Behind(t)' => k # w_buf'
             PROVE  k \in written'[t]
  BY DEF Copied
<1>1. t \in Targets /\ state'[t] # "INACTIVE" /\ k \in Int /\ w_buf \in Int
  BY CopyAssumption DEF Active, Fills, IInv, TypeOK
<1>2. t \in Active
  BY <1>1 DEF Next, Main, Read, Count, Release, Wait, Tail, TailWrite, CheckErrors, Thread, Lock,
              Write, Written, HandleError, Given, vars, Active, IInv, TypeOK
<1>3. k <= w_buf /\ (Behind(t) => k # w_buf) => k \in written[t]
  BY <1>2 DEF IInv, Copied
<1>4. CASE Read
  <2>1. ~Behind(t)
    BY <1>4 DEF Read, IInv, Quiet, Behind
  <2>2. CASE main' = "dead"
    BY <1>3, <1>4, <2>1, <2>2 DEF Read
  <2>3. CASE main' = "count"
    <3>1. k # w_buf' /\ w_buf' = w_buf + 1
      BY <1>4, <2>3 DEF Read, Behind
    <3> QED  BY <1>1, <1>3, <1>4, <2>1, <3>1 DEF Read
  <2> QED  BY <1>4, <2>2, <2>3 DEF Read
<1>5. CASE Count
  <2>1. pc[t] # "written" /\ t \in Pending'
    <3>1. Pending = {} /\ Pending' = Active
      BY <1>5, PendingSteps DEF IInv, Quiet, Count, Same, Wait, Finished, Pending, Active, Threads, Targets
    <3>2. pc[t] # "written"
      BY <1>1, <3>1 DEF Pending
    <3> QED  BY <1>2, <3>1, <3>2
  <2>2. k # w_buf
    BY <1>5, <2>1 DEF Count, Behind
  <2> QED  BY <1>3, <1>5, <2>2 DEF Count
<1>6. CASE Release
  <2>1. Pending' = Pending
    <3>1. ~Count /\ ~Wait
      BY <1>6 DEF Release, Count, Wait
    <3>2. num_working' = num_working /\ num_working \in Int
      BY <1>6, CopyAssumption DEF Release, IInv, TypeOK
    <3>3. ~\E u \in Targets : Finished(u)
      BY <3>2 DEF Finished
    <3> QED  BY <3>1, <3>3, PendingSteps, Zenon DEF Same
  <2>2. main = "release" /\ main' \in {"release", "wait"} /\ pc' = pc
    BY <1>6 DEF Release
  <2>3. Behind(t)' <=> Behind(t)
    BY <2>1, <2>2 DEF Behind
  <2>4. w_buf' = w_buf /\ written' = written
    BY <1>6 DEF Release
  <2> QED  BY <1>3, <2>3, <2>4
<1>7. CASE Wait
  <2>1. Pending = {}
    BY <1>7 DEF IInv, Woken, Wait
  <2> QED  BY <1>3, <1>7, <2>1 DEF Wait, Behind
<1>8. CASE Tail \/ TailWrite \/ CheckErrors
  <2>1. ~Behind(t)
    BY <1>8 DEF Tail, TailWrite, CheckErrors, IInv, Quiet, Behind
  <2>2. k <= w_buf
    BY <1>1, <1>8, CopyAssumption DEF Tail, TailWrite, CheckErrors, Fills
  <2>3. k \in written[t]
    BY <1>3, <2>1, <2>2
  <2> QED  BY <1>1, <1>8, <2>3 DEF Tail, TailWrite, CheckErrors, IInv, TypeOK
<1>9. ASSUME NEW u \in Targets, Thread(u)  PROVE k \in written'[t]
  <2>1. w_buf' = w_buf /\ main' = main
    BY <1>9 DEF Thread, Lock, Write, Written, HandleError
  <2>2. written[t] \subseteq written'[t]
    BY <1>1, <1>9 DEF Thread, Lock, Write, Written, HandleError, IInv, TypeOK
  <2>3. CASE k # w_buf
    BY <1>3, <2>1, <2>2, <2>3
  <2>4. CASE k = w_buf /\ t # u
    <3>1. pc'[t] = pc[t] /\ (t \in Pending <=> t \in Pending')
      BY <1>1, <1>9, <2>4, PendingSteps DEF Thread, Lock, Write, Written, HandleError, IInv, TypeOK,
           Pending
    <3> QED  BY <1>3, <2>1, <2>2, <3>1 DEF Behind
  <2>5. CASE k = w_buf /\ t = u
    <3>1. ~Behind(t)'
      BY <2>1, <2>5
    <3>2. CASE Lock(u)
      BY <1>1, <2>5, <3>1, <3>2 DEF Lock, Behind, Pending, IInv, TypeOK
    <3>3. CASE Write(u)
      BY <1>1, <2>5, <3>1, <3>3 DEF Write, Behind, Pending, IInv, TypeOK
    <3>4. CASE Written(u)
      <4>1. main # "count"
        BY <2>1, <3>1 DEF Behind
      <4> QED  BY <1>3, <2>2, <2>5, <3>4, <4>1 DEF Written, Behind
    <3>5. CASE HandleError(u)
      BY <1>1, <2>5, <3>5 DEF HandleError, Given, IInv, TypeOK
    <3> QED  BY <1>9, <3>2, <3>3, <3>4, <3>5 DEF Thread
  <2> QED  BY <2>3, <2>4, <2>5
<1>10. CASE UNCHANGED vars
  BY <1>3, <1>10 DEF vars, Behind, Pending
<1> QED  BY <1>4, <1>5, <1>6, <1>7, <1>8, <1>9, <1>10 DEF Next, Main

-----------------------------------------------------------------------------
LEMMA Start ==
  ASSUME Init
  PROVE  IInv
<1>1. Pending = {}
  BY DEF Init, Pending
<1>2. TypeOK
  BY CopyAssumption DEF Init, TypeOK, Targets
<1> QED  BY <1>1, <1>2, FS_EmptySet DEF Init, IInv, Threads, Quiet, Countdown, Woken, Places, Copied,
            Fills, Active

LEMMA Step ==
  ASSUME IInv, [Next]_vars
  PROVE  IInv'
<1>1. TypeOK'
  BY TypesKept, CountKept DEF Types, TypeOK
<1> QED  BY <1>1, CountKept, QuietKept, ThreadsKept, CopiedKept DEF IInv

LEMMA Invariant == Spec => []IInv
<1> QED  BY Start, Step, PTL DEF Spec

(* The variables of xfs_copy keep their types; in particular num_working,   *)
(* which write_wbuf raises without the mutex, stays between 0 and the       *)
(* number of targets.                                                       *)
THEOREM TypeCorrect == Spec => []TypeOK
<1>1. IInv => TypeOK
  BY DEF IInv
<1> QED  BY <1>1, Invariant, PTL

(* When the main thread goes on to read, every target thread that has not   *)
(* met an error has written everything read so far.                         *)
THEOREM TargetsKeepUp == Spec => []KeptUp
<1>1. IInv => KeptUp
  <2> SUFFICES ASSUME IInv, main = "read", NEW t \in Active, NEW k \in Fills \cap (1 .. w_buf)
               PROVE  k \in written[t]
    BY DEF KeptUp
  <2>1. ~Behind(t)
    BY DEF IInv, Quiet, Behind
  <2>2. k <= w_buf
    BY DEF Fills
  <2> QED  BY <2>1, <2>2 DEF IInv, Copied
<1> QED  BY <1>1, Invariant, PTL

(* check_errors lists every target that lacks a part its thread had to      *)
(* write.                                                                   *)
THEOREM FailuresReported == Spec => []Reported
<1>1. IInv => Reported
  <2> SUFFICES ASSUME IInv, main = "done", NEW t \in Targets \ reported, NEW k \in Fills
               PROVE  k \in written[t]
    BY DEF Reported
  <2>1. t \in Active /\ w_buf = NumBufs + NumTail
    BY DEF IInv, Places
  <2>2. ~Behind(t)
    BY DEF IInv, Quiet, Behind
  <2>3. k <= w_buf
    BY <2>1, CopyAssumption DEF Fills
  <2> QED  BY <2>1, <2>2, <2>3 DEF IInv, Copied
<1> QED  BY <1>1, Invariant, PTL

(* w_buf is refilled only when no target thread has still to write it.      *)
THEOREM BufferKept == Spec => BufferStable
<1>1. IInv /\ [Next]_vars =>
        [w_buf' # w_buf => \A t \in Targets : wait[t] /\ pc[t] \in {"lock", "exited"}]_vars
  <2> SUFFICES ASSUME IInv, [Next]_vars, w_buf' # w_buf, NEW t \in Targets
               PROVE  wait[t] /\ pc[t] \in {"lock", "exited"}
    OBVIOUS
  <2>1. main = "read"
    BY DEF Next, Main, Read, Count, Release, Wait, Tail, TailWrite, CheckErrors, Thread, Lock,
           Write, Written, HandleError, vars
  <2>2. t \notin Pending
    BY <2>1 DEF IInv, Quiet
  <2> QED  BY <2>2 DEF Pending, IInv, TypeOK
<1> QED  BY <1>1, Invariant, PTL DEF Spec, BufferStable
=============================================================================
