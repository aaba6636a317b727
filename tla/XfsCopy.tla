------------------------------- MODULE XfsCopy -------------------------------
(***************************************************************************)
(* xfs_copy (copy/xfs_copy.c): the main thread reads the source into one   *)
(* buffer, and one thread per target writes the buffer to its target.      *)
(* Mutexes serve as semaphores: targ[i].wait starts a target thread,       *)
(* mainwait tells the main thread that glob_masks.num_working is 0 again.  *)
(* In the end the main thread writes to the targets itself: a clean log    *)
(* and the superblocks, that of the first group last.                      *)
(*                                                                         *)
(* "kids" is lowered by the handler of SIGCHLD alone, which no thread      *)
(* causes, so it stays at the number of targets.  The order of the blocks  *)
(* on the source is that of the buffers; what a failed write leaves on a   *)
(* target is not modelled.  killall ends the process.                      *)
(*                                                                         *)
(* CountOne, StayActive, ... state plausible mistakes in the definition    *)
(* after them; the specification does not use them.                        *)
(***************************************************************************)
EXTENDS Integers, FiniteSets

CONSTANTS
  NumTargets, \* num_targets
  NumBufs,    \* how often the main thread fills w_buf
  NumTail     \* what it writes to each target itself, the last one last

ASSUME CopyAssumption ==
  NumTargets \in Nat \ {0} /\ NumBufs \in Nat \ {0} /\ NumTail \in Nat \ {0}

Targets == 1 .. NumTargets
Fills   == 1 .. NumBufs

VARIABLES
  state,       \* target[i].state
  wait,        \* targ[i].wait is locked
  num_working, \* glob_masks.num_working
  mainwait,    \* mainwait is locked
  w_buf,       \* which part of the source is in w_buf
  main,        \* where the main thread is
  next,        \* the target its loop is at
  pc,          \* where a target thread is
  written,     \* target -> the parts it has
  reported     \* the targets check_errors has listed, NotYet before

NotYet == 0 .. NumTargets
vars == <<state, wait, num_working, mainwait, w_buf, main, next, pc, written, reported>>

Init ==
  /\ state = [t \in Targets |-> "ACTIVE"] /\ wait = [t \in Targets |-> TRUE]
  /\ num_working = 0 /\ mainwait = TRUE /\ w_buf = 0 /\ main = "read" /\ next = 1
  /\ pc = [t \in Targets |-> "lock"] /\ written = [t \in Targets |-> {}]
  /\ reported = NotYet

Active == {t \in Targets : state[t] # "INACTIVE"}

-----------------------------------------------------------------------------
(* The main thread *)

\* read_wbuf; a failure ends the process (die_perror).
Read ==
  /\ main = "read" /\ w_buf < NumBufs
  /\ \/ w_buf' = w_buf + 1 /\ main' = "count"
     \/ w_buf' = w_buf /\ main' = "dead"
  /\ UNCHANGED <<state, wait, num_working, mainwait, next, pc, written, reported>>

\* write_wbuf: all targets are counted before one is released.
CountOne(S) == 1
Counted(S) == Cardinality(S)

Count ==
  /\ main = "count"
  /\ num_working' = num_working + Counted(Active)
  /\ main' = "release" /\ next' = 1
  /\ UNCHANGED <<state, wait, mainwait, w_buf, pc, written, reported>>

Release ==
  /\ main = "release"
  /\ IF next \in Targets
     THEN /\ wait' = [wait EXCEPT ![next] = state[next] = "INACTIVE"]
          /\ next' = next + 1 /\ UNCHANGED main
     ELSE main' = "wait" /\ UNCHANGED <<wait, next>>
  /\ UNCHANGED <<state, num_working, mainwait, w_buf, pc, written, reported>>

Wait ==
  /\ main = "wait" /\ ~mainwait
  /\ mainwait' = TRUE
  /\ main' = "read"
  /\ UNCHANGED <<state, wait, num_working, w_buf, next, pc, written, reported>>

\* write_log_header, read_ag_header: they read the source too, and a failure
\* ends the process.
Tail ==
  /\ main = "read" /\ w_buf >= NumBufs /\ w_buf < NumBufs + NumTail
  /\ \/ w_buf' = w_buf + 1 /\ main' = "tail" /\ next' = 1
     \/ main' = "dead" /\ UNCHANGED <<w_buf, next>>
  /\ UNCHANGED <<state, wait, num_working, mainwait, pc, written, reported>>

\* do_write by the main thread, of whose result nothing is made; the target may
\* be one that failed.
TailWrite ==
  /\ main = "tail"
  /\ IF next \in Targets
     THEN /\ \/ UNCHANGED written
             \/ written' = [written EXCEPT ![next] = @ \cup {w_buf}]
          /\ next' = next + 1 /\ UNCHANGED main
     ELSE main' = "read" /\ UNCHANGED <<written, next>>
  /\ UNCHANGED <<state, wait, num_working, mainwait, w_buf, pc, reported>>

CheckErrors ==
  /\ main = "read" /\ w_buf = NumBufs + NumTail
  /\ reported' = Targets \ Active
  /\ main' = "done"
  /\ UNCHANGED <<state, wait, num_working, mainwait, w_buf, next, pc, written>>

-----------------------------------------------------------------------------
(* A target thread: begin_reader, do_write *)

Running == main \notin {"done", "dead"}

Lock(t) ==
  /\ Running /\ pc[t] = "lock" /\ ~wait[t]
  /\ wait' = [wait EXCEPT ![t] = TRUE]
  /\ pc' = [pc EXCEPT ![t] = "write"]
  /\ UNCHANGED <<state, num_working, mainwait, w_buf, main, next, written, reported>>

Write(t) ==
  /\ Running /\ pc[t] = "write"
  /\ \/ /\ written' = [written EXCEPT ![t] = @ \cup {w_buf}]
        /\ pc' = [pc EXCEPT ![t] = "written"]
     \/ /\ pc' = [pc EXCEPT ![t] = "error"]
        /\ UNCHANGED written
  /\ UNCHANGED <<state, wait, num_working, mainwait, w_buf, main, next, reported>>

Finish(n) ==
  /\ num_working' = n
  /\ mainwait' = (mainwait /\ n # 0)

Written(t) ==
  /\ Running /\ pc[t] = "written"
  /\ Finish(num_working - 1)
  /\ pc' = [pc EXCEPT ![t] = "lock"]
  /\ UNCHANGED <<state, wait, w_buf, main, next, written, reported>>

StayActive(t) == state[t]
Given(t) == "INACTIVE"
KeepCount(n) == n
LessOne(n) == n - 1

HandleError(t) ==
  /\ Running /\ pc[t] = "error"
  /\ state' = [state EXCEPT ![t] = Given(t)]
  /\ Finish(LessOne(num_working))
  /\ pc' = [pc EXCEPT ![t] = "exited"]
  /\ UNCHANGED <<wait, w_buf, main, next, written, reported>>

-----------------------------------------------------------------------------
Main == Read \/ Count \/ Release \/ Wait \/ Tail \/ TailWrite \/ CheckErrors
Thread(t) == Lock(t) \/ Write(t) \/ Written(t) \/ HandleError(t)

Next == Main \/ \E t \in Targets : Thread(t)
Spec == Init /\ [][Next]_vars

\* The threads are scheduled and their calls return.
FairSpec == Spec /\ WF_vars(Main) /\ \A t \in Targets : WF_vars(Thread(t))

-----------------------------------------------------------------------------
(* Properties *)

TypeOK ==
  /\ state \in [Targets -> {"ACTIVE", "INACTIVE"}] /\ wait \in [Targets -> BOOLEAN]
  /\ num_working \in 0 .. NumTargets /\ mainwait \in BOOLEAN
  /\ w_buf \in 0 .. NumBufs + NumTail /\ next \in 1 .. NumTargets + 1
  /\ main \in {"read", "count", "release", "wait", "tail", "done", "dead"}
  /\ pc \in [Targets -> {"lock", "write", "written", "error", "exited"}]
  /\ written \in [Targets -> SUBSET (1 .. NumBufs + NumTail)]
  /\ reported \subseteq NotYet

\* The buffer is not filled again while a target thread has still to write it,
\* or is writing it.
BufferStable ==
  [][w_buf' # w_buf => \A t \in Targets : wait[t] /\ pc[t] \in {"lock", "exited"}]_vars

\* "the copy of that one target is aborted ... but the rest of the copies
\* continue": when the main thread goes on, each target that has not failed has
\* everything that has been read so far.
KeptUp == main = "read" => \A t \in Active : Fills \cap (1 .. w_buf) \subseteq written[t]

\* "all aborted targets are reported": a target that is not has all that the
\* target threads write (of what the main thread writes itself nothing is known).
Reported == main = "done" => \A t \in Targets \ reported : Fills \subseteq written[t]

\* The main thread comes to an end, unless all targets fail: then nobody is
\* left to unlock mainwait.
Ends == <>(main \in {"done", "dead"} \/ Active = {})
=============================================================================
