----------------------------- MODULE MCPrefetch -----------------------------
(* An instance of Prefetch for TLC: two groups, a directory block in front of *)
(* one cluster and two behind another, more clusters in one group than the    *)
(* semaphore lets the queueing thread get ahead.                              *)
EXTENDS Prefetch, TLC

FourAndOne == 0 :> <<10, 20, 30, 40>> @@ 1 :> <<50>>
DirBlocks == 10 :> <<25, 26>> @@ 20 :> <<5>> @@ 30 :> <<>> @@ 40 :> <<>> @@ 50 :> <<>>
Mixed == {{}, {10}}
Skewed == [g \in Groups |-> 2 * g]
=============================================================================
