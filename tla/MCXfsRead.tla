------------------------------ MODULE MCXfsRead ------------------------------
(* Instances of XfsRead for TLC: blocks of two bytes. *)
EXTENDS XfsRead, TLC

CONSTANTS t1, t2

Symmetry == Permutations({t1, t2})

Extent(startoff, startblock, count) ==
  [br_startoff |-> startoff, br_startblock |-> startblock,
   br_blockcount |-> count]

\* A hole in front, two extents that touch, a hole, and an extent that goes
\* beyond the end of the file.
Sparse == <<Extent(1, 20, 2), Extent(3, 10, 1), Extent(5, 30, 2)>>

\* Three extents without a hole: two leaves, the second not full.
Dense == <<Extent(0, 20, 1), Extent(1, 10, 1), Extent(2, 30, 1)>>

\* Every request that starts in the file or just past it.
AllRequests  == (0 .. 14) \X (1 .. 7)
SomeRequests == {<<1, 4>>, <<3, 5>>}

\* What memory that was freed may be found to hold.
SomeJunk == {Extent(0, 50, 1), Extent(1, 60, 9)}
=============================================================================
