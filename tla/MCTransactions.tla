--------------------------- MODULE MCTransactions ---------------------------
\* Instances of Transactions for TLC: the buffers, the blocks and the inodes
\* are each alike.
EXTENDS Transactions, TLC

Alike ==
  Permutations(Bufs) \cup Permutations(Blocks) \cup Permutations(Inodes)
=============================================================================
