---------------------------- MODULE MCWorkQueue ----------------------------
(* Instances of WorkQueue for TLC. *)
EXTENDS WorkQueue, TLC

CONSTANTS w1, w2, w3, a1, a2, a3, a4
=============================================================================
