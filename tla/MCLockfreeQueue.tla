----------------------------- MODULE MCLockfreeQueue -----------------------------
(***************************************************************************)
(* LockfreeQueue for TLC.  Two values tell a mixed or reordered entry from *)
(* a whole one.  With two places the third push wraps around the buffer.   *)
(* Two producers are enough for one to publish the entry of another; a     *)
(* third is needed for the write index to be moved by two threads at once. *)
(***************************************************************************)
EXTENDS LockfreeQueue, TLC

Symmetry == Permutations(Producer) \cup Permutations(Value)
================================================================================
