--------------------------- MODULE MCVirtualQueue ---------------------------
(***************************************************************************)
(* Small instances of VirtualQueue for TLC.                                *)
(***************************************************************************)
EXTENDS VirtualQueue, TLC

\* Neither users nor threads are named: both are interchangeable.
Symmetry == Permutations(Users) \cup Permutations(Threads)

\* A state without its history, which no action reads.
WithoutHistory == <<queue, active, call, worker, earlier, pinned>>
=============================================================================
