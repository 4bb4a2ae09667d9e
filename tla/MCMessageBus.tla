---------------------------- MODULE MCMessageBus ----------------------------
(* Model values and symmetry for the runs of MessageBus.                   *)
EXTENDS MessageBus, TLC
PublisherSymmetry == Permutations(Publishers) \cup Permutations(Closers)
=============================================================================
