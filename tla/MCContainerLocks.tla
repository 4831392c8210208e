-------------------------- MODULE MCContainerLocks --------------------------
(* Three processes: two that exclude each other and a reader, or a mount   *)
(* between two others.                                                     *)
EXTENDS ContainerLocks, TLC

ProcSymmetry == Permutations(Proc) \cup Permutations(Key)

=============================================================================
