----------------------------- MODULE MCRegistry -----------------------------
(* Two processes, two aliases, as many inodes as can be in use at once by  *)
(* two processes: config, what the disk has for it, config.tmp, and the    *)
(* file the other one still writes to.  Four commands: two that overlap,   *)
(* one before, one after.                                                  *)
EXTENDS Registry, TLC

OneValue == {1}

NameSymmetry == Permutations(Inode) \cup Permutations(Proc)

=============================================================================
