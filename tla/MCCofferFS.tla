---------------------------- MODULE MCCofferFS ----------------------------
(* Small instances of CofferFS for TLC. *)
EXTENDS CofferFS, TLC

NoModes == {{}}

\* Modes that carry a privilege, one where S_ISGID marks mandatory locking.
PrivilegedModes == {{}, {"sgid"}, {"suid", "sgid", "gx"}}

NameSymmetry == Permutations(Names)

===========================================================================
