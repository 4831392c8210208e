-------------------------- MODULE MCCompactOnIdle --------------------------
(* A container of up to seven units, of which two are worth a compaction.  *)
EXTENDS CompactOnIdle

=============================================================================
