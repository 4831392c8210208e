------------------------------ MODULE Snapshot ------------------------------
(***************************************************************************)
(* What `coffer backup` promises: the copy is the container as it was at   *)
(* one moment - when the backup began, or when it ended - however much is  *)
(* written meanwhile; and a backup that does not end leaves the            *)
(* destination as it was.                                                  *)
(***************************************************************************)
CONSTANTS Image,  \* the states a container may be in
          NoImage \* no copy, no backup under way

VARIABLES source, \* the container
          mark,   \* the container when the backup began
          copy    \* what opens at the destination

vars == <<source, mark, copy>>

Init == source \in Image /\ mark = NoImage /\ copy = NoImage

Write == source' \in Image /\ UNCHANGED <<mark, copy>>

Begin == mark = NoImage /\ mark' = source /\ UNCHANGED <<source, copy>>

End == mark # NoImage /\ mark' = NoImage /\ copy' \in {mark, source} /\ UNCHANGED source

Abandon == mark # NoImage /\ mark' = NoImage /\ UNCHANGED <<source, copy>>

Next == Write \/ Begin \/ End \/ Abandon

Spec == Init /\ [][Next]_vars

=============================================================================
