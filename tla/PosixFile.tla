------------------------------ MODULE PosixFile ------------------------------
(***************************************************************************)
(* What a regular file promises, whatever stores it: a sequence of bytes   *)
(* that a write overwrites in place and a truncate cuts or extends, where  *)
(* every byte nobody wrote reads as zero.                                  *)
(***************************************************************************)
EXTENDS Integers, Sequences

CONSTANTS Byte,     \* the bytes; 0 is the one a hole reads as
          MaxLen,   \* the largest length of a file
          MaxWrite  \* the longest data of one write

VARIABLE content    \* a sequence of bytes

Payloads == UNION {[1..n -> Byte] : n \in 1..MaxWrite}

Init == content = <<>>

(* The file of length n that agrees with `content`, zeros past its end. *)
Resized(n) ==
  [k \in 1..n |-> IF k <= Len(content) THEN content[k] ELSE 0]

Write(off, d) ==
  LET end == off + Len(d)
      n == IF end > Len(content) THEN end ELSE Len(content)
  IN  content' = [k \in 1..n |-> IF off < k /\ k <= end THEN d[k - off] ELSE Resized(n)[k]]

Truncate(n) == content' = Resized(n)

Next ==
  \/ \E off \in 0..MaxLen, d \in Payloads : off + Len(d) <= MaxLen /\ Write(off, d)
  \/ \E n \in 0..MaxLen : Truncate(n)

Spec == Init /\ [][Next]_content

=============================================================================
