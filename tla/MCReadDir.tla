----------------------------- MODULE MCReadDir -----------------------------
(* Five names and pages of up to two entries: three pages at least, two of *)
(* them behind names that come and go.                                     *)
EXTENDS ReadDir

FiveNames == 1..5

============================================================================
