--------------------------- MODULE MCFileBlocks ---------------------------
(* A small instance of FileBlocks for TLC: four blocks of two bytes.       *)
EXTENDS FileBlocks

TwoBytes == {0, 7}

===========================================================================
