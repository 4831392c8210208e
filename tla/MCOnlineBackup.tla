--------------------------- MODULE MCOnlineBackup ---------------------------
(* Containers of one page or two, so that a write falls between the pages  *)
(* and the container grows and shrinks meanwhile; two clients, of which    *)
(* one may wait for the other.                                             *)
EXTENDS OnlineBackup, TLC

=============================================================================
