----------------------------- MODULE MCUnmount -----------------------------
(* Two containers, one of them with an idle timeout, and a file system of  *)
(* somebody else's, which take turns at one mountpoint.                    *)
EXTENDS Unmount

=============================================================================
