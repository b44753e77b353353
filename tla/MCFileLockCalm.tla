--------------------------- MODULE MCFileLockCalm ---------------------------
(* The instance of MCFileLock, in any interleaving. *)
EXTENDS MCFileLock, FileLockCalm
=============================================================================
