--------------------------- MODULE MCIndexHistory ---------------------------
(* The instance of MCIndex, with every edit, fault and kill at any moment. *)
EXTENDS MCIndex, IndexHistory
=============================================================================
