------------------------------ MODULE MCWatcher ------------------------------
(* Two files, each of them there or not when the watcher starts. *)
EXTENDS Watcher, TLC

CONSTANTS left, right, root
MCFile == {left, right}
Symmetry == Permutations(MCFile)
=============================================================================
