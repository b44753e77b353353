-------------------------- MODULE MCIndexStability --------------------------
(* Three files; two texts define b, so that an edit from one to the other     *)
(* leaves every symbol in place, and one refers to it twice, by its bare name *)
(* and by a qualified one.                                                    *)
EXTENDS IndexStability, TLC

CONSTANTS left, right, third, a, b, qualified, definition, edited, call

MCFile == {left, right, third}
MCSymmetry == Permutations(MCFile)

MCName == {a, b}
MCWritten == {a, b, qualified}
MCBare == [w \in MCWritten |-> IF w = qualified THEN b ELSE w]
MCText == {definition, edited, call}
MCDefines == [t \in MCText |-> IF t = call THEN {a} ELSE {b}]
MCUses == [t \in MCText |-> IF t = call THEN {<<a, b>>, <<a, qualified>>} ELSE {}]

=============================================================================
