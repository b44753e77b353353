------------------------------- MODULE MCIndex -------------------------------
(* Two files; one text defines b, one refers to it by its bare name and by a  *)
(* qualified one.                                                             *)
EXTENDS Index

CONSTANTS left, right, a, b, qualified, definition, call

MCFile == {left, right}
MCName == {a, b}
MCWritten == {a, b, qualified}
MCBare == [w \in MCWritten |-> IF w = qualified THEN b ELSE w]
MCText == {definition, call}
MCDefines == [t \in MCText |-> IF t = definition THEN {b} ELSE {a}]
MCUses == [t \in MCText |-> IF t = definition THEN {}
                            ELSE {<<a, b>>, <<a, qualified>>}]

=============================================================================
