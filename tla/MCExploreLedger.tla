--------------------------- MODULE MCExploreLedger ---------------------------
(* Three calls on two files of two lines that have two versions.             *)
EXTENDS ExploreLedger
CONSTANTS one, two, three, f, g, x, y

Whole(p) == [path |-> p, first |-> 1, last |-> 2]
Line(p, l) == [path |-> p, first |-> l, last |-> l]
Of(tool, wants) == [tool |-> tool, wants |-> wants]

MCAsks ==
  {[k \in {one, two, three} |-> IF k = one THEN p ELSE IF k = two THEN q ELSE r] :
     p \in {Of("file", <<Whole(f)>>), Of("explore", <<Whole(f), Whole(g)>>), Of("grep", <<Line(f, 1)>>)},
     q \in {Of("node", <<Line(f, 1), Line(g, 2)>>), Of("explore", <<Whole(f)>>)},
     r \in {Of("grep", <<Whole(f)>>), Of("explore", <<Whole(f), Whole(g)>>), Of("variant", <<Line(f, 2)>>)}}
=============================================================================
