--------------------------- MODULE MCAnalysisCache ---------------------------
(* A command line user, and the MCP server's history tool, which always asks *)
(* for the cached default graph.                                             *)
EXTENDS CacheUse, TLC
CONSTANTS command, tool, before, after

Request(fields, diff, useCache) == [fields |-> fields, diff |-> diff, useCache |-> useCache]

MCAsks ==
  [c \in Caller |->
     IF c = tool THEN {Request(FALSE, FALSE, TRUE)}
     ELSE {Request(FALSE, TRUE, TRUE), Request(TRUE, TRUE, TRUE), Request(FALSE, FALSE, FALSE)}]

MCVersion == {before, after}

\* Nothing is special about one state of the index; no property here is a liveness
\* property.
MCSymmetry == Permutations(MCVersion)
=============================================================================
