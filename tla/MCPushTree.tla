----------------------------- MODULE MCPushTree -----------------------------
(***************************************************************************)
(* A local directory with a file, and a directory that may hold another.   *)
(***************************************************************************)
EXTENDS PushTree

CONSTANTS sub, a, b

MCIn == [e \in Entries |-> IF e = b THEN sub ELSE Root]
MCRank == [e \in Entries |-> CASE e = a -> 1 [] e = sub -> 2 [] e = b -> 3]
MCSizes == [f \in Files |-> IF f = a THEN {0, 3} ELSE {2}]
=============================================================================
