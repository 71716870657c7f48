------------------------ MODULE MCSemanticWorkspace ------------------------
(* Instances of SemanticWorkspace for TLC *)
EXTENDS SemanticWorkspace, TLC
Alike == Permutations(Context) \cup Permutations(File) \cup Permutations(Value \ {Initial})
=============================================================================
