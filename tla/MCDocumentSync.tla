--------------------------- MODULE MCDocumentSync ---------------------------
EXTENDS DocumentSync
Symmetry == Permutations(Syncs) \union Permutations(Docs)
=============================================================================
