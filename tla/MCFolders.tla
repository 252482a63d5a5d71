----------------------------- MODULE MCFolders -----------------------------
EXTENDS FoldersProps, TLC
Symmetry == Permutations(Req) \cup Permutations(Slot) \cup Permutations(Folder)
=============================================================================
