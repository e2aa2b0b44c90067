-------------------------- MODULE MCWorkspacePage --------------------------
EXTENDS WorkspacePage, TLC
Alike == Permutations(Drafts) \union Permutations(Folders)
=============================================================================
