------------------------- MODULE MCFileListRequest -------------------------
(* Instances of FileListRequest for TLC *)
EXTENDS FileListRequest, TLC

CONSTANTS r1, r2, r3, docs, music, missing

ThreeRequests == {r1, r2, r3}
ThreeFolders  == {docs, music, missing}
TwoFolders    == {docs, music}

Symmetry == Permutations(ThreeRequests) \cup Permutations(TwoFolders)
=============================================================================
