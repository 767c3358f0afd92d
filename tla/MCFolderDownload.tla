-------------------------- MODULE MCFolderDownload --------------------------
(* Instances of FolderDownload for TLC *)
EXTENDS FolderDownload, TLC

CONSTANTS page, r1, t1, t2

OneFile    == {page}
OneRound   == {r1}
TwoThreads == {t1, t2}

(* two versions of the same size, and an empty one *)
Sizes == [f \in Files |-> [v \in Versions |-> IF v = 3 THEN 0 ELSE 2]]
=============================================================================
