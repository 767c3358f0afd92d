--------------------------- MODULE MCUpdateReport ---------------------------
(* Instances of UpdateReport for TLC *)
EXTENDS UpdateReport, TLC

CONSTANTS cf, ff, exe, old, new

TwoGames == {cf, ff}
OneFile  == {exe}
Versions == {old, new}

(* The only file of one game is exempt, that of the other is not *)
OneExempt == [g \in Games |-> IF g = ff THEN {} ELSE Files]
=============================================================================
