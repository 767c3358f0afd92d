-------------------------- MODULE MCBlackListUpdate --------------------------
(* Three addresses, one of which is a pattern for another. *)
EXTENDS BlackListUpdate
CONSTANTS a, b, p
MCURL == {a, b, p}
MCMatches == {<<u, u>> : u \in MCURL} \cup {<<p, a>>}
MCLists == {<<a, b>>, <<p>>}
=============================================================================
