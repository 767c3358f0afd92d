---------------------------- MODULE MCCSMConnect ----------------------------
(* Instances of CSMConnect for TLC *)
EXTENDS CSMConnect

CONSTANTS s1, s2

OneSocket  == {s1}
TwoSockets == {s1, s2}
=============================================================================
