---------------------------- MODULE MCWebHistory ----------------------------
EXTENDS WebHistory
CONSTANTS p1, p2
MCPlace == {p1, p2}
=============================================================================
