--------------------------- MODULE MCCSMListener ---------------------------
(* Instances of CSMListener for TLC *)
EXTENDS CSMListenerRefinement, TLC

CONSTANTS h1, h2, c1, c2, s1, s2

OneHost  == {h1}
TwoHosts == {h1, h2}
TwoConns == {c1, c2}
TwoHandles == {s1, s2}

(* the messages of the CSM client *)
ClientInfoMsg == [cmd |-> "VCM_CLIENTINFO", len |-> "even"]
PingMsg       == [cmd |-> "VCM_PING", len |-> "zero"]
HistoryMsg    == [cmd |-> "VCM_WEB_HISTORY", len |-> "even"]
ClientMsgs    == {ClientInfoMsg, PingMsg, HistoryMsg}
Registrations == {ClientInfoMsg, PingMsg}

(* and what any other program that connects to the port may send *)
AllMsgs == ClientMsgs \cup
  {[cmd |-> "out_of_range", len |-> "zero"],
   [cmd |-> "VCM_PING", len |-> "negative"],
   [cmd |-> "VCM_WEB_HISTORY", len |-> "odd"]}

Symmetry2 == Permutations(TwoConns) \cup Permutations(TwoHandles)
=============================================================================
