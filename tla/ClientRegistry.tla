--------------------------- MODULE ClientRegistry ---------------------------
(***************************************************************************)
(* What the connection list of the CSM server promises the rest of the     *)
(* program, without SOCKET values, messages or the order of entries: which *)
(* machines are listed, which connection each of them is reached on, and   *)
(* from which connections history rows are accepted.                       *)
(*                                                                         *)
(* CSMListenerRefinement states that CSMListener implements it.            *)
(***************************************************************************)
EXTENDS Sequences

CONSTANTS Hosts, Conns

VARIABLES
  listed,  \* machines that are in the list; a machine is never taken out
  serves,  \* the connection a machine is reached on: a set of at most one
  life,    \* of each connection
  shown    \* the connections whose rows the window shows, in order

registryVars == <<listed, serves, life, shown>>

Init ==
  /\ listed = {}
  /\ serves = [h \in Hosts |-> {}]
  /\ life = [c \in Conns |-> "new"]
  /\ shown = <<>>

Free(c) == \A h \in Hosts : c \notin serves[h]

(* A connection is accepted.  It may inherit the place of a listed machine   *)
(* whose own connection has ended: the two were given one SOCKET value.      *)
Accept(c) ==
  /\ life[c] = "new"
  /\ life' = [life EXCEPT ![c] = "open"]
  /\ \/ UNCHANGED serves
     \/ \E h \in listed : /\ serves[h] = {}
                          /\ serves' = [serves EXCEPT ![h] = {c}]
  /\ UNCHANGED <<listed, shown>>

(* A machine registers on a connection that serves no machine yet, and is    *)
(* reached there from now on, wherever it was reached before.                *)
Register(h, c) ==
  /\ life[c] = "open"
  /\ Free(c)
  /\ listed' = listed \cup {h}
  /\ serves' = [serves EXCEPT ![h] = {c}]
  /\ UNCHANGED <<life, shown>>

(* A row from a connection that serves a machine *)
Show(c) ==
  /\ life[c] = "open"
  /\ ~Free(c)
  /\ shown' = Append(shown, c)
  /\ UNCHANGED <<listed, serves, life>>

(* A connection ends; the machine it served stays listed, unreachable *)
End(c) ==
  /\ life[c] = "open"
  /\ life' = [life EXCEPT ![c] = "ended"]
  /\ serves' = [h \in Hosts |-> serves[h] \ {c}]
  /\ UNCHANGED <<listed, shown>>

(* The server stops *)
Shutdown ==
  /\ life' = [c \in Conns |-> "ended"]
  /\ serves' = [h \in Hosts |-> {}]
  /\ UNCHANGED <<listed, shown>>

Next ==
  \/ Shutdown
  \/ \E c \in Conns : \/ Accept(c) \/ Show(c) \/ End(c)
                      \/ \E h \in Hosts : Register(h, c)

Spec == Init /\ [][Next]_registryVars

=============================================================================
