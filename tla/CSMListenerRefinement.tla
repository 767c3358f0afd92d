----------------------- MODULE CSMListenerRefinement -----------------------
(***************************************************************************)
(* CSMListener implements ClientRegistry: the refinement mapping reads the *)
(* list's SOCKET values as the connections they denote at the moment.      *)
(***************************************************************************)
EXTENDS CSMListener

Listed == {h \in Hosts :
             \E i \in DOMAIN m_arrClientInfo : m_arrClientInfo[i].HostName = h}

(* the connections the entries of machine h lead to *)
Reached(h) == {c \in Conns :
                 \E i \in DOMAIN m_arrClientInfo :
                   /\ m_arrClientInfo[i].HostName = h
                   /\ sockets[m_arrClientInfo[i].ConnSock] = c}

Serves == [h \in Hosts |-> Reached(h)]

Life == [c \in Conns |-> CASE conn[c].st = "open"   -> "open"
                           [] conn[c].st = "closed" -> "ended"
                           [] OTHER                 -> "new"]

Registry == INSTANCE ClientRegistry
              WITH listed <- Listed, serves <- Serves, life <- Life,
                   shown <- m_lstWebHistory

(* Whatever SOCKET values Winsock reuses and in whatever order messages and  *)
(* queued events are handled, GetClientInfo and AddNewClient keep the list a *)
(* registry: a machine is reached on one connection at most, a connection    *)
(* serves one machine at most, a machine that registers takes only its own   *)
(* place, a place is emptied only when its connection ends, and a history    *)
(* row comes from a connection that serves a machine then.                   *)
ImplementsRegistry == Registry!Spec

=============================================================================
