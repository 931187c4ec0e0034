---------------------------- MODULE NodeManager ----------------------------
(***************************************************************************)
(* The registration and heartbeats of nodes, internal/controller/          *)
(* node_manager.go.  Each accepted connection is served by a goroutine of  *)
(* its own (handleNodeConnection): a handshake that may fail, then the     *)
(* loop that reads heartbeats.  A node may come back on a new connection   *)
(* while the old one has not ended, so several goroutines may speak for    *)
(* one node.                                                               *)
(*                                                                         *)
(* Changes of the nodes map happen under nodesMtx and are one step each.   *)
(* What the map holds besides the status (clients, GPUs) is left out.      *)
(***************************************************************************)
EXTENDS Integers, FiniteSets

CONSTANTS
  Nodes,     \* node names
  Conns      \* the connections ever accepted

VARIABLES
  status,    \* Status of each node in the map, "absent" if it is not there
  conn,      \* the goroutine of each connection
  peer,      \* the node name a connection's hello led to
  crashed    \* connections whose node died without closing them

nodeVars == <<status, conn, peer, crashed>>

NodeInit ==
  /\ status = [n \in Nodes |-> "absent"]
  /\ conn = [c \in Conns |-> "none"]
  /\ peer \in [Conns -> Nodes]
  /\ crashed = {}

(* The hello message gives the name; the daemon's pod may replace it.      *)
Accept(c) ==
  /\ conn[c] = "none"
  /\ conn' = [conn EXCEPT ![c] = "handshake"]
  /\ UNCHANGED <<status, peer, crashed>>

(* Reading the hello, the ack, the health check or the list of GPUs fails. *)
HandshakeFails(c) ==
  /\ conn[c] = "handshake"
  /\ conn' = [conn EXCEPT ![c] = "closed"]
  /\ UNCHANGED <<status, peer, crashed>>

(* The node is created or replaced.                                        *)
Register(c) ==
  /\ conn[c] = "handshake"
  /\ status' = [status EXCEPT ![peer[c]] = "Ready"]
  /\ conn' = [conn EXCEPT ![c] = "heartbeat"]
  /\ UNCHANGED <<peer, crashed>>

UpdateHeartbeat(n) ==
  status' = IF status[n] # "absent" THEN [status EXCEPT ![n] = "Ready"] ELSE status

Heartbeat(c) ==
  /\ conn[c] = "heartbeat" /\ c \notin crashed
  /\ UpdateHeartbeat(peer[c])
  /\ UNCHANGED <<conn, peer, crashed>>

(* Faults: the node keeps its status, or is taken out of the map.          *)
MarkNothing(c) == UNCHANGED status
MarkAbsent(c) == status' = [status EXCEPT ![peer[c]] = "absent"]

MarkNotReady(c) == status' = [status EXCEPT ![peer[c]] = "NotReady"]

(* The connection ends, or its heartbeat cannot be decoded or says that    *)
(* the node is not alive.                                                  *)
EndConnection(c) ==
  /\ conn[c] = "heartbeat" /\ c \notin crashed
  /\ MarkNotReady(c)
  /\ conn' = [conn EXCEPT ![c] = "closed"]
  /\ UNCHANGED <<peer, crashed>>

(* The node or the network dies and nothing arrives any more, not even an  *)
(* end of the connection: ReadBytes has no deadline.                       *)
Crash(c) ==
  /\ conn[c] = "heartbeat"
  /\ crashed' = crashed \cup {c}
  /\ UNCHANGED <<status, conn, peer>>

NodeNext ==
  \E c \in Conns :
    \/ Accept(c) \/ HandshakeFails(c) \/ Register(c)
    \/ Heartbeat(c) \/ EndConnection(c) \/ Crash(c)

NodeSpec == NodeInit /\ [][NodeNext]_nodeVars

(* A daemon that is up goes on sending heartbeats.                         *)
FairNodeSpec == NodeSpec /\ \A c \in Conns : WF_nodeVars(Heartbeat(c))

-----------------------------------------------------------------------------
(* Properties.                                                             *)

(* The statuses of node_manager.go and the stages of a connection.         *)
NodeTypeOK ==
  /\ status \in [Nodes -> {"absent", "Ready", "NotReady"}]
  /\ conn \in [Conns -> {"none", "handshake", "heartbeat", "closed"}]
  /\ peer \in [Conns -> Nodes]
  /\ crashed \subseteq Conns

Serves(c, n) == peer[c] = n /\ conn[c] = "heartbeat"

(* A goroutine that reads heartbeats always finds its node in the map,     *)
(* whatever the other connections of that node do: the error of            *)
(* UpdateHeartbeat, which handleNodeConnection does not look at, is never  *)
(* returned.                                                               *)
HeartbeatFindsNode == \A c \in Conns : conn[c] = "heartbeat" => status[peer[c]] # "absent"

(* GetConfigs only uses nodes that are Ready.  A Ready node has a          *)
(* connection that has not ended: of several connections the last to end   *)
(* leaves the node NotReady, although each may have made it Ready again.   *)
ReadyIsServed == \A n \in Nodes : status[n] = "Ready" => \E c \in Conns : Serves(c, n)

(* The inductive invariant of the two.                                     *)
NodeInv == NodeTypeOK /\ HeartbeatFindsNode /\ ReadyIsServed

(* The end of an old connection marks the node NotReady although a new one *)
(* serves it; the node becomes Ready again while that one lasts.           *)
ServedBecomesReady ==
  \A c \in Conns :
    conn[c] = "heartbeat" ~> (status[peer[c]] = "Ready" \/ conn[c] = "closed" \/ c \in crashed)

(* A node none of whose connections brings heartbeats any more is noticed: *)
(* "marks them NotReady if heartbeat is too old".                          *)
SilenceIsNoticed ==
  \A n \in Nodes :
    (status[n] = "Ready" /\ \A c \in Conns : Serves(c, n) => c \in crashed)
      ~> (status[n] = "NotReady" \/ \E c \in Conns : Serves(c, n) /\ c \notin crashed)
=============================================================================
