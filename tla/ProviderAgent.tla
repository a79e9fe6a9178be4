---------------------------- MODULE ProviderAgent ----------------------------
(***************************************************************************)
(* The connector that runs on a provider's machine                         *)
(* (agent_lifecycle_debug.py) and the sockets between it and the backend.  *)
(*                                                                         *)
(* A socket is open, then lost (the connector has noticed, the server has  *)
(* not), then closed (the server has run its disconnect callback); the     *)
(* server may so keep a dead socket while the connector is already back on *)
(* the next one.  Each direction of a socket is a FIFO that may be cut     *)
(* short by the loss; nothing is sent twice.                               *)
(***************************************************************************)
EXTENDS HiveRecords

CONSTANTS MaxBuilds,   \* bound: provisionings one connector runs at a time
          Lingering,   \* whether a connector may be back before the server
                       \* has given its previous socket up
          EarlyLoss    \* whether a connection may fail before the backend
                       \* has acknowledged its registration

ASSUME AgentAssumption ==
  MaxBuilds \in Nat /\ Lingering \in BOOLEAN /\ EarlyLoss \in BOOLEAN

VARIABLES agent,   \* the globals of each connector
          line,    \* the state of each socket
          up,      \* messages on the way to the backend, per socket
          down     \* messages on the way to the connector, per socket

agentVars == <<agent, line, up, down>>

\* session: the socket the connector is on, 0 when it is not connected.
\* builds: provision_vm handlers waiting for vagrant up.
AgentState == [session : 0 .. MaxSessions, registered : BOOLEAN,
               currentVm : Vms \cup {None}, builds : 0 .. MaxBuilds]

LineState == {"unused", "open", "lost", "closed"}

AgentTypeOK ==
  /\ agent \in [Vms -> AgentState]
  /\ line \in [Sockets -> LineState]
  /\ up \in [Sockets -> Seq(UpMessage)]
  /\ down \in [Sockets -> Seq(DownMessage)]

AgentInit ==
  /\ agent = [v \in Vms |-> [session |-> 0, registered |-> FALSE,
                             currentVm |-> None, builds |-> 0]]
  /\ line = [s \in Sockets |-> "unused"]
  /\ up = [s \in Sockets |-> <<>>]
  /\ down = [s \in Sockets |-> <<>>]

-----------------------------------------------------------------------------
Online(v) == agent[v].session # 0
SocketOf(v) == <<v, agent[v].session>>

\* sio.emit on the current connection; without one the event goes nowhere.
SendUp(v, messages) ==
  up' = IF Online(v) THEN [up EXCEPT ![SocketOf(v)] = @ \o messages] ELSE up

\* The next event the connector of v handles is of this type.
Receives(v, type) ==
  /\ Online(v)
  /\ down[SocketOf(v)] # <<>>
  /\ Head(down[SocketOf(v)]).type = type

Received(v) == Head(down[SocketOf(v)])
Consume(v) == down' = [down EXCEPT ![SocketOf(v)] = Tail(@)]

\* connect_to_backend, then the connect event: register on a fresh socket.
AgentConnect(v) ==
  \E n \in 1 .. MaxSessions :
    /\ ~Online(v)
    /\ line[<<v, n>>] = "unused"
    /\ \A m \in 1 .. n - 1 :
         line[<<v, m>>] \in (IF Lingering THEN {"lost", "closed"} ELSE {"closed"})
    /\ line' = [line EXCEPT ![<<v, n>>] = "open"]
    /\ agent' = [agent EXCEPT ![v].session = n, ![v].registered = FALSE]
    /\ up' = [up EXCEPT ![<<v, n>>] = <<Message("client_connected", None)>>]
    /\ UNCHANGED down

\* The transport fails; events the backend still had for the connector are gone.
LoseConnection(v) ==
  /\ Online(v)
  /\ EarlyLoss \/ agent[v].registered
  /\ line' = [line EXCEPT ![SocketOf(v)] = "lost"]
  /\ down' = [down EXCEPT ![SocketOf(v)] = <<>>]
  /\ agent' = [agent EXCEPT ![v].session = 0, ![v].registered = FALSE]
  /\ UNCHANGED up

\* on_connection_acknowledged.
AgentAcknowledged(v) ==
  /\ Receives(v, "connection_acknowledged")
  /\ agent' = [agent EXCEPT ![v].registered = TRUE,
                            ![v].currentVm = Received(v).vm]
  /\ Consume(v)
  /\ UNCHANGED <<line, up>>

\* on_provision_vm up to vagrant up, which runs in an executor thread.
AgentProvision(v) ==
  /\ Receives(v, "provision_vm")
  /\ agent[v].builds < MaxBuilds
  /\ agent' = [agent EXCEPT ![v].currentVm = Received(v).vm, ![v].builds = @ + 1]
  /\ Consume(v)
  /\ SendUp(v, <<Message("vm_provisioning_started", Received(v).vm)>>)
  /\ UNCHANGED line

\* vagrant up returned: the result is reported for whatever current_vm_id is now.
AgentProvisionDone(v, result) ==
  /\ agent[v].builds > 0
  /\ agent' = [agent EXCEPT ![v].builds = @ - 1]
  /\ SendUp(v, <<Message(result, agent[v].currentVm)>>)
  /\ UNCHANGED <<line, down>>

\* Mutant: the connector does not report that the VM is gone.
AgentDestroySilent(v) ==
  /\ Receives(v, "destroy_vm")
  /\ agent' = [agent EXCEPT ![v].currentVm = None]
  /\ Consume(v)
  /\ UNCHANGED <<line, up>>

\* on_destroy_vm: vagrant destroy blocks the event loop, so this is one step.
AgentDestroy(v) ==
  /\ Receives(v, "destroy_vm")
  /\ agent' = [agent EXCEPT ![v].currentVm = None]
  /\ Consume(v)
  /\ SendUp(v, <<Message("vm_destroyed", Received(v).vm)>>)
  /\ UNCHANGED line

\* One round of heartbeat_loop; at most one heartbeat is on its way at a time.
AgentHeartbeat(v) ==
  /\ Online(v)
  /\ agent[v].registered
  /\ \A i \in DOMAIN up[SocketOf(v)] : up[SocketOf(v)][i].type # "heartbeat"
  /\ SendUp(v, <<Message("heartbeat", None)>>)
  /\ UNCHANGED <<agent, line, down>>

AgentStep(v) ==
  \/ AgentAcknowledged(v)
  \/ AgentProvision(v)
  \/ \E result \in {"vm_provisioned", "vm_provisioning_failed"} :
       AgentProvisionDone(v, result)
  \/ AgentDestroy(v)
=============================================================================
