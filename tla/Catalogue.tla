----------------------------- MODULE Catalogue -----------------------------
(***************************************************************************)
(* Listing, deleting and serving VMs: VirtualMachinesService over its      *)
(* table, the registration of the machines that serve VMs, and what the    *)
(* gateway does when a VM is deleted under its machine.                    *)
(*                                                                         *)
(* Of a rental only what deletion sees of it is here: that its row refers  *)
(* to the VM.  Whatever building, ending and destroying write to a VM that *)
(* was let is one permissive action, Serve: RentalBackend has their steps. *)
(* The table of computers is left out; deleting a VM touches no row of it. *)
(***************************************************************************)
EXTENDS Naturals, FiniteSets

CONSTANTS Vms,           \* the VMs that are ever listed; each has its own token
          Machines,      \* providers' machines, each running a connector
          Tasks,         \* handlers in flight at a time
          MaxSessions,   \* bound: connections a machine makes
          MaxConnections,\* bound: connections all machines make
          Statuses,      \* bound: the statuses providers and the handlers of rentals write
          NoVm

VmStatus == {"configuring", "available", "building", "running", "shutting_down", "offline", "failed"}

ASSUME CatalogueAssumption == /\ NoVm \notin Vms
                              /\ MaxSessions \in Nat /\ MaxConnections \in Nat
                              /\ Statuses \subseteq VmStatus

VARIABLES
    vms,        \* the table of VMs, with those not created yet and those deleted
    let,        \* the VMs to which the row of a rental refers
    machine,    \* each machine: the VM whose key it runs with, its connection
    socket,     \* the state of each connection
    clients,    \* connectedClients: the VM of each registered connection, or NoVm
    tasks,      \* the handlers in flight
    history     \* for the properties, see History
vars == <<vms, let, machine, socket, clients, tasks, history>>

Sockets == Machines \X (1..MaxSessions)
SocketState == {"unused", "open", "registering", "registered", "refused", "lost", "closed"}
VmRow == [at : {"new", "listed", "deleted"}, status : VmStatus]

\* A handler: of an event of a socket, or of a request; the VM it is about, and the
\* status it has read or is going to set.
NoSocket == <<NoVm, 0>>
Free == [kind |-> "none", at |-> "free", socket |-> NoSocket, vm |-> NoVm, status |-> "configuring"]
Handler(kind, at, s, v, status) ==
    [kind |-> kind, at |-> at, socket |-> s, vm |-> v, status |-> status]

\* VMs deleted while a machine served them or was being registered for them, VMs deleted
\* while a save of their status was pending; whether the process has ever ended.
History == [pulled : SUBSET Vms, overtaken : SUBSET Vms, ended : BOOLEAN]

Init == /\ vms = [v \in Vms |-> [at |-> "new", status |-> "configuring"]]
        /\ let = {}
        /\ machine = [m \in Machines |-> [key |-> NoVm, session |-> 0]]
        /\ socket = [s \in Sockets |-> "unused"]
        /\ clients = [s \in Sockets |-> NoVm]
        /\ tasks = [t \in Tasks |-> Free]
        /\ history = [pulled |-> {}, overtaken |-> {}, ended |-> FALSE]

Listed(v) == vms[v].at = "listed"
Served(v) == \E s \in Sockets : clients[s] = v
Handled(v) == \E t \in Tasks : tasks[t].kind \in {"register", "disconnect", "heartbeat"} /\ tasks[t].vm = v
Saving(v) == \E t \in Tasks : tasks[t].at = "save" /\ tasks[t].vm = v

Start(t, handler) == tasks[t].at = "free" /\ tasks' = [tasks EXCEPT ![t] = handler]
Goto(t, at) == tasks' = [tasks EXCEPT ![t].at = at]
End(t) == tasks' = [tasks EXCEPT ![t] = Free]

-----------------------------------------------------------------------------
(* Requests of providers and receivers. *)

\* POST /vms: a row with a token of its own, CONFIGURING.
CreateVm(v) ==
    /\ vms[v].at = "new"
    /\ vms' = [vms EXCEPT ![v].at = "listed"]
    /\ UNCHANGED <<let, machine, socket, clients, tasks, history>>

\* PATCH /vms/:id/status: any of the statuses, of a VM the provider once had.
PatchVm(t, v, status) ==
    /\ vms[v].at # "new"
    /\ Start(t, Handler("patch", "load", NoSocket, v, status))
    /\ UNCHANGED <<vms, let, machine, socket, clients, history>>

\* DELETE /vms/:id: the row is read and its owner compared, then it is deleted; rows of
\* rentals that refer to it make the database refuse.
DeleteVm(t, v) ==
    /\ Listed(v)
    /\ Start(t, Handler("delete", "delete", NoSocket, v, "configuring"))
    /\ UNCHANGED <<vms, let, machine, socket, clients, history>>

\* Mutant: the rentals do not hold the VM.
AlwaysUnreferred(v) == TRUE
Unreferred(v) == v \notin let

DeleteRow(t) ==
    LET v == tasks[t].vm IN
    /\ tasks[t].at = "delete"
    /\ IF Listed(v) /\ Unreferred(v)
       THEN /\ vms' = [vms EXCEPT ![v].at = "deleted"]
            /\ history' = [history EXCEPT
                   !.pulled = IF Served(v) \/ Handled(v) THEN @ \cup {v} ELSE @,
                   !.overtaken = IF Saving(v) THEN @ \cup {v} ELSE @]
       ELSE UNCHANGED <<vms, history>>
    /\ End(t)
    /\ UNCHANGED <<let, machine, socket, clients>>

\* POST /rentals: the VM is checked, then the rental is inserted, which fails when the
\* VM is gone.
CreateRental(t, v) ==
    /\ Listed(v) /\ vms[v].status = "available"
    /\ Start(t, Handler("rent", "insert", NoSocket, v, "available"))
    /\ UNCHANGED <<vms, let, machine, socket, clients, history>>

InsertRental(t) ==
    /\ tasks[t].at = "insert"
    /\ let' = IF Listed(tasks[t].vm) THEN let \cup {tasks[t].vm} ELSE let
    /\ End(t)
    /\ UNCHANGED <<vms, machine, socket, clients, history>>

\* The rest of a rental, from the order to build to the report of the destruction: any
\* of its handlers, or several of them, save a status in the row of a VM that was let.
Serve(v, status) ==
    /\ v \in let /\ Listed(v)
    /\ vms' = [vms EXCEPT ![v].status = status]
    /\ UNCHANGED <<let, machine, socket, clients, tasks, history>>

-----------------------------------------------------------------------------
(* Machines and their connections. *)

\* The provider starts the connector with the key of a VM, perhaps of one that has been
\* deleted since.
Launch(m, v) ==
    /\ machine[m].session = 0 /\ vms[v].at # "new"
    /\ machine' = [machine EXCEPT ![m].key = v]
    /\ UNCHANGED <<vms, let, socket, clients, tasks, history>>

\* The connector connects; its last connection may still be lingering.
Connect(m) ==
    /\ machine[m].key # NoVm /\ machine[m].session = 0
    /\ Cardinality({s \in Sockets : socket[s] # "unused"}) < MaxConnections
    /\ \E n \in 1..MaxSessions :
          /\ socket[<<m, n>>] = "unused" /\ \A i \in 1..(n - 1) : socket[<<m, i>>] # "unused"
          /\ machine' = [machine EXCEPT ![m].session = n]
          /\ socket' = [socket EXCEPT ![<<m, n>>] = "open"]
    /\ UNCHANGED <<vms, let, clients, tasks, history>>

\* The connection fails, or the connector is stopped, also while it is being registered.
Lose(m) ==
    /\ machine[m].session # 0
    /\ machine' = [machine EXCEPT ![m].session = 0]
    /\ socket' = [socket EXCEPT ![<<m, machine[m].session>>] = "lost"]
    /\ UNCHANGED <<vms, let, clients, tasks, history>>

-----------------------------------------------------------------------------
(* The gateway. *)

\* Mutant: any key is registered.
HandleClientConnectedAny(t, m) ==
    LET s == <<m, machine[m].session>>
        v == machine[m].key
    IN  /\ machine[m].session # 0 /\ socket[s] = "open"
        /\ socket' = [socket EXCEPT ![s] = "registering"]
        /\ Start(t, Handler("register", "link", s, v, vms[v].status))
        /\ UNCHANGED <<vms, let, machine, clients, history>>

\* client_connected, sent once per connection: the VM of the key is looked up, and its
\* computer registered.  A key of no VM is answered with an error, which the connector
\* only logs.
HandleClientConnected(t, m) ==
    LET s == <<m, machine[m].session>>
        v == machine[m].key
    IN  /\ machine[m].session # 0 /\ socket[s] = "open"
        /\ socket' = [socket EXCEPT ![s] = IF Listed(v) THEN "registering" ELSE "refused"]
        /\ IF Listed(v)
           THEN Start(t, Handler("register", "link", s, v, vms[v].status))
           ELSE tasks[t].at = "free" /\ UNCHANGED tasks
        /\ UNCHANGED <<vms, let, machine, clients, history>>

\* Mutant: the computer's word for a machine that is back is written to the VM.
RevivedAs == "connected"
Revived == "available"

\* setPhysicalComputer and setCurrentVM, of which nothing is kept here; then a VM that
\* was read CONFIGURING, OFFLINE or FAILED is made AVAILABLE.
SetPhysicalComputer(t) ==
    LET revive == tasks[t].status \in {"configuring", "offline", "failed"} IN
    /\ tasks[t].at = "link"
    /\ tasks' = [tasks EXCEPT ![t].at = IF revive THEN "load" ELSE "store",
                              ![t].status = IF revive THEN Revived ELSE @]
    /\ UNCHANGED <<vms, let, machine, socket, clients, history>>

\* The state of a connection whose registration is over, unless it is lost by now.
Answered(s, state) == IF socket[s] = "registering" THEN state ELSE socket[s]

\* The entry is made whether or not the connection is still there.
StoreClient(t) ==
    LET s == tasks[t].socket IN
    /\ tasks[t].at = "store"
    /\ clients' = [clients EXCEPT ![s] = tasks[t].vm]
    /\ socket' = [socket EXCEPT ![s] = Answered(s, "registered")]
    /\ End(t)
    /\ UNCHANGED <<vms, let, machine, history>>

\* The process ends, with the registry and the handlers; it is started again, and the
\* connectors find their connections gone.
EndProcess ==
    /\ clients' = [s \in Sockets |-> NoVm]
    /\ tasks' = [t \in Tasks |-> Free]
    /\ socket' = [s \in Sockets |-> IF socket[s] = "unused" THEN "unused" ELSE "closed"]
    /\ machine' = [m \in Machines |-> [machine[m] EXCEPT !.session = 0]]
    /\ history' = [history EXCEPT !.ended = TRUE]
    /\ UNCHANGED <<vms, let>>

\* findOne has thrown: the registration is answered with an error, the request with 404,
\* the heartbeat with an exception; handleDisconnect is called by nobody who would
\* catch, and Node ends.
Throw(t) ==
    \/ /\ tasks[t].kind = "register"
       /\ socket' = [socket EXCEPT ![tasks[t].socket] = Answered(tasks[t].socket, "refused")]
       /\ End(t) /\ UNCHANGED <<vms, let, machine, clients, history>>
    \/ /\ tasks[t].kind \in {"heartbeat", "patch"}
       /\ End(t) /\ UNCHANGED <<vms, let, machine, socket, clients, history>>
    \/ tasks[t].kind = "disconnect" /\ EndProcess

\* Mutant: updateStatus goes on with the row it was given before.
LoadVmUnchecked(t) ==
    /\ tasks[t].at = "load"
    /\ Goto(t, "save")
    /\ UNCHANGED <<vms, let, machine, socket, clients, history>>

\* updateStatus: the row is loaded, then saved with the status; save inserts a row that
\* is not there any more.
LoadVm(t) ==
    /\ tasks[t].at = "load"
    /\ IF Listed(tasks[t].vm)
       THEN Goto(t, "save") /\ UNCHANGED <<vms, let, machine, socket, clients, history>>
       ELSE Throw(t)

SaveVm(t) ==
    LET next == [register |-> "store", disconnect |-> "forget"] IN
    /\ tasks[t].at = "save"
    /\ vms' = [vms EXCEPT ![tasks[t].vm] = [at |-> "listed", status |-> tasks[t].status]]
    /\ IF tasks[t].kind \in DOMAIN next THEN Goto(t, next[tasks[t].kind]) ELSE End(t)
    /\ UNCHANGED <<let, machine, socket, clients, history>>

\* The disconnect callback of a lost connection; a connection without an entry is closed.
HandleDisconnect(t, s) ==
    LET v == clients[s] IN
    /\ socket[s] = "lost"
    /\ socket' = [socket EXCEPT ![s] = "closed"]
    /\ IF v = NoVm THEN tasks[t].at = "free" /\ UNCHANGED tasks
       ELSE Start(t, Handler("disconnect", "look", s, v, "offline"))
    /\ UNCHANGED <<vms, let, machine, clients, history>>

\* The VM is looked up for its next status.
LookUpVm(t) ==
    LET v == tasks[t].vm
        next == IF vms[v].status \in {"running", "building", "shutting_down"} THEN "offline"
                ELSE vms[v].status
    IN  /\ tasks[t].at = "look"
        /\ IF Listed(v)
           THEN /\ tasks' = [tasks EXCEPT ![t].at = "load", ![t].status = next]
                /\ UNCHANGED <<vms, let, machine, socket, clients, history>>
           ELSE Throw(t)

\* The entry of the connection goes, after the rental has been closed.
ForgetClient(t) ==
    /\ tasks[t].at = "forget"
    /\ clients' = [clients EXCEPT ![tasks[t].socket] = NoVm]
    /\ End(t)
    /\ UNCHANGED <<vms, let, machine, socket, history>>

\* heartbeat: a VM that is OFFLINE without a rental is taken back; findOne throws when it
\* is gone, and a heartbeat of no entry is ignored.
HandleHeartbeat(t, s) ==
    LET v == clients[s] IN
    /\ socket[s] = "registered" /\ v # NoVm
    /\ Listed(v) /\ vms[v].status = "offline"
    /\ Start(t, Handler("heartbeat", "load", s, v, "available"))
    /\ UNCHANGED <<vms, let, machine, socket, clients, history>>

-----------------------------------------------------------------------------
HandlerStep(t) ==
    \/ DeleteRow(t) \/ InsertRental(t) \/ SetPhysicalComputer(t) \/ LoadVm(t) \/ SaveVm(t)
    \/ StoreClient(t) \/ LookUpVm(t) \/ ForgetClient(t)

Next == \/ \E v \in Vms : CreateVm(v) \/ \E status \in Statuses : Serve(v, status)
        \/ \E t \in Tasks :
              \/ HandlerStep(t)
              \/ \E v \in Vms : \/ DeleteVm(t, v) \/ CreateRental(t, v)
                                \/ \E status \in Statuses : PatchVm(t, v, status)
              \/ \E m \in Machines : HandleClientConnected(t, m)
              \/ \E s \in Sockets : HandleDisconnect(t, s) \/ HandleHeartbeat(t, s)
        \/ \E m \in Machines : Connect(m) \/ Lose(m) \/ \E v \in Vms : Launch(m, v)

Spec == Init /\ [][Next]_vars
=============================================================================
