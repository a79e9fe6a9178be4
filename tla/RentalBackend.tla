---------------------------- MODULE RentalBackend ----------------------------
(***************************************************************************)
(* The rental backend: the tables, the WebSocket gateway and the rentals,  *)
(* virtual-machines and computers services, composed with the connectors.  *)
(*                                                                         *)
(* Node runs one handler until it awaits the database, so a step is the    *)
(* code between two awaits.  A handler is a task: the action that starts   *)
(* it makes its first read and its checks and leaves the calls still to    *)
(* make; the service calls below consume them.  repository.save writes     *)
(* back every column of an entity loaded earlier: such calls are a load    *)
(* and a save, with anything of the other tasks in between.                *)
(***************************************************************************)
EXTENDS ProviderAgent, FiniteSets

CONSTANTS Tasks,         \* handlers that can be in flight at once
          PatchTargets,  \* statuses a provider may PATCH a VM to
          Restarts       \* whether the backend process may restart

ASSUME BackendAssumption == PatchTargets \subseteq VMStatus /\ Restarts \in BOOLEAN

VARIABLES vms,       \* table virtual_machines
          computers, \* table physical_computers
          rentals,   \* table vm_rentals, in createdAt order
          clients,   \* connectedClients, in insertion order
          tasks      \* the handlers in flight

tables == <<vms, computers, rentals>>
vars == <<vms, computers, rentals, clients, tasks, agent, line, up, down>>

TypeOK ==
  /\ vms \in [Vms -> VmRow]
  /\ computers \in [Vms -> ComputerRow]
  /\ rentals \in Seq(RentalRow)
  /\ clients \in Seq(Sockets)
  /\ tasks \in [Tasks -> Task]
  /\ AgentTypeOK

Init ==
  /\ vms = [v \in Vms |-> [status |-> "configuring", linked |-> FALSE]]
  /\ computers = [v \in Vms |->
       [exists |-> FALSE, isConnected |-> FALSE, isAvailable |-> FALSE,
        status |-> "offline", hasCurrentVm |-> FALSE]]
  /\ rentals = <<>>
  /\ clients = <<>>
  /\ tasks = [t \in Tasks |-> Idle]
  /\ AgentInit

-----------------------------------------------------------------------------
(* Tasks.                                                                  *)

Free(t) == tasks[t] = Idle
AllFree == \A t \in Tasks : Free(t)
Start(t, task) == Free(t) /\ tasks' = [tasks EXCEPT ![t] = task]

Calling(t, op) == tasks[t].todo # <<>> /\ Head(tasks[t].todo).op = op
Argument(t) == Head(tasks[t].todo).to
Later(t) == Tail(tasks[t].todo)

\* The head call has returned and the calls in rest are left.
ContinueWith(t, rest) ==
  tasks' = [tasks EXCEPT ![t] =
    IF rest = <<>> THEN Idle
    ELSE [@ EXCEPT !.todo = rest, !.vmRow = None, !.computerRow = None,
                   !.rentalRow = None]]
Return(t) == ContinueWith(t, Later(t))

\* What findOne returns for an id: TypeORM drops a null id from the WHERE
\* clause, so the first row of the table, whichever that is, is returned.
FoundBy(id) == IF id = None THEN Vms ELSE {id} \cap Vms

\* Mutant: the query forgets the state.
ActiveRentalsAnyState(id) == {r \in DOMAIN rentals : rentals[r].vmId \in FoundBy(id)}

ActiveRentals(id) ==
  {r \in DOMAIN rentals : rentals[r].state = "active" /\ rentals[r].vmId \in FoundBy(id)}
LatestActive(id, r) ==
  r \in ActiveRentals(id) /\ \A q \in ActiveRentals(id) : q <= r

-----------------------------------------------------------------------------
(* The gateway's registry of sockets.                                      *)

IsComputerConnected(v) == \E i \in DOMAIN clients : Owner(clients[i]) = v
Registered(s) == \E i \in DOMAIN clients : clients[i] = s

\* Mutant: orders go to whatever socket of the computer is open.
AnyOpenSocket(v, s) == Owner(s) = v /\ line[s] = "open"

\* The entry the send methods use: the first one inserted for the computer.
FirstSocket(v, s) ==
  \E i \in DOMAIN clients :
    /\ clients[i] = s
    /\ Owner(s) = v
    /\ \A j \in 1 .. i - 1 : Owner(clients[j]) # v

\* socket.emit: what is written to a dead socket is lost.
Emit(s, message) ==
  down' = IF line[s] = "open" THEN [down EXCEPT ![s] = Append(@, message)] ELSE down

-----------------------------------------------------------------------------
(* Calls of VirtualMachinesService and ComputersService.                   *)

LoadVm(t) ==
  /\ Calling(t, "vmStatus") /\ tasks[t].vmRow = None
  /\ \E v \in FoundBy(tasks[t].vm) :
       tasks' = [tasks EXCEPT ![t].vmRow = [key |-> v, row |-> vms[v]]]
  /\ UNCHANGED <<tables, clients, agentVars>>

SaveVm(t) ==
  /\ Calling(t, "vmStatus") /\ tasks[t].vmRow # None
  /\ LET found == tasks[t].vmRow
     IN  vms' = [vms EXCEPT ![found.key] = [found.row EXCEPT !.status = Argument(t)]]
  /\ Return(t)
  /\ UNCHANGED <<computers, rentals, clients, agentVars>>

SetPhysicalComputer(t) ==
  /\ Calling(t, "setPhysicalComputer")
  /\ vms' = [vms EXCEPT ![tasks[t].vm].linked = TRUE]
  /\ Return(t)
  /\ UNCHANGED <<computers, rentals, clients, agentVars>>

LoadComputer(t) ==
  /\ Calling(t, "computerStatus") \/ Calling(t, "register")
  /\ tasks[t].computerRow = None
  /\ \E c \in Vms :
       /\ tasks[t].computer = c
       /\ tasks' = [tasks EXCEPT ![t].computerRow =
            [key |-> c, row |-> computers[c], hostsVm |-> vms[c].linked]]
  /\ UNCHANGED <<tables, clients, agentVars>>

\* The entity carries the relation virtualMachines, so save also restores
\* physicalComputerId to what it was when the computer was loaded.
SaveComputer(t) ==
  /\ Calling(t, "computerStatus") /\ tasks[t].computerRow # None
  /\ LET found == tasks[t].computerRow
         status == Argument(t)
     IN  /\ computers' = [computers EXCEPT ![found.key] =
              [found.row EXCEPT
                 !.status = status,
                 !.isAvailable = CASE status = "available" -> TRUE
                                   [] status \in {"active", "provisioning"} -> FALSE
                                   [] OTHER -> @,
                 !.hasCurrentVm = IF status = "available" THEN FALSE ELSE @]]
         /\ vms' = [vms EXCEPT ![found.key].linked = found.hostsVm]
  /\ Return(t)
  /\ UNCHANGED <<rentals, clients, agentVars>>

\* register of a known computer: isAvailable and currentVmId stay as loaded.
RegisterKnown(t) ==
  /\ Calling(t, "register") /\ tasks[t].computerRow # None
  /\ LET found == tasks[t].computerRow
     IN  /\ found.row.exists
         /\ computers' = [computers EXCEPT ![found.key] =
              [found.row EXCEPT !.isConnected = TRUE, !.status = "available"]]
  /\ Return(t)
  /\ UNCHANGED <<vms, rentals, clients, agentVars>>

\* register of a new computer; the unique token refuses a second insert, and
\* the handler's catch block ends it.
RegisterNew(t) ==
  /\ Calling(t, "register") /\ tasks[t].computerRow # None
  /\ LET found == tasks[t].computerRow
     IN  /\ ~found.row.exists
         /\ IF computers[found.key].exists
            THEN ContinueWith(t, <<>>) /\ UNCHANGED computers
            ELSE /\ computers' = [computers EXCEPT ![found.key] =
                      [exists |-> TRUE, isConnected |-> TRUE, isAvailable |-> TRUE,
                       status |-> "available", hasCurrentVm |-> FALSE]]
                 /\ Return(t)
  /\ UNCHANGED <<vms, rentals, clients, agentVars>>

SetConnectedFalse(t) ==
  /\ Calling(t, "setConnected")
  /\ computers' = [computers EXCEPT ![tasks[t].computer].isConnected = FALSE,
                                    ![tasks[t].computer].status = "offline"]
  /\ Return(t)
  /\ UNCHANGED <<vms, rentals, clients, agentVars>>

SetCurrentVm(t) ==
  /\ Calling(t, "setCurrentVM")
  /\ computers' = [computers EXCEPT ![tasks[t].computer].hasCurrentVm = Argument(t) = "vm"]
  /\ Return(t)
  /\ UNCHANGED <<vms, rentals, clients, agentVars>>

-----------------------------------------------------------------------------
(* Calls on the rental table.                                              *)

InsertRental(t) ==
  /\ Calling(t, "insertRental") /\ tasks[t].rentalRow # None
  /\ tasks[t].rentalRow.key = NewKey
  /\ rentals' = Append(rentals, tasks[t].rentalRow.row)
  /\ Return(t)
  /\ UNCHANGED <<vms, computers, clients, agentVars>>

\* closeActiveRentalForVm and failRentalForVm: find the latest active rental...
LoadActiveRental(t) ==
  /\ Calling(t, "closeRental") /\ tasks[t].rentalRow = None
  /\ \E r \in DOMAIN rentals :
       /\ LatestActive(tasks[t].vm, r)
       /\ tasks' = [tasks EXCEPT ![t].rentalRow =
            [key |-> r, row |-> EndedRental(rentals[r], "zero")]]
  /\ UNCHANGED <<tables, clients, agentVars>>

\* ... or return when there is none.
NoActiveRental(t) ==
  /\ Calling(t, "closeRental") /\ tasks[t].rentalRow = None
  /\ ActiveRentals(tasks[t].vm) = {}
  /\ Return(t)
  /\ UNCHANGED <<tables, clients, agentVars>>

SaveRental(t) ==
  /\ Calling(t, "closeRental") \/ Calling(t, "saveRental")
  /\ tasks[t].rentalRow # None
  /\ LET found == tasks[t].rentalRow
     IN  /\ found.key # NewKey
         /\ rentals' = [rentals EXCEPT ![found.key] = found.row]
  /\ Return(t)
  /\ UNCHANGED <<vms, computers, clients, agentVars>>

-----------------------------------------------------------------------------
(* Requests.  A caller who is not the receiver, or not the provider, and a *)
(* row in the wrong state are refused before anything is written.          *)

Starting == Cardinality({t \in Tasks : Calling(t, "insertRental")})

\* Mutant: create does not look at the status.
RentableInAnyStatus(v, u) == ProviderOf[v] # u

Rentable(v, u) == ProviderOf[v] # u /\ vms[v].status = "available"

\* RentalsService.create.
CreateRental(t, u, v) ==
  /\ Len(rentals) + Starting < MaxRentals
  /\ Rentable(v, u)
  /\ Start(t, [Handler(v, <<Do("insertRental"), SetVm("building")>> \o
                 IF vms[v].linked THEN <<Do("provision_vm")>>
                 ELSE <<Do("closeRental"), SetVm("failed")>>)
               EXCEPT !.rentalRow = [key |-> NewKey, row |-> NewRental(v, u)]])
  /\ UNCHANGED <<tables, clients, agentVars>>

\* RentalsService.endRental.
EndRental(t, u, r) ==
  /\ rentals[r].receiverId = u
  /\ rentals[r].state = "active"
  /\ LET v == rentals[r].vmId
     IN  Start(t, [Handler(v, <<Do("saveRental"), SetVm("shutting_down"),
                                IF vms[v].linked THEN Do("destroy_vm") ELSE SetVm("offline")>>)
                   EXCEPT !.rentalRow = [key |-> r, row |-> EndedRental(rentals[r], "usage")]])
  /\ UNCHANGED <<tables, clients, agentVars>>

\* RentalsService.processPayment.
ProcessPayment(t, u, r) ==
  /\ rentals[r].receiverId = u
  /\ rentals[r].paymentStatus = "pending"
  /\ Start(t, [Handler(rentals[r].vmId, <<Do("saveRental")>>)
               EXCEPT !.rentalRow = [key |-> r, row |-> PaidRental(rentals[r])]])
  /\ UNCHANGED <<tables, clients, agentVars>>

\* PATCH /vms/:id/status by the provider: any status of the enumeration.
PatchVmStatus(t, u, v, status) ==
  /\ ProviderOf[v] = u
  /\ Start(t, Handler(v, <<SetVm(status)>>))
  /\ UNCHANGED <<tables, clients, agentVars>>

\* sendProvisionVM and, when no entry is found, the rest of create.
SendProvisionVM(t) ==
  /\ Calling(t, "provision_vm")
  /\ LET v == tasks[t].vm
     IN  \/ /\ \E s \in Sockets : FirstSocket(v, s) /\ Emit(s, Message("provision_vm", v))
            /\ Return(t)
         \/ /\ ~IsComputerConnected(v)
            /\ ContinueWith(t, <<Do("closeRental"), SetVm("failed")>>)
            /\ UNCHANGED down
  /\ UNCHANGED <<tables, clients, agent, line, up>>

\* sendDestroyVM and, when no entry is found, the rest of endRental.
SendDestroyVM(t) ==
  /\ Calling(t, "destroy_vm")
  /\ LET v == tasks[t].vm
     IN  \/ /\ \E s \in Sockets : FirstSocket(v, s) /\ Emit(s, Message("destroy_vm", v))
            /\ Return(t)
         \/ /\ ~IsComputerConnected(v)
            /\ ContinueWith(t, <<SetVm("offline")>>)
            /\ UNCHANGED down
  /\ UNCHANGED <<tables, clients, agent, line, up>>

-----------------------------------------------------------------------------
(* Events from a connector.  Each starts a handler; handlers of one socket *)
(* run concurrently like any others.                                       *)

Delivers(s, type) ==
  /\ line[s] \in {"open", "lost"}
  /\ up[s] # <<>>
  /\ Head(up[s]).type = type
  /\ up' = [up EXCEPT ![s] = Tail(@)]
EventVm(s) == Head(up[s]).vm

\* A VM in one of these states is made available when its machine connects.
Revival(v) ==
  IF vms[v].status \in {"configuring", "offline", "failed"} THEN <<SetVm("available")>> ELSE <<>>

Registration(v) ==
  <<Do("register"), Do("setPhysicalComputer"), SetCurrentVM("vm")>> \o Revival(v) \o
  <<Do("connect")>>

HandleClientConnected(t, s) ==
  /\ Delivers(s, "client_connected")
  /\ Start(t, [Handler(Owner(s), Registration(Owner(s))) EXCEPT !.socket = s])
  /\ UNCHANGED <<tables, clients, agent, line, down>>

\* connectedClients.set and the acknowledgment.
Connect(t) ==
  /\ Calling(t, "connect")
  /\ \E s \in Sockets :
       /\ tasks[t].socket = s
       /\ clients' = Append(clients, s)
       /\ Emit(s, Message("connection_acknowledged", tasks[t].vm))
  /\ Return(t)
  /\ UNCHANGED <<tables, agent, line, up>>

HandleVMProvisioningStarted(t, s) ==
  /\ Delivers(s, "vm_provisioning_started")
  /\ Start(t, Handler(EventVm(s), <<SetVm("building")>>))
  /\ UNCHANGED <<tables, clients, agent, line, down>>

\* With a null vm_id the address update throws and the catch block ends it.
HandleVMProvisioned(t, s) ==
  /\ Delivers(s, "vm_provisioned")
  /\ LET v == EventVm(s)
     IN  IF v = None THEN UNCHANGED tasks
         ELSE Start(t, Handler(v, <<SetVm("running")>> \o
                IF vms[v].linked THEN <<SetComputer("active")>> ELSE <<>>))
  /\ UNCHANGED <<tables, clients, agent, line, down>>

HandleVMProvisioningFailed(t, s) ==
  /\ Delivers(s, "vm_provisioning_failed")
  /\ \E v \in FoundBy(EventVm(s)) :
       Start(t, [Handler(EventVm(s), <<SetVm("failed"), Do("closeRental")>> \o
                   IF vms[v].linked THEN <<SetComputer("available"), SetCurrentVM("null")>>
                   ELSE <<>>)
                 EXCEPT !.computer = v])
  /\ UNCHANGED <<tables, clients, agent, line, down>>

HandleVMDestroyed(t, s) ==
  /\ Delivers(s, "vm_destroyed")
  /\ LET v == EventVm(s)
         next == IF vms[v].linked /\ IsComputerConnected(v) THEN "available" ELSE "offline"
     IN  Start(t, Handler(v, <<SetVm(next)>> \o
           IF vms[v].linked THEN <<SetComputer("available"), SetCurrentVM("null")>> ELSE <<>>))
  /\ UNCHANGED <<tables, clients, agent, line, down>>

\* The entry is looked up now, the VM is read after the heartbeat columns.
HandleHeartbeat(t, s) ==
  /\ Delivers(s, "heartbeat")
  /\ IF Registered(s) THEN Start(t, Handler(Owner(s), <<Do("reconcileVm")>>))
     ELSE UNCHANGED tasks
  /\ UNCHANGED <<tables, clients, agent, line, down>>

ReconcileVm(t) ==
  /\ Calling(t, "reconcileVm")
  /\ ContinueWith(t, IF vms[tasks[t].vm].status = "offline"
                     THEN <<Do("reconcileRental")>> ELSE <<>>)
  /\ UNCHANGED <<tables, clients, agentVars>>

ReconcileRental(t) ==
  /\ Calling(t, "reconcileRental")
  /\ ContinueWith(t, IF ActiveRentals(tasks[t].vm) = {}
                     THEN <<SetComputer("available"), SetCurrentVM("null"), SetVm("available")>>
                     ELSE <<>>)
  /\ UNCHANGED <<tables, clients, agentVars>>

\* Mutants: handleDisconnect without one of its calls.
DisconnectionKeepsRental == <<Do("setConnected"), Do("offlineIfBusy"), Do("forget")>>
DisconnectionKeepsConnected == <<Do("offlineIfBusy"), Do("closeRental"), Do("forget")>>
DisconnectionKeepsVm == <<Do("setConnected"), Do("closeRental"), Do("forget")>>

Disconnection ==
  <<Do("setConnected"), Do("offlineIfBusy"), Do("closeRental"), Do("forget")>>

\* The server gives a dead socket up.  What it had not read is dropped.
HandleDisconnect(t, s) ==
  /\ line[s] = "lost"
  /\ line' = [line EXCEPT ![s] = "closed"]
  /\ up' = [up EXCEPT ![s] = <<>>]
  /\ IF Registered(s)
     THEN Start(t, [Handler(Owner(s), Disconnection) EXCEPT !.socket = s])
     ELSE UNCHANGED tasks
  /\ UNCHANGED <<tables, clients, agent, down>>

\* handleDisconnect reads the VM and picks the status it will save.
OfflineIfBusy(t) ==
  /\ Calling(t, "offlineIfBusy")
  /\ \E v \in Vms :
       LET status == vms[v].status
           next == IF status \in {"running", "building", "shutting_down"}
                   THEN "offline" ELSE status
       IN  tasks[t].vm = v /\ ContinueWith(t, <<SetVm(next)>> \o Later(t))
  /\ UNCHANGED <<tables, clients, agentVars>>

\* connectedClients.delete.
Forget(t) ==
  /\ Calling(t, "forget")
  /\ \E i \in DOMAIN clients :
       /\ clients[i] = tasks[t].socket
       /\ clients' = SubSeq(clients, 1, i - 1) \o SubSeq(clients, i + 1, Len(clients))
  /\ Return(t)
  /\ UNCHANGED <<tables, agentVars>>

-----------------------------------------------------------------------------
\* The process dies and comes back: memory and sockets are gone, tables stay.
Restart ==
  /\ Restarts
  /\ line' = [s \in Sockets |-> IF line[s] = "unused" THEN "unused" ELSE "closed"]
  /\ up' = [s \in Sockets |-> <<>>]
  /\ down' = [s \in Sockets |-> <<>>]
  /\ clients' = <<>>
  /\ tasks' = [t \in Tasks |-> Idle]
  /\ agent' = [v \in Vms |-> [agent[v] EXCEPT !.session = 0, !.registered = FALSE]]
  /\ UNCHANGED tables

Request(t) ==
  \/ \E u \in Users, v \in Vms : CreateRental(t, u, v)
  \/ \E u \in Users, r \in DOMAIN rentals : EndRental(t, u, r) \/ ProcessPayment(t, u, r)
  \/ \E u \in Users, v \in Vms, status \in PatchTargets : PatchVmStatus(t, u, v, status)

Event(t, s) ==
  \/ HandleClientConnected(t, s)
  \/ HandleVMProvisioningStarted(t, s)
  \/ HandleVMProvisioned(t, s)
  \/ HandleVMProvisioningFailed(t, s)
  \/ HandleVMDestroyed(t, s)
  \/ HandleHeartbeat(t, s)

Step(t) ==
  \/ LoadVm(t) \/ SaveVm(t) \/ SetPhysicalComputer(t)
  \/ LoadComputer(t) \/ SaveComputer(t) \/ RegisterKnown(t) \/ RegisterNew(t)
  \/ SetConnectedFalse(t) \/ SetCurrentVm(t)
  \/ InsertRental(t) \/ LoadActiveRental(t) \/ NoActiveRental(t) \/ SaveRental(t)
  \/ SendProvisionVM(t) \/ SendDestroyVM(t) \/ Connect(t) \/ Forget(t)
  \/ OfflineIfBusy(t) \/ ReconcileVm(t) \/ ReconcileRental(t)

AgentNext(v) ==
  /\ AgentConnect(v) \/ LoseConnection(v) \/ AgentStep(v) \/ AgentHeartbeat(v)
  /\ UNCHANGED <<tables, clients, tasks>>

Next ==
  \/ \E t \in Tasks : Request(t) \/ Step(t)
  \/ \E t \in Tasks, s \in Sockets : Event(t, s) \/ HandleDisconnect(t, s)
  \/ \E v \in Vms : AgentNext(v)
  \/ Restart

Spec == Init /\ [][Next]_vars
=============================================================================
