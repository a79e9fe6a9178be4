----------------------------- MODULE HiveRecords -----------------------------
(***************************************************************************)
(* The rows the backend stores, the messages it exchanges with a           *)
(* provider's connector, and the state of a request handler that is        *)
(* suspended at an await.                                                  *)
(*                                                                         *)
(* A computer and a virtual machine are found by the same unique token     *)
(* (register and findByConnectionToken), so a computer is named by its VM  *)
(* and physicalComputerId is the flag "linked".                            *)
(***************************************************************************)
EXTENDS Naturals, Sequences

CONSTANTS Vms,           \* the virtual machines that providers have listed
          Users,         \* the accounts that rent
          ProviderOf,    \* providerId of each VM
          None,          \* SQL null, Python None, "no row loaded"
          MaxSessions,   \* bound: socket connections each connector opens
          MaxRentals     \* bound: rentals the receivers start

\* A socket id is used for one connection only.
Sockets == Vms \X (1 .. MaxSessions)
Owner(s) == s[1]

ASSUME RecordsAssumption ==
  /\ ProviderOf \in [Vms -> Users]
  /\ None \notin Vms \cup Sockets
  /\ MaxSessions \in Nat
  /\ MaxRentals \in Nat

VMStatus == {"configuring", "available", "offline", "building", "running",
             "shutting_down", "failed"}
ComputerStatus == {"connected", "available", "provisioning", "active", "offline"}
RentalState == {"active", "not_active"}
PaymentStatus == {"pending", "paid", "refunded"}

VmRow == [status : VMStatus, linked : BOOLEAN]

ComputerRow == [exists : BOOLEAN, isConnected : BOOLEAN, isAvailable : BOOLEAN,
                status : ComputerStatus, hasCurrentVm : BOOLEAN]

\* totalCost keeps what the properties tell apart: 0, or hours times the price.
RentalRow == [vmId : Vms, receiverId : Users, state : RentalState,
              ended : BOOLEAN, totalCost : {"zero", "usage"},
              paymentStatus : PaymentStatus]

NewKey == 0    \* the key of an entity not inserted yet

NewRental(v, u) ==
  [vmId |-> v, receiverId |-> u, state |-> "active", ended |-> FALSE,
   totalCost |-> "zero", paymentStatus |-> "pending"]

\* Mutants: a state outside the enumeration; the end time, the state or the
\* payment of the loaded row forgotten.
EndedRentalCompleted(row, cost) ==
  [row EXCEPT !.state = "completed", !.ended = TRUE, !.totalCost = cost]
EndedRentalNoEndTime(row, cost) ==
  [row EXCEPT !.state = "not_active", !.totalCost = cost]
EndedRentalStillActive(row, cost) == [row EXCEPT !.ended = TRUE, !.totalCost = cost]
EndedRentalUnpaid(row, cost) ==
  [row EXCEPT !.state = "not_active", !.ended = TRUE, !.totalCost = cost,
              !.paymentStatus = "pending"]

EndedRental(row, cost) ==
  [row EXCEPT !.state = "not_active", !.ended = TRUE, !.totalCost = cost]

\* Mutant: the payment goes through and the row is saved as it was loaded.
PaidRentalUnmarked(row) == row

PaidRental(row) == [row EXCEPT !.paymentStatus = "paid"]

-----------------------------------------------------------------------------
(* Messages.                                                               *)

UpType == {"client_connected", "heartbeat", "vm_provisioning_started",
           "vm_provisioned", "vm_provisioning_failed", "vm_destroyed"}
DownType == {"connection_acknowledged", "provision_vm", "destroy_vm"}

UpMessage == [type : UpType, vm : Vms \cup {None}]
DownMessage == [type : DownType, vm : Vms \cup {None}]

Message(type, v) == [type |-> type, vm |-> v]

-----------------------------------------------------------------------------
(* A handler between two awaits: the calls it still has to make, what they *)
(* are about, and the entities it has loaded and not yet saved.            *)

PlainOp == {"closeRental", "saveRental", "insertRental", "register",
            "setPhysicalComputer", "setConnected", "offlineIfBusy", "connect",
            "forget", "provision_vm", "destroy_vm", "reconcileVm", "reconcileRental"}

Call == [op : {"vmStatus"}, to : VMStatus] \cup
        [op : {"computerStatus"}, to : ComputerStatus] \cup
        [op : {"setCurrentVM"}, to : {"null", "vm"}] \cup
        [op : PlainOp, to : {"null"}]

Do(op) == [op |-> op, to |-> "null"]
SetVm(status) == [op |-> "vmStatus", to |-> status]
SetComputer(status) == [op |-> "computerStatus", to |-> status]
SetCurrentVM(id) == [op |-> "setCurrentVM", to |-> id]

Loaded(Key, Row) == [key : Key, row : Row] \cup {None}
\* hostsVm: the relation virtualMachines that findOne loads with the computer.
LoadedComputer == [key : Vms, row : ComputerRow, hostsVm : BOOLEAN] \cup {None}

Task == [todo : Seq(Call), vm : Vms \cup {None}, computer : Vms \cup {None},
         socket : Sockets \cup {None}, vmRow : Loaded(Vms, VmRow),
         computerRow : LoadedComputer, rentalRow : Loaded(Nat, RentalRow)]

Idle == [todo |-> <<>>, vm |-> None, computer |-> None, socket |-> None,
         vmRow |-> None, computerRow |-> None, rentalRow |-> None]

\* A handler about v that has the calls still to make.
Handler(v, calls) == [Idle EXCEPT !.vm = v, !.computer = v, !.todo = calls]
=============================================================================
