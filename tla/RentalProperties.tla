-------------------------- MODULE RentalProperties --------------------------
(***************************************************************************)
(* What the rental backend should do, stated over RentalBackend.           *)
(***************************************************************************)
EXTENDS RentalBackend

ActiveOn(v) ==
  {r \in DOMAIN rentals : rentals[r].vmId = v /\ rentals[r].state = "active"}

\* The connector of v is online and has been told that it is registered.
Live(v) == Online(v) /\ agent[v].registered

-----------------------------------------------------------------------------
(* Rentals and their VM.                                                   *)

\* A VM is let to one receiver at a time: create refuses a VM that is not
\* AVAILABLE and reserves the one it lets.
AtMostOneActiveRental == \A v \in Vms : \A q, r \in ActiveOn(v) : q = r

\* Between handlers a VM with an active rental is being built or runs; every
\* path that takes the VM away (disconnect, failure, late events) closes it.
RentedVmIsBusy ==
  AllFree => \A v \in Vms : ActiveOn(v) # {} => vms[v].status \in {"building", "running"}

\* Rentals move forward only, one receiver per VM, paid once: the backend
\* implements the ledger.
Ledger == INSTANCE RentalLedger WITH ledger <-
  [r \in DOMAIN rentals |->
     [vm |-> rentals[r].vmId, receiver |-> rentals[r].receiverId,
      open |-> rentals[r].state = "active", cost |-> rentals[r].totalCost,
      paid |-> rentals[r].paymentStatus = "paid"]]
LedgerSpec == Ledger!Spec

RowWhole(row) ==
  /\ row.state = "active" <=> ~row.ended
  /\ row.state = "active" => row.totalCost = "zero"

\* A row is never torn by interleaved saves: active exactly while it has no
\* end time, and free of charge until then.
RentalRowsWhole == \A r \in DOMAIN rentals : RowWhole(rentals[r])

\* What a suspended handler is going to write is a whole row; over a row of
\* the table it writes an end or a payment, however old its copy is.
PendingSavesWhole ==
  \A t \in Tasks : LET pending == tasks[t].rentalRow IN
    pending # None =>
      /\ RowWhole(pending.row)
      /\ pending.key # NewKey =>
           /\ pending.key \in DOMAIN rentals
           /\ pending.row.state = "not_active" \/ pending.row.paymentStatus = "paid"

\* Rentals stay whole, in the table and in the hands of suspended handlers.
RentalsAreWhole == RentalRowsWhole /\ PendingSavesWhole

\* An ended rental becomes active again in no way but the stale save of a
\* payment, which marks it paid in the same write.
RevivedOnlyByPayment ==
  [][\A r \in DOMAIN rentals :
       rentals[r].state = "not_active" /\ rentals'[r].state = "active"
         => rentals'[r].paymentStatus = "paid"]_vars

\* A payment is undone in no way but the stale save that ends the rental.
UnpaidOnlyByEnding ==
  [][\A r \in DOMAIN rentals :
       rentals[r].paymentStatus = "paid" /\ rentals'[r].paymentStatus # "paid"
         => rentals'[r].state = "not_active"]_vars

-----------------------------------------------------------------------------
(* Machines and sockets.                                                   *)

\* The connector is acknowledged on a socket before it gets an order on it:
\* the entry orders are sent by and the acknowledgment come in one step.
OrdersFollowAck ==
  \A v \in Vms :
    Receives(v, "provision_vm") \/ Receives(v, "destroy_vm") => agent[v].registered

\* Between handlers a computer stored as connected has a registered socket.
ConnectedIsRegistered ==
  AllFree => \A v \in Vms : computers[v].isConnected => IsComputerConnected(v)

\* Between handlers no socket the server has closed is still registered.
NoClosedSocketRegistered ==
  AllFree => \A i \in DOMAIN clients : line[clients[i]] # "closed"

-----------------------------------------------------------------------------
(* Progress.  Node runs what is pending, the transport delivers or fails,  *)
(* and a connector that is online answers and sends heartbeats.  An event  *)
(* or a disconnect needs a free slot of Tasks, which others may take again *)
(* and again; Node has no such limit, hence strong fairness for the two.   *)
(* Receivers, providers, losses and reconnections are never forced.        *)

Fairness ==
  /\ \A t \in Tasks : WF_vars(Step(t))
  /\ \A s \in Sockets :
       /\ SF_vars(\E t \in Tasks : Event(t, s))
       /\ SF_vars(\E t \in Tasks : HandleDisconnect(t, s))
  /\ \A v \in Vms :
       /\ WF_vars(AgentStep(v) /\ UNCHANGED <<tables, clients, tasks>>)
       /\ WF_vars(AgentHeartbeat(v) /\ UNCHANGED <<tables, clients, tasks>>)

FairSpec == Spec /\ Fairness

\* An order that still gets its answer: it is on its way to the connector of
\* the VM, or it was and the gateway has yet to give the dead socket up.
UnderWay(v, order) ==
  \E s \in Sockets :
    /\ Owner(s) = v
    /\ \/ \E i \in DOMAIN down[s] : down[s][i].type = order
       \/ Registered(s) /\ line[s] = "lost"

\* The connector is live and building for the VM.
Builds(v) == Live(v) /\ agent[v].builds > 0 /\ agent[v].currentVm = v

\* A VM gets out of BUILDING once its order is under way or being carried out,
\* whatever is lost then: the connector's report or the disconnect ends it.
\* A BUILDING saved late, when the build is over, lasts and is no part of this.
BuildingEnds ==
  \A v \in Vms :
    vms[v].status = "building" /\ (UnderWay(v, "provision_vm") \/ Builds(v))
      ~> vms[v].status # "building"

\* A VM gets out of SHUTTING_DOWN once its order is under way: vm_destroyed
\* or the disconnect ends it.  An order written to a socket that has been
\* given up, or before a restart, leaves it there and is no part of this.
ShutdownEnds ==
  \A v \in Vms :
    vms[v].status = "shutting_down" /\ UnderWay(v, "destroy_vm")
      ~> vms[v].status # "shutting_down"

\* Heartbeats bring an idle VM back: OFFLINE does not last while the connector
\* stays live, unless a payment that was loaded before revives the rental.
HeartbeatRecovers ==
  \A v \in Vms :
    Live(v) /\ vms[v].status = "offline" /\ ActiveOn(v) = {}
      ~> \/ ~Live(v) \/ vms[v].status # "offline"
         \/ ActiveOn(v) # {}
=============================================================================
