------------------------ MODULE CatalogueProperties ------------------------
(***************************************************************************)
(* What deleting a VM does to those who rent, serve or write it.           *)
(***************************************************************************)
EXTENDS Catalogue

\* Rows, connections, handlers and the history have their types.
TypeOK ==
    /\ vms \in [Vms -> VmRow]
    /\ let \subseteq Vms
    /\ machine \in [Machines -> [key : Vms \cup {NoVm}, session : 0..MaxSessions]]
    /\ socket \in [Sockets -> SocketState]
    /\ clients \in [Sockets -> Vms \cup {NoVm}]
    /\ \A t \in Tasks :
          /\ tasks[t].kind \in {"none", "patch", "delete", "rent", "register", "disconnect", "heartbeat"}
          /\ tasks[t].status \in VmStatus
          /\ tasks[t].at # "free" => tasks[t].vm \in Vms
    /\ history \in History

\* A VM that was ever let is not deleted, however its deletion and the creation of a
\* rental interleave: the rows of rentals hold it, not the checks of delete.
LetVmIsKept == \A v \in let : Listed(v)

\* A deletion lasts, unless a save of the VM's status was pending when it was made, of a
\* registration, a disconnect, a heartbeat or a PATCH: repository.save inserts the row it
\* had loaded before (virtual-machines.service.ts:96).
DeletionIsFinal ==
    [][\A v \in Vms : vms[v].at = "deleted" /\ v \notin history.overtaken
                      => vms'[v].at = "deleted"]_vars

\* The backend is ended by a disconnect only after a VM was deleted under the machine
\* that served it or was being registered for it (websocket.gateway.ts:82): a connector
\* with a key that is no longer valid does no harm.
EndsOnlyAfterPulling == history.ended => history.pulled # {}
=============================================================================
