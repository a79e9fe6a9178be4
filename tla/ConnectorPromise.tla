-------------------------- MODULE ConnectorPromise --------------------------
(***************************************************************************)
(* What the backend may assume of a connector, and what ProviderAgent      *)
(* takes it to be: a build is under way until its one answer, which names  *)
(* the VM the connector has then; a stop or destroy is handled in one      *)
(* step; only a restart of the machine leaves an order without an answer.  *)
(***************************************************************************)
EXTENDS Naturals

CONSTANTS MaxOrders, Vm, NoVm

VARIABLES stage,      \* each order: not handled, under way, answered or given up
          currentVm,  \* the VM the connector thinks it has
          answer      \* what each order was answered with, and for which VM

vars == <<stage, currentVm, answer>>

Orders == 1..MaxOrders
NoAnswer == [what |-> "none", vm |-> NoVm]

Init == /\ stage = [i \in Orders |-> "unsent"]
        /\ currentVm = NoVm
        /\ answer = [i \in Orders |-> NoAnswer]

\* A handler names the VM of its order as the current one and stays under way.
Provision(i) ==
    /\ stage[i] = "unsent"
    /\ stage' = [stage EXCEPT ![i] = "building"]
    /\ currentVm' = Vm
    /\ UNCHANGED answer

\* Or it is answered at once, for the VM of the order.
Reject(i) ==
    /\ stage[i] = "unsent"
    /\ stage' = [stage EXCEPT ![i] = "answered"]
    /\ currentVm' = Vm
    /\ answer' = [answer EXCEPT ![i] = [what |-> "failed", vm |-> Vm]]

Finish(i) ==
    /\ stage[i] = "building"
    /\ stage' = [stage EXCEPT ![i] = "answered"]
    /\ \E what \in {"provisioned", "failed"} :
          answer' = [answer EXCEPT ![i] = [what |-> what, vm |-> currentVm]]
    /\ UNCHANGED currentVm

Remove(i) ==
    /\ stage[i] = "unsent"
    /\ stage' = [stage EXCEPT ![i] = "answered"]
    /\ currentVm' = NoVm
    /\ \E what \in {"stopped", "destroyed"} :
          answer' = [answer EXCEPT ![i] = [what |-> what, vm |-> Vm]]

Acknowledge == currentVm' = Vm /\ UNCHANGED <<stage, answer>>

\* The machine restarts: what is under way is given up, perhaps with a removal that had
\* begun.
Restart ==
    /\ \E lost \in SUBSET {i \in Orders : stage[i] # "answered"} :
          /\ \A i \in Orders : stage[i] = "building" => i \in lost
          /\ stage' = [i \in Orders |-> IF i \in lost THEN "gone" ELSE stage[i]]
    /\ currentVm' = NoVm
    /\ UNCHANGED answer

Next == \/ Acknowledge \/ Restart
        \/ \E i \in Orders : Provision(i) \/ Reject(i) \/ Finish(i) \/ Remove(i)

Spec == Init /\ [][Next]_vars
=============================================================================
