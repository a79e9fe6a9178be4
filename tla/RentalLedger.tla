---------------------------- MODULE RentalLedger ----------------------------
(***************************************************************************)
(* What the rental tables promise to the people who rent: a VM is let to   *)
(* one receiver at a time, a closed rental stays closed at its price, and  *)
(* a rental is paid once, before or after it is closed.                    *)
(***************************************************************************)
EXTENDS Naturals, Sequences

CONSTANTS Vms, Users

VARIABLE ledger

Entry == [vm : Vms, receiver : Users, open : BOOLEAN,
          cost : {"zero", "usage"}, paid : BOOLEAN]

Init == ledger = <<>>

Open(v, u) ==
  /\ \A i \in DOMAIN ledger : ledger[i].vm = v => ~ledger[i].open
  /\ ledger' = Append(ledger, [vm |-> v, receiver |-> u, open |-> TRUE,
                               cost |-> "zero", paid |-> FALSE])

Close(i, cost) ==
  /\ ledger[i].open
  /\ ledger' = [ledger EXCEPT ![i].open = FALSE, ![i].cost = cost]

Pay(i) ==
  /\ ~ledger[i].paid
  /\ ledger' = [ledger EXCEPT ![i].paid = TRUE]

Next ==
  \/ \E v \in Vms, u \in Users : Open(v, u)
  \/ \E i \in DOMAIN ledger :
       Pay(i) \/ \E cost \in {"zero", "usage"} : Close(i, cost)

Spec == Init /\ [][Next]_ledger

-----------------------------------------------------------------------------
(* What is left of it when people act at the same time, each on the entry  *)
(* as they saw it, which others may have written since.                    *)

OpenBeside(v, u) ==
  ledger' = Append(ledger, [vm |-> v, receiver |-> u, open |-> TRUE,
                            cost |-> "zero", paid |-> FALSE])

\* Who ends it may undo a payment, who pays it may undo its end.
WriteAsSeen(i) ==
  \E open \in BOOLEAN, cost \in {"zero", "usage"}, paid \in BOOLEAN :
    /\ ~open \/ paid
    /\ open => cost = "zero"
    /\ ledger' = [ledger EXCEPT ![i].open = open, ![i].cost = cost, ![i].paid = paid]

OverlapNext ==
  \/ \E v \in Vms, u \in Users : OpenBeside(v, u)
  \/ \E i \in DOMAIN ledger : WriteAsSeen(i)

OverlapSpec == Init /\ [][OverlapNext]_ledger
=============================================================================
