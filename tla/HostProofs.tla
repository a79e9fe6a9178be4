----------------------------- MODULE HostProofs -----------------------------
(***************************************************************************)
(* What the connector's answers say, proved for any number of orders, and  *)
(* that its handlers keep ConnectorPromise.                                *)
(*                                                                         *)
(* TypeOK is inductive.  The two facts about answers rest on what an order *)
(* that was alone can rely on: while it is in progress no other order is,  *)
(* so the environment is as its own commands have left it.                 *)
(***************************************************************************)
EXTENDS HostProperties, TLAPS

USE DEF Orders

\* Orders are taken in turn, and one that met no other was taken when all before it had
\* ended.
TakenInTurn ==
    \A i, j \in Orders : i < j /\ At(j) # "unsent" =>
        At(i) # "unsent" /\ (i \in Ongoing => {i, j} \subseteq history.overlapped)

\* Only what has ended is answered.
AnsweredHaveEnded == \A i \in Orders : report[i].what # "none" => At(i) = "done"

\* Only a provision order is built.
Removing == {"removing", "refused"}
OnlyProvisionsBuild ==
    \A i \in Ongoing : At(i) \notin Removing => order[i].kind = "provision"

\* What a build that met no other order, and no unrecognised machine, knows of its
\* environment at each place.
Undisturbed(i) ==
    /\ At(i) \in {"up", "booting"} => env.state = "absent"
    /\ At(i) \in {"booted", "built", "address", "reporting"} =>
          env = [state |-> "running", made |-> i]
    /\ At(i) = "reporting" \/ report[i].what = "provisioned" => report[i].made \in {0, i}
BuildsUndisturbed ==
    \A i \in Orders \ (history.overlapped \cup history.stale) : Undisturbed(i)

\* After the last order, if it was a destroy that met no other and has not failed,
\* there is no machine.
LastDestroyed(i) == /\ order[i].kind = "destroy" /\ At(i) = "done"
                    /\ \A j \in Orders : j > i => At(j) = "unsent"
DestroyedIsAbsent ==
    \A i \in Orders \ (history.overlapped \cup history.broken) :
        LastDestroyed(i) => env.state = "absent"

HostInv == /\ TypeOK
           /\ TakenInTurn /\ AnsweredHaveEnded /\ OnlyProvisionsBuild
           /\ BuildsUndisturbed /\ DestroyedIsAbsent

-----------------------------------------------------------------------------
(* What a step of one order leaves as it is.                               *)

Moved(i, at) ==
    /\ order' \in [Orders -> [kind : Kinds, at : Places]]
    /\ order'[i] = [kind |-> order[i].kind, at |-> at]
    /\ \A j \in Orders \ {i} : order'[j] = order[j]

LEMMA GotoMoves ==
  ASSUME TypeOK, NEW i \in Orders, NEW at \in Places, Goto(i, at)
  PROVE  Moved(i, at)
BY DEF TypeOK, Goto, Moved

LEMMA ReportAnswers ==
  ASSUME TypeOK, NEW i \in Orders, NEW what, NEW vm, NEW made,
         [what |-> what, vm |-> vm, made |-> made] \in Answer, Report(i, what, vm, made)
  PROVE  /\ report' \in [Orders -> Answer]
         /\ report'[i] = [what |-> what, vm |-> vm, made |-> made]
         /\ \A j \in Orders \ {i} : report'[j] = report[j]
BY DEF TypeOK, Report

Started(i, kind, at) ==
    /\ order' \in [Orders -> [kind : Kinds, at : Places]]
    /\ order'[i] = [kind |-> kind, at |-> at]
    /\ \A j \in Orders \ {i} : order'[j] = order[j]
    /\ history' \in History
    /\ history.overlapped \subseteq history'.overlapped
    /\ history'.stale = history.stale /\ history'.broken = history.broken
    /\ Ongoing # {} => Ongoing \cup {i} \subseteq history'.overlapped

LEMMA TakeStarts ==
  ASSUME TypeOK, NEW i \in Orders, NEW kind \in Kinds, NEW at \in Places, Take(i, kind, at)
  PROVE  Started(i, kind, at) /\ loop = 0 /\ At(i) = "unsent"
<1>1. Ongoing \subseteq Orders
  BY DEF Ongoing
<1>2. history' \in History
  BY <1>1 DEF TypeOK, Take, History
<1>3. /\ history.overlapped \subseteq history'.overlapped
      /\ history'.stale = history.stale /\ history'.broken = history.broken
      /\ Ongoing # {} => Ongoing \cup {i} \subseteq history'.overlapped
  BY DEF TypeOK, Take, History
<1>4. QED
  BY <1>2, <1>3 DEF TypeOK, Take, Started

-----------------------------------------------------------------------------
(* Types.                                                                  *)

LEMMA InitTypes == ASSUME Init PROVE TypeOK
BY HostAssumption DEF Init, TypeOK, Kinds, Places, EnvState, Absent, Answer, History, At

LEMMA TypesKept == ASSUME TypeOK, [Next]_vars PROVE TypeOK'
<1> USE HostAssumption DEF Places
<1>1. CASE Acknowledged
  BY <1>1 DEF TypeOK, Acknowledged, At
<1>2. CASE Reboot
  <2>1. order' \in [Orders -> [kind : Kinds, at : Places]]
    BY <1>2 DEF TypeOK, Reboot
  <2>2. env' \in EnvState
    BY <1>2 DEF TypeOK, Reboot, EnvState
  <2>3. QED
    BY <1>2, <2>1, <2>2 DEF TypeOK, Reboot
<1>3. ASSUME NEW i \in Orders, TakeBuild(i) PROVE TypeOK'
  <2>1. Started(i, "provision", "status") /\ loop = 0 /\ At(i) = "unsent"
    BY <1>3, TakeStarts DEF TakeBuild, Kinds
  <2>2. QED
    BY SMTT(20), <1>3, <2>1 DEF TypeOK, TakeBuild, Started, At
<1>4. ASSUME NEW i \in Orders, RejectBox(i) PROVE TypeOK'
  <2>1. Started(i, "provision", "done") /\ loop = 0 /\ At(i) = "unsent"
    BY <1>4, TakeStarts DEF RejectBox, Kinds
  <2>2. [what |-> "failed", vm |-> Vm, made |-> 0] \in Answer
    BY DEF Answer
  <2>3. report' \in [Orders -> Answer]
    BY <1>4, <2>2, ReportAnswers DEF RejectBox
  <2>4. QED
    BY <1>4, <2>1, <2>3 DEF TypeOK, RejectBox, Started, At
<1>5. ASSUME NEW i \in Orders, CheckStatus(i) PROVE TypeOK'
  <2>1. history' \in History
    BY <1>5 DEF TypeOK, CheckStatus, History
  <2>2. PICK at \in {"clean", "up", "failed"} : Moved(i, at)
    BY <1>5, GotoMoves DEF CheckStatus
  <2>3. QED
    BY <1>5, <2>1, <2>2 DEF TypeOK, CheckStatus, Moved, At
<1>6. ASSUME NEW i \in Orders, BeginCommand(i) PROVE TypeOK'
  <2>1. PICK at \in {"failed", "cleaning", "booting"} :
           /\ Moved(i, at)
           /\ \/ at = "failed" /\ UNCHANGED lock
              \/ at # "failed" /\ lock' = i
    BY <1>6, GotoMoves DEF BeginCommand
  <2>2. QED
    BY <1>6, <2>1 DEF TypeOK, BeginCommand, Moved, At
<1>7. ASSUME NEW i \in Orders, EndClean(i) PROVE TypeOK'
  <2>1. env' \in EnvState
    BY <1>7 DEF TypeOK, EndClean, Absent, EnvState
  <2>2. PICK at \in {"up", "failed"} : Moved(i, at)
    BY <1>7, GotoMoves DEF EndClean
  <2>3. loop # i /\ UNCHANGED <<loop, currentVm, seenHalted, report, history>> /\ lock' = 0
    BY <1>7 DEF TypeOK, EndClean, At
  <2>4. QED
    BY <2>1, <2>2, <2>3 DEF TypeOK, Moved, At
<1>8. ASSUME NEW i \in Orders, Boot(i) PROVE TypeOK'
  <2>1. env' \in EnvState
    BY <1>8 DEF TypeOK, Boot, EnvState
  <2>2. Moved(i, "booted")
    BY <1>8, GotoMoves DEF Boot
  <2>3. QED
    BY <1>8, <2>1, <2>2 DEF TypeOK, Boot, Moved, At
<1>9. ASSUME NEW i \in Orders, EndUp(i) PROVE TypeOK'
  <2>1. PICK at \in {"built", "failed"} : Moved(i, at)
    BY <1>9, GotoMoves DEF EndUp
  <2>2. QED
    BY <1>9, <2>1 DEF TypeOK, EndUp, Moved, At
<1>10. ASSUME NEW i \in Orders, Resume(i) PROVE TypeOK'
  <2>1. PICK at \in {"address", "done"} : Moved(i, at)
    BY <1>10, GotoMoves DEF Resume
  <2>2. [what |-> "failed", vm |-> currentVm, made |-> 0] \in Answer
    BY DEF TypeOK, Answer
  <2>3. report' \in [Orders -> Answer]
    BY <1>10, <2>2, ReportAnswers DEF TypeOK, Resume
  <2>4. QED
    BY <1>10, <2>1, <2>3 DEF TypeOK, Resume, Moved, At
<1>11. ASSUME NEW i \in Orders, ReadAddress(i) PROVE TypeOK'
  <2>1. report' \in [Orders -> Answer]
    <3>1. PICK made \in {0, env.made} :
             report' = [report EXCEPT ![i] = [report[i] EXCEPT !.made = made]]
      BY <1>11 DEF ReadAddress
    <3>2. made \in 0..MaxOrders
      BY <3>1 DEF TypeOK, EnvState
    <3>3. report[i] \in Answer
      BY DEF TypeOK
    <3>4. [report[i] EXCEPT !.made = made] \in Answer
      BY <3>2, <3>3 DEF Answer
    <3>5. QED
      BY <3>1, <3>4 DEF TypeOK
  <2>2. Moved(i, "reporting")
    BY <1>11, GotoMoves DEF ReadAddress
  <2>3. QED
    BY SMTT(20), <1>11, <2>1, <2>2 DEF TypeOK, ReadAddress, Moved, At
<1>12. ASSUME NEW i \in Orders, ReportBuild(i) PROVE TypeOK'
  <2>1. [what |-> "provisioned", vm |-> currentVm, made |-> report[i].made] \in Answer
    BY DEF TypeOK, Answer
  <2>2. report' \in [Orders -> Answer]
    BY <1>12, <2>1, ReportAnswers DEF ReportBuild
  <2>3. Moved(i, "done")
    BY <1>12, GotoMoves DEF ReportBuild
  <2>4. lock # i /\ loop' = 0 /\ UNCHANGED <<lock, currentVm, env, seenHalted, history>>
    BY <1>12 DEF TypeOK, ReportBuild, At
  <2>5. QED
    BY <2>2, <2>3, <2>4 DEF TypeOK, Moved, At
<1>13. ASSUME NEW i \in Orders, NEW kind \in {"stop", "destroy"}, TakeRemoval(i, kind)
       PROVE  TypeOK'
  <2>1. PICK at \in {"removing", "refused"} : /\ Started(i, kind, at)
                                              /\ lock = 0 <=> at = "removing"
    BY <1>13, TakeStarts DEF TakeRemoval, Kinds
  <2>2. At(i) = "unsent"
    BY <1>13 DEF TakeRemoval, Take
  <2>3. QED
    BY <1>13, <2>1, <2>2 DEF TypeOK, TakeRemoval, Started, At
<1>14. ASSUME NEW i \in Orders, EndRemoval(i) PROVE TypeOK'
  <2>1. PICK what \in {"stopped", "destroyed"} : Report(i, what, Vm, 0)
    BY <1>14 DEF EndRemoval
  <2>2. report' \in [Orders -> Answer]
    <3>1. [what |-> what, vm |-> Vm, made |-> 0] \in Answer
      BY DEF Answer
    <3>2. QED
      BY <2>1, <3>1, ReportAnswers
  <2>3. env' \in EnvState /\ history' \in History
    BY SMTT(20), <1>14 DEF TypeOK, EndRemoval, Removed, Absent, EnvState, History
  <2>4. Moved(i, "done")
    BY <1>14, GotoMoves DEF EndRemoval
  <2>5. QED
    BY <1>14, <2>2, <2>3, <2>4 DEF TypeOK, EndRemoval, Moved, At
<1>15. CASE UNCHANGED vars
  BY <1>15 DEF TypeOK, vars, At
<1>16. QED
  BY <1>1, <1>2, <1>3, <1>4, <1>5, <1>6, <1>7, <1>8, <1>9, <1>10, <1>11, <1>12, <1>13,
     <1>14, <1>15 DEF Next, Step
-----------------------------------------------------------------------------
(* Steps of an order in progress, and of one that is taken.                *)

Ended == {"unsent", "done", "gone"}
Begin(i) == TakeBuild(i) \/ RejectBox(i) \/ \E kind \in {"stop", "destroy"} : TakeRemoval(i, kind)

\* A step of order i moves it to place at, and tells nothing of the other orders.
Proceeds(i, at) ==
    /\ Moved(i, at) /\ At(i) \notin Ended /\ at \in Places \ {"unsent", "gone"}
    /\ history'.overlapped = history.overlapped
    /\ history.stale \subseteq history'.stale /\ history.broken \subseteq history'.broken
    /\ \A j \in Orders \ {i} : report'[j] = report[j]

LEMMA StepProceeds ==
  ASSUME TypeOK, NEW i \in Orders, Step(i)
  PROVE  \E at \in Places : /\ Proceeds(i, at)
                            /\ (at \in Removing => At(i) \in Removing)
                            /\ (At(i) \in Removing => EndRemoval(i) /\ at = "done")
<1> USE DEF Places, Ended, Removing
<1>1. CASE CheckStatus(i)
  <2>1. PICK at \in {"clean", "up", "failed"} : Moved(i, at)
    BY <1>1, GotoMoves DEF CheckStatus
  <2>2. history'.overlapped = history.overlapped /\ history.stale \subseteq history'.stale
        /\ history'.broken = history.broken
    BY <1>1 DEF TypeOK, CheckStatus, History
  <2>3. QED
    BY <1>1, <2>1, <2>2 DEF CheckStatus, Proceeds
<1>2. CASE BeginCommand(i)
  <2>1. PICK at \in {"failed", "cleaning", "booting"} : Moved(i, at)
    BY <1>2, GotoMoves DEF BeginCommand
  <2>2. QED
    BY <1>2, <2>1 DEF BeginCommand, Proceeds
<1>3. CASE EndClean(i)
  <2>1. PICK at \in {"up", "failed"} : Moved(i, at)
    BY <1>3, GotoMoves DEF EndClean
  <2>2. QED
    BY <1>3, <2>1 DEF EndClean, Proceeds
<1>4. CASE Boot(i)
  BY <1>4, GotoMoves DEF Boot, Proceeds
<1>5. CASE EndUp(i)
  <2>1. PICK at \in {"built", "failed"} : Moved(i, at)
    BY <1>5, GotoMoves DEF EndUp
  <2>2. QED
    BY <1>5, <2>1 DEF EndUp, Proceeds
<1>6. CASE Resume(i)
  <2>1. PICK at \in {"address", "done"} : Moved(i, at)
    BY <1>6, GotoMoves DEF Resume
  <2>2. \A j \in Orders \ {i} : report'[j] = report[j]
    BY <1>6 DEF TypeOK, Resume, Report
  <2>3. QED
    BY <1>6, <2>1, <2>2 DEF Resume, Proceeds
<1>7. CASE ReadAddress(i)
  <2>1. \A j \in Orders \ {i} : report'[j] = report[j]
    BY <1>7 DEF TypeOK, ReadAddress
  <2>2. QED
    BY <1>7, <2>1, GotoMoves DEF ReadAddress, Proceeds
<1>8. CASE ReportBuild(i)
  <2>1. \A j \in Orders \ {i} : report'[j] = report[j]
    BY <1>8 DEF TypeOK, ReportBuild, Report
  <2>2. QED
    BY <1>8, <2>1, GotoMoves DEF ReportBuild, Proceeds
<1>9. CASE EndRemoval(i)
  <2>1. \A j \in Orders \ {i} : report'[j] = report[j]
    BY <1>9 DEF TypeOK, EndRemoval, Report
  <2>2. history'.overlapped = history.overlapped /\ history'.stale = history.stale
        /\ history.broken \subseteq history'.broken
    BY <1>9 DEF TypeOK, EndRemoval, History
  <2>3. QED
    BY <1>9, <2>1, <2>2, GotoMoves DEF EndRemoval, Proceeds
<1>10. QED
  BY <1>1, <1>2, <1>3, <1>4, <1>5, <1>6, <1>7, <1>8, <1>9 DEF Step

LEMMA BeginStarts ==
  ASSUME TypeOK, NEW i \in Orders, Begin(i)
  PROVE  /\ At(i) = "unsent" /\ \A j \in 1..(i - 1) : At(j) # "unsent"
         /\ UNCHANGED env
         /\ \A j \in Orders \ {i} : report'[j] = report[j]
         /\ \E kind \in Kinds, at \in Places \ {"unsent", "gone"} :
               /\ Started(i, kind, at)
               /\ at \in Removing \/ kind = "provision"
               /\ at \in Removing \cup {"status", "done"}
         /\ report'[i].what \in {report[i].what, "failed"}
         /\ report'[i].what # report[i].what => At(i)' = "done"
<1> USE DEF Places, Kinds, Removing
<1>1. CASE TakeBuild(i)
  <2>1. Started(i, "provision", "status")
    BY <1>1, TakeStarts DEF TakeBuild
  <2>2. QED
    BY <1>1, <2>1 DEF TakeBuild, Take
<1>2. CASE RejectBox(i)
  <2>1. Started(i, "provision", "done")
    BY <1>2, TakeStarts DEF RejectBox
  <2>2. /\ \A j \in Orders \ {i} : report'[j] = report[j]
        /\ report'[i].what = "failed"
    BY <1>2 DEF TypeOK, RejectBox, Report
  <2>3. UNCHANGED env /\ At(i) = "unsent" /\ \A j \in 1..(i - 1) : At(j) # "unsent"
    BY <1>2 DEF RejectBox, Take
  <2>4. At(i)' = "done"
    BY <2>1 DEF Started, At
  <2>5. QED
    BY <2>1, <2>2, <2>3, <2>4
<1>3. ASSUME NEW kind \in {"stop", "destroy"}, TakeRemoval(i, kind)
      PROVE  /\ Take(i, kind, "removing") \/ Take(i, kind, "refused")
             /\ UNCHANGED <<env, report>>
  BY <1>3 DEF TakeRemoval
<1>4. CASE \E kind \in {"stop", "destroy"} : TakeRemoval(i, kind)
  <2>1. PICK kind \in {"stop", "destroy"}, at \in Removing : Take(i, kind, at)
    BY <1>3, <1>4
  <2>2. Started(i, kind, at)
    BY <2>1, TakeStarts
  <2>3. UNCHANGED <<env, report>>
    BY <1>3, <1>4
  <2>4. QED
    BY <2>1, <2>2, <2>3 DEF Take
<1>5. QED
  BY <1>1, <1>2, <1>4 DEF Begin
LEMMA NextIsOneOf ==
  ASSUME Next
  PROVE  Acknowledged \/ Reboot \/ \E i \in Orders : Begin(i) \/ Step(i)
BY DEF Next, Begin

-----------------------------------------------------------------------------
(* The order of the orders.                                                *)

LEMMA InTurnKept == ASSUME TypeOK, TakenInTurn, [Next]_vars PROVE TakenInTurn'
<1> USE DEF TakenInTurn, Ongoing, At
<1>1. CASE UNCHANGED <<order, history>>
  BY <1>1
<1>2. CASE Reboot
  <2>1. \A i \in Orders : order'[i].at \in {order[i].at, "gone"} /\ UNCHANGED history
    BY <1>2 DEF TypeOK, Reboot
  <2>2. \A i \in Orders : order'[i].at = "unsent" <=> order[i].at = "unsent"
    BY <1>2 DEF TypeOK, Reboot
  <2>3. QED
    BY <2>1, <2>2
<1>3. ASSUME NEW k \in Orders, Begin(k) PROVE TakenInTurn'
  <2>1. PICK kind \in Kinds, at \in Places \ {"unsent", "gone"} : Started(k, kind, at)
    BY <1>3, BeginStarts
  <2>2. order[k].at = "unsent" /\ \A j \in 1..(k - 1) : order[j].at # "unsent"
    BY <1>3, BeginStarts
  <2>3. \A j \in Orders : j # k => order'[j] = order[j]
    BY <2>1 DEF Started
  <2>4. order'[k].at # "unsent"
    BY <2>1 DEF Started
  <2>5. history.overlapped \subseteq history'.overlapped
        /\ \A i \in Orders : order[i].at \notin Ended => {i, k} \subseteq history'.overlapped
    BY <2>1 DEF Started, Ended
  <2>6. ASSUME NEW i \in Orders, NEW j \in Orders, i < j, order'[j].at # "unsent"
        PROVE  /\ order'[i].at # "unsent"
               /\ (order'[i].at \notin Ended => {i, j} \subseteq history'.overlapped)
    <3>1. CASE j = k
      BY <2>2, <2>3, <2>5, <2>6, <3>1, HostAssumption
    <3>2. CASE j # k
      <4>1. order[j].at # "unsent" /\ order[i].at # "unsent" /\ i # k
        BY <2>2, <2>3, <2>6, <3>2
      <4>2. QED
        BY <2>3, <2>5, <2>6, <4>1 DEF Ended
    <3>3. QED
      BY <3>1, <3>2
  <2>7. QED
    BY <2>6 DEF Ended
<1>4. ASSUME NEW k \in Orders, Step(k) PROVE TakenInTurn'
  <2>1. PICK at \in Places : Proceeds(k, at)
    BY <1>4, StepProceeds
  <2>2. /\ \A j \in Orders : j # k => order'[j] = order[j]
        /\ order'[k].at # "unsent" /\ order[k].at \notin Ended
        /\ history'.overlapped = history.overlapped
    BY <2>1 DEF Proceeds, Moved
  <2>3. QED
    BY <2>2 DEF Ended
<1>5. QED
  BY <1>1, <1>2, <1>3, <1>4, NextIsOneOf DEF Acknowledged, vars

LEMMA AnswersAndKindsKept ==
  ASSUME TypeOK, AnsweredHaveEnded, OnlyProvisionsBuild, [Next]_vars
  PROVE  AnsweredHaveEnded' /\ OnlyProvisionsBuild'
<1> USE DEF AnsweredHaveEnded, OnlyProvisionsBuild, Ongoing, At
<1>1. CASE UNCHANGED <<order, report>>
  BY <1>1
<1>2. CASE Reboot
  <2>1. /\ \A i \in Orders \ Ongoing : order'[i] = order[i]
        /\ \A i \in Ongoing : order'[i].at = "gone"
        /\ UNCHANGED report
    BY <1>2 DEF TypeOK, Reboot
  <2>2. QED
    BY <2>1
<1>3. ASSUME NEW k \in Orders, Begin(k)
      PROVE  AnsweredHaveEnded' /\ OnlyProvisionsBuild'
  <2>1. PICK kind \in Kinds, at \in Places \ {"unsent", "gone"} :
           Started(k, kind, at) /\ (at \in Removing \/ kind = "provision")
    BY <1>3, BeginStarts
  <2>2. /\ \A j \in Orders \ {k} : order'[j] = order[j] /\ report'[j] = report[j]
        /\ order'[k] = [kind |-> kind, at |-> at]
        /\ order[k].at = "unsent"
        /\ report'[k].what # report[k].what => order'[k].at = "done"
    BY <1>3, <2>1, BeginStarts DEF Started
  <2>3. QED
    BY <2>1, <2>2
<1>4. ASSUME NEW k \in Orders, Step(k)
      PROVE  AnsweredHaveEnded' /\ OnlyProvisionsBuild'
  <2>1. PICK at \in Places : /\ Proceeds(k, at)
                             /\ (at \in Removing => At(k) \in Removing)
                             /\ (At(k) \in Removing => at = "done")
    BY <1>4, StepProceeds
  <2>2. /\ \A j \in Orders \ {k} : order'[j] = order[j] /\ report'[j] = report[j]
        /\ order'[k] = [kind |-> order[k].kind, at |-> at]
        /\ order[k].at \notin Ended
    BY <2>1 DEF Proceeds, Moved
  <2>3. report'[k].what # report[k].what => order'[k].at = "done"
    <3>1. CASE UNCHANGED report
      BY <3>1
    <3>2. CASE ReadAddress(k)
      BY <3>2 DEF ReadAddress, TypeOK, Answer
    <3>3. CASE Goto(k, "done")
      BY <3>3 DEF Goto, TypeOK
    <3>4. QED
      BY <1>4, <3>1, <3>2, <3>3 DEF Step, CheckStatus, BeginCommand, EndClean, Boot, EndUp,
         Resume, ReportBuild, EndRemoval
  <2>4. QED
    BY <2>1, <2>2, <2>3 DEF Ended
<1>5. QED
  BY <1>1, <1>2, <1>3, <1>4, NextIsOneOf DEF Acknowledged, vars
-----------------------------------------------------------------------------
(* The environment an undisturbed order finds.                             *)

\* The step of an order that has met no other is the only one there is.
LEMMA StepsAlone ==
  ASSUME TakenInTurn, NEW i \in Orders, NEW k \in Orders \ {i},
         At(k) \notin Ended, At(i) \notin Ended
  PROVE  i \in history.overlapped
<1>1. i \in Ongoing /\ k \in Ongoing
  BY DEF Ongoing, Ended
<1>2. i < k \/ k < i
  BY HostAssumption
<1>3. QED
  BY <1>1, <1>2 DEF TakenInTurn, Ended

LEMMA OwnStepUndisturbed ==
  ASSUME HostInv, NEW i \in Orders, Step(i),
         i \notin history'.overlapped \cup history'.stale
  PROVE  Undisturbed(i)'
<1> USE DEF Undisturbed
<1>1. i \notin history.overlapped \cup history.stale
  BY StepProceeds DEF HostInv, Proceeds
<1>2. Undisturbed(i)
  BY <1>1 DEF HostInv, BuildsUndisturbed
<1>3. TypeOK /\ report[i].what = "none"
  BY StepProceeds DEF HostInv, AnsweredHaveEnded, Proceeds, Ended
<1>4. CASE CheckStatus(i)
  <2>1. Goto(i, "up") => ~(env.state = "halted" /\ ~seenHalted)
    BY <1>3, <1>4 DEF CheckStatus, TypeOK, History, Goto, Detected
  <2>2. PICK at \in Places : /\ Moved(i, at) /\ Goto(i, at)
                             /\ (at = "up" /\ ~Detected) \/ at \in {"clean", "failed"}
    BY <1>3, <1>4, GotoMoves DEF CheckStatus, Places
  <2>3. at = "up" => env.state = "absent"
    BY <1>3, <2>1, <2>2 DEF Detected, TypeOK, EnvState
  <2>4. QED
    BY <1>3, <1>4, <2>2, <2>3 DEF CheckStatus, Moved, At
<1>5. CASE BeginCommand(i)
  <2>1. PICK at \in Places : /\ Moved(i, at)
                             /\ at \in {"failed", "cleaning", "booting"}
                             /\ at = "booting" => At(i) = "up"
    BY <1>3, <1>5, GotoMoves DEF BeginCommand, Places
  <2>2. QED
    BY <1>2, <1>3, <1>5, <2>1 DEF BeginCommand, Moved, At
<1>6. CASE EndClean(i)
  <2>1. PICK at \in Places : Moved(i, at) /\ (at = "failed" \/ (at = "up" /\ env' = Absent))
    BY <1>3, <1>6, GotoMoves DEF EndClean, Places
  <2>2. QED
    BY <1>3, <1>6, <2>1 DEF EndClean, Moved, At, Absent
<1>7. CASE Boot(i)
  <2>1. Moved(i, "booted")
    BY <1>3, <1>7, GotoMoves DEF Boot, Places
  <2>2. env.state = "absent"
    BY <1>2, <1>7 DEF Boot
  <2>3. QED
    BY <1>3, <1>7, <2>1, <2>2 DEF Boot, Moved, At
<1>8. CASE EndUp(i)
  <2>1. PICK at \in Places : Moved(i, at) /\ (at = "failed" \/ (at = "built" /\ At(i) = "booted"))
    BY <1>3, <1>8, GotoMoves DEF EndUp, Places
  <2>2. QED
    BY <1>2, <1>3, <1>8, <2>1 DEF EndUp, Moved, At
<1>9. CASE Resume(i)
  <2>1. PICK at \in Places : /\ Moved(i, at)
                             /\ \/ at = "address" /\ At(i) = "built" /\ UNCHANGED report
                                \/ at = "done" /\ Report(i, "failed", currentVm, 0)
    BY <1>3, <1>9, GotoMoves DEF Resume, Places
  <2>2. ASSUME at = "done" PROVE report'[i].what = "failed"
    <3>1. Report(i, "failed", currentVm, 0)
      BY <2>1, <2>2
    <3>2. QED
      BY <1>3, <3>1 DEF Report, TypeOK
  <2>3. QED
    BY <1>2, <1>3, <1>9, <2>1, <2>2 DEF Resume, Moved, At
<1>10. CASE ReadAddress(i)
  <2>1. Moved(i, "reporting")
    BY <1>3, <1>10, GotoMoves DEF ReadAddress, Places
  <2>2. env.state = "running" /\ env.made = i
    BY <1>2, <1>10 DEF ReadAddress
  <2>3. report'[i].made \in {0, i}
    BY <1>3, <1>10, <2>2 DEF ReadAddress, TypeOK
  <2>4. QED
    BY <1>2, <1>10, <2>1, <2>3 DEF ReadAddress, Moved, At
<1>11. CASE ReportBuild(i)
  <2>1. Moved(i, "done")
    BY <1>3, <1>11, GotoMoves DEF ReportBuild, Places
  <2>2. report'[i].made \in {0, i}
    BY <1>2, <1>3, <1>11 DEF ReportBuild, Report, TypeOK
  <2>3. QED
    BY <2>1, <2>2 DEF Moved, At
<1>12. CASE EndRemoval(i)
  <2>1. Moved(i, "done")
    BY <1>3, <1>12, GotoMoves DEF EndRemoval, Places
  <2>2. report'[i].what # "provisioned"
    BY <1>3, <1>12 DEF EndRemoval, Report, TypeOK
  <2>3. QED
    BY <2>1, <2>2 DEF Moved, At
<1>13. QED
  BY <1>4, <1>5, <1>6, <1>7, <1>8, <1>9, <1>10, <1>11, <1>12 DEF Step

LEMMA UndisturbedKept == ASSUME HostInv, [Next]_vars PROVE BuildsUndisturbed'
<1> SUFFICES ASSUME NEW i \in Orders, i \notin history'.overlapped \cup history'.stale
             PROVE  Undisturbed(i)'
  BY DEF BuildsUndisturbed
<1>1. CASE UNCHANGED <<order, env, report, history>>
  BY <1>1 DEF HostInv, BuildsUndisturbed, Undisturbed, At
<1>2. CASE Reboot
  <2>1. /\ order'[i].at \in Ended
        /\ (order'[i].at = "done" => order[i].at = "done")
        /\ UNCHANGED <<report, history>>
    BY <1>2 DEF HostInv, TypeOK, Reboot, Ongoing, At, Ended
  <2>2. QED
    BY <2>1 DEF HostInv, BuildsUndisturbed, Undisturbed, At, Ended
<1>3. ASSUME NEW k \in Orders, Begin(k) PROVE Undisturbed(i)'
  <2>1. PICK kind \in Kinds, at \in Places \ {"unsent", "gone"} :
           Started(k, kind, at) /\ at \in Removing \cup {"status", "done"}
    BY <1>3, BeginStarts DEF HostInv
  <2>2. i \notin history.overlapped \cup history.stale /\ Undisturbed(i)
    BY <2>1 DEF HostInv, BuildsUndisturbed, Started
  <2>3. CASE i = k
    <3>1. report'[i].what # "provisioned"
      BY <1>3, <2>3, BeginStarts DEF HostInv, AnsweredHaveEnded
    <3>2. QED
      BY <2>1, <2>3, <3>1 DEF Started, Undisturbed, At, Removing
  <2>4. CASE i # k
    <3>1. order'[i] = order[i] /\ report'[i] = report[i] /\ env' = env
      BY <1>3, <2>1, <2>4, BeginStarts DEF Started, HostInv
    <3>2. QED
      BY <2>2, <3>1 DEF Undisturbed, At
  <2>5. QED
    BY <2>3, <2>4
<1>4. ASSUME NEW k \in Orders, Step(k), k # i PROVE Undisturbed(i)'
  <2>1. PICK at \in Places : Proceeds(k, at)
    BY <1>4, StepProceeds DEF HostInv
  <2>2. /\ i \notin history.overlapped \cup history.stale
        /\ order'[i] = order[i] /\ report'[i] = report[i]
    BY <1>4, <2>1 DEF Proceeds, Moved
  <2>3. At(i) \in Ended
    BY <1>4, <2>1, <2>2, StepsAlone DEF HostInv, Proceeds
  <2>4. QED
    BY <2>2, <2>3 DEF HostInv, BuildsUndisturbed, Undisturbed, At, Ended
<1>5. QED
  BY <1>1, <1>2, <1>3, <1>4, OwnStepUndisturbed, NextIsOneOf DEF Acknowledged, vars

LEMMA DestroyedKept == ASSUME HostInv, [Next]_vars PROVE DestroyedIsAbsent'
<1> USE DEF LastDestroyed, At
<1> SUFFICES ASSUME NEW i \in Orders, i \notin history'.overlapped \cup history'.broken,
                    LastDestroyed(i)'
             PROVE  env'.state = "absent"
  BY DEF DestroyedIsAbsent
<1>1. CASE UNCHANGED <<order, env, history>>
  BY <1>1 DEF HostInv, DestroyedIsAbsent
<1>2. CASE Reboot
  <2>1. LastDestroyed(i) /\ UNCHANGED history
    BY <1>2 DEF HostInv, TypeOK, Reboot, Ongoing
  <2>2. env.state = "absent"
    BY <2>1 DEF HostInv, DestroyedIsAbsent
  <2>3. QED
    BY <1>2, <2>2 DEF Reboot
<1>3. ASSUME NEW k \in Orders, Begin(k) PROVE FALSE
  <2>1. PICK kind \in Kinds, at \in Places \ {"unsent", "gone"} :
           /\ Started(k, kind, at)
           /\ at \in Removing \/ kind = "provision"
    BY <1>3, BeginStarts DEF HostInv
  <2>2. order'[k] = [kind |-> kind, at |-> at]
    BY <2>1 DEF Started
  <2>3. k # i /\ ~(k > i)
    BY <2>1, <2>2 DEF Removing
  <2>4. order[k].at = "unsent" /\ order[i].at # "unsent" /\ k < i
    BY <1>3, <2>1, <2>3, BeginStarts, HostAssumption DEF HostInv, Started
  <2>5. QED
    BY <2>4 DEF HostInv, TakenInTurn
<1>4. ASSUME NEW k \in Orders, Step(k) PROVE env'.state = "absent"
  <2>1. PICK at \in Places : /\ Proceeds(k, at)
                             /\ (At(k) \in Removing => EndRemoval(k))
    BY <1>4, StepProceeds DEF HostInv
  <2>2. /\ \A j \in Orders \ {k} : order'[j] = order[j]
        /\ order'[k] = [kind |-> order[k].kind, at |-> at]
        /\ order[k].at \notin Ended /\ at # "unsent"
        /\ i \notin history.overlapped \cup history.broken
    BY <2>1 DEF Proceeds, Moved
  <2>3. k = i
    <3>1. SUFFICES ASSUME k # i PROVE FALSE
      OBVIOUS
    <3>2. k < i /\ order[i].at = "done"
      BY <2>2, <3>1, HostAssumption
    <3>3. k \in Ongoing
      BY <2>2 DEF Ongoing, Ended
    <3>4. QED
      BY <2>2, <3>2, <3>3 DEF HostInv, TakenInTurn
  <2>4. EndRemoval(i) /\ order[i].kind = "destroy"
    BY <2>1, <2>2, <2>3 DEF HostInv, OnlyProvisionsBuild, Ongoing, Ended
  <2>5. i \notin history'.broken => env' = Removed("destroy")
    BY <2>4 DEF EndRemoval, HostInv, TypeOK, History
  <2>6. QED
    BY <2>5 DEF Removed, Absent
<1>5. QED
  BY <1>1, <1>2, <1>3, <1>4, NextIsOneOf DEF Acknowledged, vars

-----------------------------------------------------------------------------
LEMMA InitHostInv == ASSUME Init PROVE HostInv
<1>1. TypeOK
  BY InitTypes
<1>2. \A i \in Orders : At(i) = "unsent" /\ report[i].what = "none"
  BY DEF Init, At
<1>3. QED
  BY <1>1, <1>2 DEF HostInv, TakenInTurn, AnsweredHaveEnded, OnlyProvisionsBuild, Ongoing,
     BuildsUndisturbed, Undisturbed, DestroyedIsAbsent, LastDestroyed

LEMMA HostInvKept == ASSUME HostInv, [Next]_vars PROVE HostInv'
BY TypesKept, InTurnKept, AnswersAndKindsKept, UndisturbedKept, DestroyedKept DEF HostInv

LEMMA HostInvariant == Spec => []HostInv
BY InitHostInv, HostInvKept, PTL DEF Spec

\* Types of the connector's handlers and of its machine.
THEOREM HostTypeCorrect == Spec => []TypeOK
<1>1. HostInv => TypeOK
  BY DEF HostInv
<1>2. QED
  BY <1>1, HostInvariant, PTL

\* A build that on_provision_vm reports as live stands for a machine of its own that runs,
\* and the address told is that machine's or the default one of get_vagrant_ssh_info.
THEOREM LiveBuildsOwnTheirMachine == Spec => []LiveMeansItsOwn
<1>1. HostInv => LiveMeansItsOwn
  BY DEF HostInv, BuildsUndisturbed, Undisturbed, LiveMeansItsOwn
<1>2. QED
  BY <1>1, HostInvariant, PTL

\* A destroy that on_destroy_vm has answered last leaves no machine behind.
THEOREM DestroyLeavesNothing == Spec => []NothingOutlivesDestroy
<1>1. HostInv => NothingOutlivesDestroy
  BY DEF HostInv, DestroyedIsAbsent, LastDestroyed, NothingOutlivesDestroy
<1>2. QED
  BY <1>1, HostInvariant, PTL
-----------------------------------------------------------------------------
(* The connector implements ConnectorPromise.                              *)

StageOf(at) == IF at \in {"unsent", "removing", "refused"} THEN "unsent"
               ELSE IF at = "done" THEN "answered"
               ELSE IF at = "gone" THEN "gone" ELSE "building"

LEMMA StageMoves ==
  ASSUME TypeOK, NEW i \in Orders, NEW at,
         order'[i].at = at, \A j \in Orders \ {i} : order'[j] = order[j]
  PROVE  Stage' = [Stage EXCEPT ![i] = StageOf(at)]
BY DEF Stage, StageOf, At

LEMMA AnswerMoves ==
  ASSUME TypeOK, NEW i \in Orders, NEW what, NEW vm, NEW made, Report(i, what, vm, made)
  PROVE  GivenAnswer' = [GivenAnswer EXCEPT ![i] = [what |-> what, vm |-> vm]]
BY DEF TypeOK, Report, GivenAnswer

LEMMA InitPromised == ASSUME Init PROVE Promise!Init
BY DEF Init, Promise!Init, Promise!Orders, Promise!NoAnswer, Stage, GivenAnswer, At

LEMMA StepPromised == ASSUME HostInv, [Next]_vars PROVE [Promise!Next]_(Promise!vars)
<1> USE DEF Promise!Orders, Promise!vars
<1>0. TypeOK
  BY DEF HostInv
<1>1. CASE UNCHANGED vars
  BY <1>1 DEF vars, Stage, GivenAnswer, At
<1>2. CASE Acknowledged
  <2>1. Promise!Acknowledge
    BY <1>2 DEF Acknowledged, Promise!Acknowledge, Stage, GivenAnswer, At
  <2>2. QED
    BY <2>1 DEF Promise!Next
<1>3. CASE Reboot
  <2>1. Ongoing \in SUBSET {i \in Orders : Stage[i] # "answered"}
    BY DEF Ongoing, Stage
  <2>2. \A i \in Orders : Stage[i] = "building" => i \in Ongoing
    BY DEF Ongoing, Stage
  <2>3. Stage' = [i \in Orders |-> IF i \in Ongoing THEN "gone" ELSE Stage[i]]
    BY <1>0, <1>3 DEF Reboot, TypeOK, Ongoing, Stage, At
  <2>4. Promise!Restart
    BY <1>3, <2>1, <2>2, <2>3 DEF Reboot, Promise!Restart, GivenAnswer
  <2>5. QED
    BY <2>4 DEF Promise!Next
<1>4. ASSUME NEW i \in Orders, TakeBuild(i) PROVE Promise!Provision(i)
  <2>1. Started(i, "provision", "status") /\ At(i) = "unsent"
    BY <1>0, <1>4, TakeStarts DEF TakeBuild, Kinds, Places
  <2>2. Stage' = [Stage EXCEPT ![i] = "building"] /\ Stage[i] = "unsent"
    BY <1>0, <2>1, StageMoves DEF Started, StageOf, Stage
  <2>3. QED
    BY <1>4, <2>2 DEF TakeBuild, Promise!Provision, GivenAnswer
<1>5. ASSUME NEW i \in Orders, RejectBox(i) PROVE Promise!Reject(i)
  <2>1. Started(i, "provision", "done") /\ At(i) = "unsent"
    BY <1>0, <1>5, TakeStarts DEF RejectBox, Kinds, Places
  <2>2. Stage' = [Stage EXCEPT ![i] = "answered"] /\ Stage[i] = "unsent"
    BY <1>0, <2>1, StageMoves DEF Started, StageOf, Stage
  <2>3. GivenAnswer' = [GivenAnswer EXCEPT ![i] = [what |-> "failed", vm |-> Vm]]
    BY <1>0, <1>5, AnswerMoves DEF RejectBox
  <2>4. QED
    BY <1>5, <2>2, <2>3 DEF RejectBox, Promise!Reject
<1>6. ASSUME NEW i \in Orders, NEW kind \in {"stop", "destroy"}, TakeRemoval(i, kind)
      PROVE  UNCHANGED Promise!vars
  <2>1. PICK at \in Removing : Started(i, kind, at) /\ At(i) = "unsent"
    BY <1>0, <1>6, TakeStarts DEF TakeRemoval, Kinds, Places, Removing
  <2>2. Stage' = [Stage EXCEPT ![i] = "unsent"] /\ Stage[i] = "unsent"
    BY <1>0, <2>1, StageMoves DEF Started, StageOf, Stage, Removing
  <2>3. Stage' = Stage
    BY <2>2 DEF Stage
  <2>4. QED
    BY <1>6, <2>3 DEF TakeRemoval, GivenAnswer
<1>7. ASSUME NEW i \in Orders, EndRemoval(i) PROVE Promise!Remove(i)
  <2>1. Moved(i, "done") /\ At(i) \in Removing
    BY <1>0, <1>7, GotoMoves DEF EndRemoval, Places, Removing
  <2>2. Stage' = [Stage EXCEPT ![i] = "answered"] /\ Stage[i] = "unsent"
    BY <1>0, <2>1, StageMoves DEF Moved, StageOf, Stage, Removing
  <2>3. PICK what \in {"stopped", "destroyed"} : Report(i, what, Vm, 0)
    BY <1>7 DEF EndRemoval
  <2>4. GivenAnswer' = [GivenAnswer EXCEPT ![i] = [what |-> what, vm |-> Vm]]
    BY <1>0, <2>3, AnswerMoves
  <2>5. QED
    BY <1>7, <2>2, <2>4 DEF EndRemoval, Promise!Remove
<1>8. ASSUME NEW i \in Orders, NEW what \in {"provisioned", "failed"}, NEW made,
             Report(i, what, currentVm, made), Goto(i, "done"), UNCHANGED currentVm,
             At(i) \in {"failed", "reporting"}
      PROVE  Promise!Finish(i)
  <2>1. Moved(i, "done")
    BY <1>0, <1>8, GotoMoves DEF Places
  <2>2. Stage' = [Stage EXCEPT ![i] = "answered"] /\ Stage[i] = "building"
    BY <1>0, <1>8, <2>1, StageMoves DEF Moved, StageOf, Stage
  <2>3. GivenAnswer' = [GivenAnswer EXCEPT ![i] = [what |-> what, vm |-> currentVm]]
    BY <1>0, <1>8, AnswerMoves
  <2>4. QED
    BY <1>8, <2>2, <2>3 DEF Promise!Finish
<1>9. ASSUME NEW i \in Orders, NEW at \in Places \ (Ended \cup Removing), Moved(i, at),
             At(i) \notin Ended \cup Removing, UNCHANGED <<currentVm, GivenAnswer>>
      PROVE  UNCHANGED Promise!vars
  <2>1. Stage' = [Stage EXCEPT ![i] = "building"] /\ Stage[i] = "building"
    BY <1>0, <1>9, StageMoves DEF Moved, StageOf, Stage, Ended, Removing
  <2>2. QED
    BY <1>9, <2>1 DEF Stage
<1>10. ASSUME NEW i \in Orders, Step(i) PROVE Promise!Finish(i) \/ Promise!Remove(i)
                                              \/ UNCHANGED Promise!vars
  <2> USE DEF Places, Ended, Removing
  <2>1. CASE CheckStatus(i)
    <3>1. PICK at \in {"clean", "up", "failed"} : Moved(i, at)
      BY <1>0, <2>1, GotoMoves DEF CheckStatus
    <3>2. QED
      BY <1>9, <2>1, <3>1 DEF CheckStatus, GivenAnswer
  <2>2. CASE BeginCommand(i)
    <3>1. PICK at \in {"failed", "cleaning", "booting"} : Moved(i, at)
      BY <1>0, <2>2, GotoMoves DEF BeginCommand
    <3>2. QED
      BY <1>9, <2>2, <3>1 DEF BeginCommand, GivenAnswer
  <2>3. CASE EndClean(i)
    <3>1. PICK at \in {"up", "failed"} : Moved(i, at)
      BY <1>0, <2>3, GotoMoves DEF EndClean
    <3>2. QED
      BY <1>9, <2>3, <3>1 DEF EndClean, GivenAnswer
  <2>4. CASE Boot(i)
    BY <1>0, <1>9, <2>4, GotoMoves DEF Boot, GivenAnswer
  <2>5. CASE EndUp(i)
    <3>1. PICK at \in {"built", "failed"} : Moved(i, at)
      BY <1>0, <2>5, GotoMoves DEF EndUp
    <3>2. QED
      BY <1>9, <2>5, <3>1 DEF EndUp, GivenAnswer
  <2>6. CASE Resume(i)
    <3>1. CASE At(i) = "built" /\ Goto(i, "address") /\ UNCHANGED report
      BY <1>0, <1>9, <2>6, <3>1, GotoMoves DEF Resume, GivenAnswer
    <3>2. CASE At(i) = "failed" /\ Goto(i, "done") /\ Report(i, "failed", currentVm, 0)
      BY <1>8, <2>6, <3>2 DEF Resume
    <3>3. QED
      BY <2>6, <3>1, <3>2 DEF Resume
  <2>7. CASE ReadAddress(i)
    <3>1. Moved(i, "reporting")
      BY <1>0, <2>7, GotoMoves DEF ReadAddress
    <3>2. UNCHANGED GivenAnswer
      BY <1>0, <2>7 DEF ReadAddress, GivenAnswer, TypeOK, Answer
    <3>3. QED
      BY <1>9, <2>7, <3>1, <3>2 DEF ReadAddress
  <2>8. CASE ReportBuild(i)
    BY <1>8, <2>8 DEF ReportBuild
  <2>9. QED
    BY <1>7, <1>10, <2>1, <2>2, <2>3, <2>4, <2>5, <2>6, <2>7, <2>8 DEF Step
<1>11. QED
  BY <1>1, <1>2, <1>3, <1>4, <1>5, <1>6, <1>10 DEF Next, Promise!Next

\* The handlers of agent_lifecycle_debug.py answer builds and removals the way the
\* backend may assume: one answer each, for the VM the connector has then.
THEOREM ConnectorKeepsPromise == Spec => KeepsPromise
BY InitPromised, StepPromised, HostInvariant, PTL DEF Spec, KeepsPromise, Promise!Spec
=============================================================================
