-------------------------------- MODULE Host --------------------------------
(***************************************************************************)
(* What the connector does with its orders: the provision, stop and        *)
(* destroy handlers of agent_lifecycle_debug.py over the one Vagrant       *)
(* environment of a provider's machine.                                    *)
(*                                                                         *)
(* Handlers are coroutines of one event loop.  A build runs in a thread of *)
(* the executor, beside the loop; stop and destroy wait for their command  *)
(* in the loop itself and hold every other handler up.  Vagrant is modelled*)
(* from its use: up, halt and destroy lock the machine and fail at once    *)
(* when it is locked, status and ssh-config do not.  Orders carry the VM   *)
(* of the machine's key.  ProviderAgent has the connection and the         *)
(* reports' way to the backend; files and commands are JobExecution's.     *)
(***************************************************************************)
EXTENDS Naturals

CONSTANTS MaxOrders,   \* bound: orders received, numbered in their order
          Vm, NoVm     \* the VM of the key, and Python's None

ASSUME HostAssumption == MaxOrders \in Nat /\ Vm # NoVm

VARIABLES
    order,      \* the handler of each order
    currentVm,  \* current_vm_id
    loop,       \* the order whose command the event loop waits for, or 0
    lock,       \* the order whose command holds Vagrant's lock, or 0
    env,        \* the Vagrant environment: its state and the order that created it
    seenHalted, \* whether this provider's word for a halted machine is one run_vagrant looks for
    report,     \* what each order was answered with
    history     \* for the properties, see History
vars == <<order, currentVm, loop, lock, env, seenHalted, report, history>>

Orders == 1..MaxOrders
Kinds == {"none", "provision", "stop", "destroy"}
Places == {"unsent", "status", "clean", "cleaning", "up", "booting", "booted", "built",
           "address", "reporting", "failed", "removing", "refused", "done", "gone"}
EnvState == [state : {"absent", "running", "halted"}, made : 0..MaxOrders]
Answer == [what : {"none", "provisioned", "failed", "stopped", "destroyed"},
           vm : {Vm, NoVm}, made : 0..MaxOrders]

\* The orders that were in progress together with another one, whose build found a halted
\* machine it did not recognise, and whose removal failed.
History == [overlapped : SUBSET Orders, stale : SUBSET Orders, broken : SUBSET Orders]

Absent == [state |-> "absent", made |-> 0]

Init == /\ order = [i \in Orders |-> [kind |-> "none", at |-> "unsent"]]
        /\ currentVm = NoVm /\ loop = 0 /\ lock = 0 /\ env = Absent
        /\ seenHalted \in BOOLEAN
        /\ report = [i \in Orders |-> [what |-> "none", vm |-> NoVm, made |-> 0]]
        /\ history = [overlapped |-> {}, stale |-> {}, broken |-> {}]

At(i) == order[i].at
Ongoing == {i \in Orders : At(i) \notin {"unsent", "done", "gone"}}
Goto(i, at) == order' = [order EXCEPT ![i].at = at]
Report(i, what, vm, made) ==
    report' = [report EXCEPT ![i] = [what |-> what, vm |-> vm, made |-> made]]

\* The loop takes order i, the next one to have come.
Take(i, kind, at) ==
    /\ loop = 0 /\ At(i) = "unsent" /\ \A j \in 1..(i - 1) : At(j) # "unsent"
    /\ order' = [order EXCEPT ![i] = [kind |-> kind, at |-> at]]
    /\ history' = IF Ongoing = {} THEN history
                  ELSE [history EXCEPT !.overlapped = @ \cup Ongoing \cup {i}]

-----------------------------------------------------------------------------
(* on_connection_acknowledged, after every registration. *)

\* Mutant: the payload is kept for its vm_id.
AcknowledgedPayload ==
    /\ loop = 0
    /\ currentVm' = [vm_id |-> Vm]
    /\ UNCHANGED <<order, loop, lock, env, seenHalted, report, history>>

Acknowledged ==
    /\ loop = 0
    /\ currentVm' = Vm
    /\ UNCHANGED <<order, loop, lock, env, seenHalted, report, history>>

-----------------------------------------------------------------------------
(* on_provision_vm and run_vagrant. *)

\* The handler up to its thread.
TakeBuild(i) ==
    /\ Take(i, "provision", "status")
    /\ currentVm' = Vm
    /\ UNCHANGED <<loop, lock, env, seenHalted, report>>

\* No box is known for os_choice: answered at once.
RejectBox(i) ==
    /\ Take(i, "provision", "done")
    /\ currentVm' = Vm
    /\ Report(i, "failed", Vm, 0)
    /\ UNCHANGED <<loop, lock, env, seenHalted>>

\* Mutant: a running machine is not cleaned up.
DetectedUnlessRunning == (env.state = "halted" /\ seenHalted)
\* running, poweroff, saved or aborted is among the words of vagrant status.
Detected == (env.state = "running" \/ (env.state = "halted" /\ seenHalted))

\* vagrant status is asked; check_output raises when it fails, which ends the build.
CheckStatus(i) ==
    /\ At(i) = "status"
    /\ \/ /\ Goto(i, IF Detected THEN "clean" ELSE "up")
          /\ history' = [history EXCEPT !.stale = IF env.state = "halted" /\ ~seenHalted
                                                  THEN @ \cup {i} ELSE @]
       \/ Goto(i, "failed") /\ UNCHANGED history
    /\ UNCHANGED <<currentVm, loop, lock, env, seenHalted, report>>

\* destroy -f or up is started; check=True makes a failure end the build.
BeginCommand(i) ==
    /\ At(i) \in {"clean", "up"}
    /\ IF lock # 0 THEN Goto(i, "failed") /\ UNCHANGED lock
       ELSE /\ Goto(i, IF At(i) = "clean" THEN "cleaning" ELSE "booting")
            /\ lock' = i
    /\ UNCHANGED <<currentVm, loop, env, seenHalted, report, history>>

EndClean(i) ==
    /\ At(i) = "cleaning"
    /\ lock' = 0
    /\ \/ env' = Absent /\ Goto(i, "up")
       \/ UNCHANGED env /\ Goto(i, "failed")
    /\ UNCHANGED <<currentVm, loop, seenHalted, report, history>>

\* up creates the machine when there is none, and starts the one there is.
Boot(i) ==
    /\ At(i) = "booting"
    /\ env' = [state |-> "running", made |-> IF env.state = "absent" THEN i ELSE env.made]
    /\ Goto(i, "booted")
    /\ UNCHANGED <<currentVm, loop, lock, seenHalted, report, history>>

\* up fails before the machine runs or after.
EndUp(i) ==
    /\ \/ At(i) = "booted" /\ Goto(i, "built")
       \/ At(i) \in {"booting", "booted"} /\ Goto(i, "failed")
    /\ lock' = 0
    /\ UNCHANGED <<currentVm, loop, env, seenHalted, report, history>>

\* Mutant: a failed build is logged only.
ResumeSilent(i) ==
    /\ loop = 0 /\ At(i) \in {"built", "failed"}
    /\ Goto(i, IF At(i) = "built" THEN "address" ELSE "done")
    /\ UNCHANGED <<currentVm, loop, lock, env, seenHalted, report, history>>

\* The loop goes on with the result of the thread; a failure is reported for whatever
\* current_vm_id is by now.
Resume(i) ==
    /\ loop = 0
    /\ \/ At(i) = "built" /\ Goto(i, "address") /\ UNCHANGED report
       \/ At(i) = "failed" /\ Goto(i, "done") /\ Report(i, "failed", currentVm, 0)
    /\ UNCHANGED <<currentVm, loop, lock, env, seenHalted, history>>

\* get_vagrant_ssh_info: the running machine's address, or a default one, here of order 0,
\* when ssh-config fails: it must without a running machine and may with one.
ReadAddress(i) ==
    /\ At(i) = "address"
    /\ Goto(i, "reporting")
    /\ \E made \in {0} \cup (IF env.state = "running" THEN {env.made} ELSE {}) :
          report' = [report EXCEPT ![i].made = made]
    /\ UNCHANGED <<currentVm, loop, lock, env, seenHalted, history>>

ReportBuild(i) ==
    /\ loop = 0 /\ At(i) = "reporting"
    /\ Goto(i, "done")
    /\ Report(i, "provisioned", currentVm, report[i].made)
    /\ UNCHANGED <<currentVm, loop, lock, env, seenHalted, history>>

-----------------------------------------------------------------------------
(* on_stop_vm and on_destroy_vm. *)

TakeRemoval(i, kind) ==
    /\ Take(i, kind, IF lock = 0 THEN "removing" ELSE "refused")
    /\ loop' = i
    /\ lock' = IF lock = 0 THEN i ELSE lock
    /\ UNCHANGED <<currentVm, env, seenHalted, report>>

\* Mutant: destroy halts the machine.
RemovedHalting(kind) == IF env.state = "running" THEN [env EXCEPT !.state = "halted"] ELSE env
Removed(kind) == IF kind = "destroy" THEN Absent
                 ELSE IF env.state = "running" THEN [env EXCEPT !.state = "halted"] ELSE env

\* Mutant: the connector goes on naming the VM.
EndRemovalNamed(i) ==
    /\ At(i) \in {"removing", "refused"}
    /\ \/ At(i) = "removing" /\ env' = Removed(order[i].kind) /\ UNCHANGED history
       \/ UNCHANGED env /\ history' = [history EXCEPT !.broken = @ \cup {i}]
    /\ loop' = 0
    /\ lock' = IF lock = i THEN 0 ELSE lock
    /\ UNCHANGED currentVm
    /\ Report(i, IF order[i].kind = "stop" THEN "stopped" ELSE "destroyed", Vm, 0)
    /\ Goto(i, "done")
    /\ UNCHANGED seenHalted

\* check=False: the answer is the same when the command has failed.
EndRemoval(i) ==
    /\ At(i) \in {"removing", "refused"}
    /\ \/ At(i) = "removing" /\ env' = Removed(order[i].kind) /\ UNCHANGED history
       \/ UNCHANGED env /\ history' = [history EXCEPT !.broken = @ \cup {i}]
    /\ loop' = 0
    /\ lock' = IF lock = i THEN 0 ELSE lock
    /\ currentVm' = NoVm
    /\ Report(i, IF order[i].kind = "stop" THEN "stopped" ELSE "destroyed", Vm, 0)
    /\ Goto(i, "done")
    /\ UNCHANGED seenHalted

-----------------------------------------------------------------------------
\* The machine is restarted: handlers and commands end, a running machine is halted.
Reboot ==
    /\ order' = [i \in Orders |-> IF i \in Ongoing THEN [order[i] EXCEPT !.at = "gone"]
                                  ELSE order[i]]
    /\ currentVm' = NoVm /\ loop' = 0 /\ lock' = 0
    /\ env' = IF env.state = "running" THEN [env EXCEPT !.state = "halted"] ELSE env
    /\ UNCHANGED <<seenHalted, report, history>>

Step(i) == \/ CheckStatus(i) \/ BeginCommand(i) \/ EndClean(i) \/ Boot(i) \/ EndUp(i)
           \/ Resume(i) \/ ReadAddress(i) \/ ReportBuild(i) \/ EndRemoval(i)

Next == \/ Acknowledged \/ Reboot
        \/ \E i \in Orders : \/ TakeBuild(i) \/ RejectBox(i) \/ Step(i)
                             \/ \E kind \in {"stop", "destroy"} : TakeRemoval(i, kind)

\* Commands end and the loop resumes a handler whose thread has ended.
Fairness == \A i \in Orders : WF_vars(Step(i))
Spec == Init /\ [][Next]_vars /\ Fairness
=============================================================================
