--------------------------- MODULE HostProperties ---------------------------
(***************************************************************************)
(* What the answers of a connector say about its machine.                  *)
(***************************************************************************)
EXTENDS Host

\* Handlers, answers and the environment have their types, and the lock and the loop
\* belong to orders whose commands run.
TypeOK ==
    /\ order \in [Orders -> [kind : Kinds, at : Places]]
    /\ currentVm \in {Vm, NoVm}
    /\ loop \in 0..MaxOrders /\ (loop # 0 => At(loop) \in {"removing", "refused"})
    /\ lock \in 0..MaxOrders
    /\ (lock # 0 => At(lock) \in {"cleaning", "booting", "booted", "removing"})
    /\ env \in EnvState /\ seenHalted \in BOOLEAN
    /\ report \in [Orders -> Answer]
    /\ history \in History

\* A build that is about to be reported as live has given its renter a machine of its own,
\* which runs, and the address the backend is told is that machine's or, when ssh-config
\* failed, the default one (agent_lifecycle_debug.py:256), never an older machine's; unless
\* another order came in between or a halted machine was not recognised (:465).
LiveMeansItsOwn ==
    \A i \in Orders \ (history.overlapped \cup history.stale) :
        /\ At(i) = "reporting" => env = [state |-> "running", made |-> i]
        /\ report[i].what = "provisioned" => report[i].made \in {0, i}

\* When the last order was a destroy and everything is answered, no machine is left,
\* unless the destroy met a build under way or its command failed, which its answer
\* does not show (agent_lifecycle_debug.py:701).
NothingOutlivesDestroy ==
    \A i \in Orders :
        /\ order[i].kind = "destroy" /\ At(i) = "done" /\ Ongoing = {}
        /\ \A j \in Orders : j > i => At(j) = "unsent"
        => env.state = "absent" \/ i \in history.overlapped \cup history.broken

\* Every order is answered, whatever Vagrant does, unless the machine restarts.
EveryOrderIsAnswered ==
    \A i \in Orders : At(i) # "unsent" ~> (report[i].what # "none" \/ At(i) = "gone")

\* The connector keeps its promise: its removals, which hold the event loop up, look like
\* one step, its builds are answered once, for the VM it has at that time, and nothing
\* else changes current_vm_id.
Stage == [i \in Orders |->
    IF At(i) \in {"unsent", "removing", "refused"} THEN "unsent"
    ELSE IF At(i) = "done" THEN "answered"
    ELSE IF At(i) = "gone" THEN "gone"
    ELSE "building"]
GivenAnswer == [i \in Orders |-> [what |-> report[i].what, vm |-> report[i].vm]]

Promise == INSTANCE ConnectorPromise WITH stage <- Stage, answer <- GivenAnswer
KeepsPromise == Promise!Spec
=============================================================================
