---------------------------- MODULE JobProperties ----------------------------
(***************************************************************************)
(* What the job pipeline should do, stated over JobExecution.              *)
(***************************************************************************)
EXTENDS JobExecution

Final == {"completed", "failed"}

\* The backend can still hear of job j from the connector of v.
Underway(v, j) ==
  \/ \E i \in DOMAIN orders[v] : orders[v][i] = j
  \/ j \in running[v]
  \/ \E i \in DOMAIN events[v] : events[v][i].job = j

JobWhole(row) ==
  /\ row.status = "completed" => row.result \in {"output", "reported"}
  /\ row.status = "failed" => row.result \in {"error", "not_connected", "reported"}

\* Whatever saves of a job are interleaved, its status and its result come
\* from one of them: a job is never completed with the error of another save.
JobRowsWhole == \A j \in DOMAIN jobs : JobWhole(jobs[j])

\* What a suspended handler is going to write is whole, and where it writes
\* over a job it finishes it, marks it running or has a result for it.
PendingJobSavesWhole ==
  \A t \in Tasks :
    tasks[t] # None =>
      /\ JobWhole(tasks[t].row)
      /\ tasks[t].op = "save" =>
           /\ tasks[t].key \in DOMAIN jobs
           /\ tasks[t].row.status = "running" \/ tasks[t].row.result # None

\* Jobs stay whole, in the table and in the hands of suspended handlers.
JobsAreWhole == JobRowsWhole /\ PendingJobSavesWhole

\* The only save that takes a stored result away is a late execution_started.
ResultLostOnlyByStart ==
  [][\A j \in DOMAIN jobs :
       jobs[j].result # None /\ jobs'[j].result = None
         => jobs'[j].status = "running"]_vars

\* A receiver told that the machine is not connected can send the job again:
\* it has not been sent and will not be run.
RefusedIsNotRun ==
  \A j \in DOMAIN jobs :
    jobs[j].result = "not_connected" => \A v \in Vms : ~Underway(v, j)

\* No job is taken from one receiver for a VM that another one rents.
JobsAreOfTheTenant ==
  [][\A t \in Tasks, u \in Users, q, r \in DOMAIN ledger :
       /\ CreateJob(t, u, r, "command")
       /\ ledger[q].vm = ledger[r].vm
       /\ ledger[q].open
       => ledger[q].receiver = u]_vars

-----------------------------------------------------------------------------
(* Progress, with the fairness of RentalProperties.  A command itself may  *)
(* run for ever: nothing bounds it.                                        *)

Fairness ==
  /\ \A t \in Tasks : WF_vars(Step(t))
  /\ \A v \in Vms :
       /\ SF_vars(\E t \in Tasks : Event(t, v))
       /\ WF_vars(AgentExecute(v))
       /\ WF_vars(HandleDisconnect(v))

FairSpec == Spec /\ Fairness

\* An outcome on its way is stored, unless the connection is lost first.
SentOutcomeIsStored ==
  \A v \in Vms, j \in 1 .. MaxJobs :
    (\E i \in DOMAIN events[v] :
       events[v][i].job = j /\ events[v][i].type # "execution_started")
      ~> ~online[v] \/ (j \in DOMAIN jobs /\ jobs[j].status \in Final)

\* An order that was sent is taken up: the job does not stay pending while
\* the connection holds.
SentOrderIsStarted ==
  \A v \in Vms, j \in 1 .. MaxJobs :
    (\E i \in DOMAIN orders[v] : orders[v][i] = j)
      ~> ~online[v] \/ (j \in DOMAIN jobs /\ jobs[j].status # "pending")
=============================================================================
