---------------------------- MODULE JobExecution ----------------------------
(***************************************************************************)
(* Jobs of a rental: JobsService, the execution events of the gateway and  *)
(* the part of the connector that runs them.                               *)
(*                                                                         *)
(* Rentals are those of RentalLedger, the contract RentalBackend keeps     *)
(* while its handlers run one at a time.  As there, a step is the code     *)
(* between two awaits, the action that starts a handler makes its first    *)
(* read, and repository.save writes back the row as it was loaded.  Here   *)
(* a connector that is back has been given up and registered anew.         *)
(***************************************************************************)
EXTENDS Naturals, Sequences, FiniteSets

CONSTANTS Vms, Users, None,
          Tasks,         \* handlers that can be in flight at once
          Reports,       \* statuses POST /jobs/:id/result is called with
          MaxRentals,    \* bound: rentals
          MaxJobs,       \* bound: jobs
          MaxLosses      \* bound: losses of each connection

JobType == {"command", "other"}
JobStatus == {"pending", "running", "completed", "failed"}
Outcome == {"completed", "failed"}

\* What a job printed, why it failed, or what was reported for it.
Result == {"output", "error", "not_connected", "reported"}

ASSUME JobsAssumption ==
  /\ Reports \subseteq JobStatus /\ None \notin Result
  /\ MaxRentals \in Nat /\ MaxJobs \in Nat /\ MaxLosses \in Nat

JobRow == [rental : Nat, type : JobType, status : JobStatus, result : Result \cup {None}]

JobEvent == [type : {"execution_started", "execution_completed", "execution_failed"},
             job : Nat]

VARIABLES ledger,    \* the rentals
          jobs,      \* table vm_jobs
          tasks,     \* the handlers in flight
          online,    \* whether each connector is connected
          entry,     \* whether the backend has its socket in connectedClients
          orders,    \* execute_file on the way to each connector: job ids
          events,    \* job events on the way from each connector
          running,   \* jobs each connector runs in a VM
          losses     \* connections lost so far

tables == <<ledger, jobs>>
transport == <<online, entry, orders, losses>>
vars == <<tables, tasks, transport, events, running>>

Ledger == INSTANCE RentalLedger

\* A handler has a row to insert, an order to send or a row to write back.
Handler == [op : {"insert", "dispatch", "save"}, key : Nat, row : JobRow]

TypeOK ==
  /\ ledger \in Seq(Ledger!Entry)
  /\ jobs \in Seq(JobRow)
  /\ tasks \in [Tasks -> Handler \cup {None}]
  /\ online \in [Vms -> BOOLEAN]
  /\ entry \in [Vms -> BOOLEAN]
  /\ orders \in [Vms -> Seq(Nat)]
  /\ events \in [Vms -> Seq(JobEvent)]
  /\ running \in [Vms -> SUBSET Nat]
  /\ losses \in [Vms -> 0 .. MaxLosses]

Init ==
  /\ Ledger!Init
  /\ jobs = <<>>
  /\ tasks = [t \in Tasks |-> None]
  /\ online = [v \in Vms |-> FALSE]
  /\ entry = [v \in Vms |-> FALSE]
  /\ orders = [v \in Vms |-> <<>>]
  /\ events = [v \in Vms |-> <<>>]
  /\ running = [v \in Vms |-> {}]
  /\ losses = [v \in Vms |-> 0]

-----------------------------------------------------------------------------
(* Handlers.                                                               *)

Start(t, op, key, row) ==
  /\ tasks[t] = None
  /\ tasks' = [tasks EXCEPT ![t] = [op |-> op, key |-> key, row |-> row]]

Calling(t, op) == tasks[t] # None /\ tasks[t].op = op
Return(t) == tasks' = [tasks EXCEPT ![t] = None]

\* Mutant: a status outside the enumeration.
NewJobQueued(r, type) ==
  [rental |-> r, type |-> type, status |-> "queued", result |-> None]

NewJob(r, type) ==
  [rental |-> r, type |-> type, status |-> "pending", result |-> None]

\* Mutant: the execution has started and the status is left as it was.
StartedJobUnmarked(row) == row

StartedJob(row) == [row EXCEPT !.status = "running"]

\* Mutants: only the status or only the result is stored.
FinishedJobNoResult(row, status, result) == [row EXCEPT !.status = status]
FinishedJobNoStatus(row, status, result) == [row EXCEPT !.result = result]

FinishedJob(row, status, result) == [row EXCEPT !.status = status, !.result = result]

Inserting == Cardinality({t \in Tasks : Calling(t, "insert")})

\* JobsService.create: the state of the rental is not looked at.
CreateJob(t, u, r, type) ==
  /\ Len(jobs) + Inserting < MaxJobs
  /\ ledger[r].receiver = u
  /\ Start(t, "insert", 0, NewJob(r, type))
  /\ UNCHANGED <<tables, transport, events, running>>

\* Only commands are sent to the connector, and only when the rental was loaded with a VM
\* that is linked to a machine; other jobs stay PENDING, to be polled.
InsertJob(t) ==
  /\ Calling(t, "insert")
  /\ LET job == tasks[t].row
     IN  /\ jobs' = Append(jobs, job)
         /\ \/ /\ job.type = "command"
               /\ tasks' = [tasks EXCEPT ![t].op = "dispatch", ![t].key = Len(jobs) + 1]
            \/ Return(t)
  /\ UNCHANGED <<ledger, transport, events, running>>

\* Mutant: the order is sent and the job is failed as well.
SendExecuteFileAndFail(t) ==
  /\ Calling(t, "dispatch")
  /\ LET v == ledger[tasks[t].row.rental].vm
     IN  /\ tasks' = [tasks EXCEPT ![t].op = "save",
                        ![t].row = FinishedJob(@, "failed", "not_connected")]
         /\ orders' = IF online[v] THEN [orders EXCEPT ![v] = Append(@, tasks[t].key)]
                      ELSE orders
  /\ UNCHANGED <<tables, online, entry, losses, events, running>>

\* sendExecuteFile and, without an entry, the rest of create.  What is written
\* to a socket that is dead already is lost.
SendExecuteFile(t) ==
  /\ Calling(t, "dispatch")
  /\ LET v == ledger[tasks[t].row.rental].vm
     IN  \/ /\ entry[v]
            /\ Return(t)
            /\ orders' = IF online[v] THEN [orders EXCEPT ![v] = Append(@, tasks[t].key)]
                         ELSE orders
         \/ /\ ~entry[v]
            /\ tasks' = [tasks EXCEPT ![t].op = "save",
                           ![t].row = FinishedJob(@, "failed", "not_connected")]
            /\ UNCHANGED orders
  /\ UNCHANGED <<tables, online, entry, losses, events, running>>

SaveJob(t) ==
  /\ Calling(t, "save")
  /\ jobs' = [jobs EXCEPT ![tasks[t].key] = tasks[t].row]
  /\ Return(t)
  /\ UNCHANGED <<ledger, transport, events, running>>

\* JobsService.updateResult, open to anyone: any status over any other.
UpdateResult(t, j, status) ==
  /\ Start(t, "save", j, FinishedJob(jobs[j], status, "reported"))
  /\ UNCHANGED <<tables, transport, events, running>>

-----------------------------------------------------------------------------
(* Execution events.  Each handler loads the job and writes it back.       *)

Delivers(v, type) ==
  /\ events[v] # <<>>
  /\ Head(events[v]).type = type
  /\ events' = [events EXCEPT ![v] = Tail(@)]
EventJob(v) == Head(events[v]).job

HandleExecutionStarted(t, v) ==
  /\ Delivers(v, "execution_started")
  /\ Start(t, "save", EventJob(v), StartedJob(jobs[EventJob(v)]))
  /\ UNCHANGED <<tables, transport, running>>

HandleExecutionCompleted(t, v) ==
  /\ Delivers(v, "execution_completed")
  /\ Start(t, "save", EventJob(v), FinishedJob(jobs[EventJob(v)], "completed", "output"))
  /\ UNCHANGED <<tables, transport, running>>

HandleExecutionFailed(t, v) ==
  /\ Delivers(v, "execution_failed")
  /\ Start(t, "save", EventJob(v), FinishedJob(jobs[EventJob(v)], "failed", "error"))
  /\ UNCHANGED <<tables, transport, running>>

-----------------------------------------------------------------------------
(* The connector.                                                          *)

SendUp(v, type, j) ==
  events' = IF online[v] THEN [events EXCEPT ![v] = Append(@, [type |-> type, job |-> j])]
            ELSE events

\* on_execute_file up to the command, which runs in a thread without a timeout.
AgentExecute(v) ==
  /\ orders[v] # <<>>
  /\ orders' = [orders EXCEPT ![v] = Tail(@)]
  /\ SendUp(v, "execution_started", Head(orders[v]))
  /\ running' = [running EXCEPT ![v] = @ \cup {Head(orders[v])}]
  /\ UNCHANGED <<tables, tasks, online, entry, losses>>

\* The command has ended; without a connection its outcome goes nowhere.
AgentExecuted(v, j, outcome) ==
  /\ j \in running[v]
  /\ running' = [running EXCEPT ![v] = @ \ {j}]
  /\ SendUp(v, IF outcome = "completed" THEN "execution_completed" ELSE "execution_failed", j)
  /\ UNCHANGED <<tables, tasks, transport>>

Connect(v) ==
  /\ ~online[v] /\ ~entry[v]
  /\ online' = [online EXCEPT ![v] = TRUE]
  /\ entry' = [entry EXCEPT ![v] = TRUE]
  /\ UNCHANGED <<tables, tasks, orders, losses, events, running>>

LoseConnection(v) ==
  /\ online[v] /\ losses[v] < MaxLosses
  /\ online' = [online EXCEPT ![v] = FALSE]
  /\ losses' = [losses EXCEPT ![v] = @ + 1]
  /\ orders' = [orders EXCEPT ![v] = <<>>]
  /\ UNCHANGED <<tables, tasks, entry, events, running>>

-----------------------------------------------------------------------------
(* Rentals, as far as jobs can tell.                                       *)

Rent(u, v) ==
  /\ entry[v] /\ Len(ledger) < MaxRentals
  /\ Ledger!Open(v, u)
  /\ UNCHANGED <<jobs, tasks, transport, events, running>>

EndRental(r) ==
  /\ Ledger!Close(r, "usage")
  /\ UNCHANGED <<jobs, tasks, transport, events, running>>

\* handleDisconnect; events the backend has not read are dropped.
HandleDisconnect(v) ==
  /\ ~online[v] /\ entry[v]
  /\ entry' = [entry EXCEPT ![v] = FALSE]
  /\ events' = [events EXCEPT ![v] = <<>>]
  /\ IF \E r \in DOMAIN ledger : ledger[r].vm = v /\ ledger[r].open
     THEN \E r \in DOMAIN ledger : ledger[r].vm = v /\ Ledger!Close(r, "zero")
     ELSE UNCHANGED ledger
  /\ UNCHANGED <<jobs, tasks, online, orders, losses, running>>

-----------------------------------------------------------------------------
Request(t) ==
  \/ \E u \in Users, r \in DOMAIN ledger, type \in JobType : CreateJob(t, u, r, type)
  \/ \E j \in DOMAIN jobs, status \in Reports : UpdateResult(t, j, status)

Event(t, v) ==
  \/ HandleExecutionStarted(t, v)
  \/ HandleExecutionCompleted(t, v)
  \/ HandleExecutionFailed(t, v)

Step(t) == InsertJob(t) \/ SendExecuteFile(t) \/ SaveJob(t)

Execute(v) ==
  \/ AgentExecute(v)
  \/ \E j \in running[v], outcome \in Outcome : AgentExecuted(v, j, outcome)

Next ==
  \/ \E t \in Tasks : Request(t) \/ Step(t) \/ \E v \in Vms : Event(t, v)
  \/ \E v \in Vms : Execute(v) \/ Connect(v) \/ LoseConnection(v) \/ HandleDisconnect(v)
  \/ \E u \in Users, v \in Vms : Rent(u, v)
  \/ \E r \in DOMAIN ledger : EndRental(r)

Spec == Init /\ [][Next]_vars
=============================================================================
