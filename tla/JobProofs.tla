------------------------------ MODULE JobProofs ------------------------------
(***************************************************************************)
(* Proofs about JobExecution, for every number of handlers, jobs and       *)
(* losses.  Types alone are not inductive: a handler of an event reads the *)
(* job the event names, so the types rest on the fact that only existing   *)
(* jobs are underway.                                                      *)
(***************************************************************************)
EXTENDS JobProperties, SequenceTheorems, TLAPS

\* The handler t is about to send job j.
Dispatching(t, j) == Calling(t, "dispatch") /\ tasks[t].key = j

\* The receiver of job j is told that it was not sent, or is about to be.
Refused(j) ==
  \/ j \in DOMAIN jobs /\ jobs[j].result = "not_connected"
  \/ \E t \in Tasks :
       Calling(t, "save") /\ tasks[t].key = j /\ tasks[t].row.result = "not_connected"

\* A job exists before it is dispatched, is dispatched before it is underway,
\* by one handler, and a refused job is neither.
DispatchInv ==
  /\ \A v \in Vms, j \in Nat :
       Underway(v, j) =>
         j \in DOMAIN jobs /\ ~Refused(j) /\ \A t \in Tasks : ~Dispatching(t, j)
  /\ \A t \in Tasks, j \in Nat :
       Dispatching(t, j) =>
         /\ j \in DOMAIN jobs /\ ~Refused(j)
         /\ \A u \in Tasks : Dispatching(u, j) => u = t
  /\ \A t \in Tasks : Calling(t, "insert") => tasks[t].row.result = None

RowInv == JobRowsWhole /\ PendingJobSavesWhole

JobInv == TypeOK /\ RowInv /\ DispatchInv

\* A step that overwrites a job finishes it, marks it running or has a result.
SafeJobWrites ==
  \A j \in DOMAIN jobs :
    jobs'[j] = jobs[j] \/ jobs'[j].status = "running" \/ jobs'[j].result # None

-----------------------------------------------------------------------------
(* Sequences, rows and handlers.                                           *)

LEMMA JobTypes ==
  ASSUME TypeOK
  PROVE  /\ DOMAIN jobs = 1 .. Len(jobs) /\ Len(jobs) \in Nat
         /\ \A j \in DOMAIN jobs : j \in Nat /\ jobs[j] \in JobRow
         /\ \A r \in DOMAIN ledger : r \in Nat
         /\ tasks \in [Tasks -> Handler \cup {None}]
BY ElementOfSeq, LenProperties DEF TypeOK

LEMMA QueueEnds ==
  ASSUME NEW S, NEW s \in Seq(S), s # <<>>
  PROVE  /\ Head(s) \in S /\ Tail(s) \in Seq(S)
         /\ \E k \in DOMAIN s : Head(s) = s[k]
         /\ \A i \in DOMAIN Tail(s) : \E k \in DOMAIN s : Tail(s)[i] = s[k]
<1>1. /\ Head(s) \in S /\ Tail(s) \in Seq(S) /\ Len(s) \in Nat
      /\ Len(Tail(s)) = Len(s) - 1
      /\ \A i \in 1 .. Len(Tail(s)) : Tail(s)[i] = s[i + 1]
  BY HeadTailProperties, LenProperties
<1>2. DOMAIN s = 1 .. Len(s) /\ DOMAIN Tail(s) = 1 .. Len(Tail(s)) /\ Len(s) # 0
  BY <1>1, LenProperties, EmptySeq
<1>3. 1 \in DOMAIN s /\ Head(s) = s[1]
  BY <1>1, <1>2
<1>4. \A i \in DOMAIN Tail(s) : i + 1 \in DOMAIN s
  BY <1>1, <1>2
<1>5. QED
  BY <1>1, <1>2, <1>3, <1>4

LEMMA QueueGrows ==
  ASSUME NEW S, NEW s \in Seq(S), NEW e \in S
  PROVE  /\ Append(s, e) \in Seq(S)
         /\ \A i \in DOMAIN Append(s, e) :
              Append(s, e)[i] = e \/ \E k \in DOMAIN s : Append(s, e)[i] = s[k]
<1>1. /\ Append(s, e) \in Seq(S) /\ Len(s) \in Nat
      /\ Len(Append(s, e)) = Len(s) + 1
      /\ \A i \in 1 .. Len(s) : Append(s, e)[i] = s[i]
      /\ Append(s, e)[Len(s) + 1] = e
  BY AppendProperties, LenProperties
<1>2. DOMAIN s = 1 .. Len(s) /\ DOMAIN Append(s, e) = 1 .. Len(s) + 1
  BY <1>1, LenProperties
<1>3. QED
  BY <1>1, <1>2

\* The rows handlers write: typed, whole, and never a new refusal.
LEMMA WrittenRows ==
  ASSUME NEW row \in JobRow
  PROVE  /\ StartedJob(row) \in JobRow /\ JobWhole(StartedJob(row))
         /\ StartedJob(row).status = "running" /\ StartedJob(row).result = row.result
         /\ \A status \in JobStatus, result \in {"output", "error", "reported", "not_connected"} :
              /\ FinishedJob(row, status, result) \in JobRow
              /\ FinishedJob(row, status, result).result = result
              /\ FinishedJob(row, status, result).status = status
BY DEF StartedJob, FinishedJob, JobRow, Result, JobStatus, JobWhole

LEMMA NewRows ==
  ASSUME NEW r \in Nat, NEW type \in JobType
  PROVE  /\ NewJob(r, type) \in JobRow /\ JobWhole(NewJob(r, type))
         /\ NewJob(r, type).result = None
BY DEF NewJob, JobRow, Result, JobStatus, JobWhole

-----------------------------------------------------------------------------
(* What is underway.                                                       *)

LEMMA DeliveredJob ==
  ASSUME JobInv, NEW v \in Vms, NEW type, Delivers(v, type)
  PROVE  /\ EventJob(v) \in DOMAIN jobs /\ Underway(v, EventJob(v))
         /\ events' \in [Vms -> Seq(JobEvent)]
         /\ \A w \in Vms : \A i \in DOMAIN events'[w] :
              \E k \in DOMAIN events[w] : events'[w][i] = events[w][k]
<1>0. events \in [Vms -> Seq(JobEvent)]
  BY DEF JobInv, TypeOK
<1>1. events[v] \in Seq(JobEvent) /\ events[v] # <<>>
  BY <1>0 DEF Delivers
<1>2. /\ Head(events[v]) \in JobEvent /\ Tail(events[v]) \in Seq(JobEvent)
      /\ \E k \in DOMAIN events[v] : Head(events[v]) = events[v][k]
      /\ \A i \in DOMAIN Tail(events[v]) :
           \E k \in DOMAIN events[v] : Tail(events[v])[i] = events[v][k]
  BY <1>1, QueueEnds
<1>3. EventJob(v) \in Nat /\ Underway(v, EventJob(v))
  BY <1>2 DEF EventJob, Underway, JobEvent
<1>4. EventJob(v) \in DOMAIN jobs
  BY <1>3 DEF JobInv, DispatchInv
<1>5. QED
  BY <1>0, <1>2, <1>3, <1>4 DEF Delivers

\* Nothing comes underway, and the connectors keep their types.
Settles ==
  /\ orders' \in [Vms -> Seq(Nat)]
  /\ events' \in [Vms -> Seq(JobEvent)]
  /\ running' \in [Vms -> SUBSET Nat]
  /\ \A v \in Vms, j \in Nat : Underway(v, j)' => Underway(v, j)

LEMMA Idling ==
  ASSUME JobInv, UNCHANGED <<orders, events, running>>
  PROVE  Settles
BY DEF JobInv, TypeOK, Settles, Underway

LEMMA DeliverySettles ==
  ASSUME JobInv, NEW v \in Vms, NEW type, Delivers(v, type),
         UNCHANGED <<orders, running>>
  PROVE  Settles
<1>1. /\ events' \in [Vms -> Seq(JobEvent)]
      /\ \A w \in Vms : \A i \in DOMAIN events'[w] :
           \E k \in DOMAIN events[w] : events'[w][i] = events[w][k]
  BY DeliveredJob
<1>2. \A w \in Vms, j \in Nat : Underway(w, j)' => Underway(w, j)
  BY <1>1 DEF Underway
<1>3. QED
  BY <1>1, <1>2 DEF Settles, JobInv, TypeOK

LEMMA SendUpGrows ==
  ASSUME events \in [Vms -> Seq(JobEvent)], NEW v \in Vms, NEW j \in Nat,
         NEW type \in {"execution_started", "execution_completed", "execution_failed"},
         SendUp(v, type, j)
  PROVE  /\ events' \in [Vms -> Seq(JobEvent)]
         /\ \A w \in Vms : \A i \in DOMAIN events'[w] :
              \/ w = v /\ events'[w][i].job = j
              \/ \E k \in DOMAIN events[w] : events'[w][i] = events[w][k]
<1> DEFINE e == [type |-> type, job |-> j]
<1>1. e \in JobEvent /\ e.job = j
  BY DEF JobEvent
<1> HIDE DEF e
<1>2. events[v] \in Seq(JobEvent)
  OBVIOUS
<1>3. /\ Append(events[v], e) \in Seq(JobEvent)
      /\ \A i \in DOMAIN Append(events[v], e) :
           \/ Append(events[v], e)[i] = e
           \/ \E k \in DOMAIN events[v] : Append(events[v], e)[i] = events[v][k]
  BY <1>1, <1>2, QueueGrows
<1>4. CASE events' = [events EXCEPT ![v] = Append(@, e)]
  BY <1>1, <1>3, <1>4
<1>5. CASE events' = events
  BY <1>5
<1>6. QED
  BY <1>4, <1>5 DEF SendUp, e

LEMMA ExecuteSettles ==
  ASSUME JobInv, NEW v \in Vms, Execute(v)
  PROVE  Settles
<1>0. /\ orders \in [Vms -> Seq(Nat)] /\ events \in [Vms -> Seq(JobEvent)]
      /\ running \in [Vms -> SUBSET Nat]
  BY DEF JobInv, TypeOK
<1>1. CASE AgentExecute(v)
  <2> DEFINE j == Head(orders[v])
  <2>1. orders[v] \in Seq(Nat) /\ orders[v] # <<>>
    BY <1>0, <1>1 DEF AgentExecute
  <2>2. /\ j \in Nat /\ Tail(orders[v]) \in Seq(Nat)
        /\ \E k \in DOMAIN orders[v] : j = orders[v][k]
        /\ \A i \in DOMAIN Tail(orders[v]) :
             \E k \in DOMAIN orders[v] : Tail(orders[v])[i] = orders[v][k]
    BY <2>1, QueueEnds
  <2>3. /\ orders' = [orders EXCEPT ![v] = Tail(@)]
        /\ running' = [running EXCEPT ![v] = @ \cup {j}]
        /\ SendUp(v, "execution_started", j)
    BY <1>1 DEF AgentExecute
  <2> HIDE DEF j
  <2>4. Underway(v, j)
    BY <2>2 DEF Underway
  <2>5. /\ events' \in [Vms -> Seq(JobEvent)]
        /\ \A w \in Vms : \A i \in DOMAIN events'[w] :
             \/ w = v /\ events'[w][i].job = j
             \/ \E k \in DOMAIN events[w] : events'[w][i] = events[w][k]
    BY <1>0, <2>2, <2>3, SendUpGrows
  <2>6. /\ orders' \in [Vms -> Seq(Nat)] /\ running' \in [Vms -> SUBSET Nat]
        /\ \A w \in Vms : \A i \in DOMAIN orders'[w] :
             \E k \in DOMAIN orders[w] : orders'[w][i] = orders[w][k]
        /\ \A w \in Vms : \A i \in running'[w] : i \in running[w] \/ (w = v /\ i = j)
    BY <1>0, <2>2, <2>3
  <2>7. ASSUME NEW w \in Vms, NEW i \in Nat, Underway(w, i)' PROVE Underway(w, i)
    <3>1. CASE w = v /\ i = j
      BY <2>4, <3>1
    <3>2. CASE ~(w = v /\ i = j)
      <4>1. CASE \E k \in DOMAIN orders'[w] : orders'[w][k] = i
        BY SMTT(20), <2>6, <4>1 DEF Underway
      <4>2. CASE i \in running'[w]
        BY <2>6, <3>2, <4>2 DEF Underway
      <4>3. CASE \E k \in DOMAIN events'[w] : events'[w][k].job = i
        BY <2>5, <3>2, <4>3 DEF Underway
      <4>4. QED
        BY <2>7, <4>1, <4>2, <4>3 DEF Underway
    <3>3. QED
      BY <3>1, <3>2
  <2>8. QED
    BY <2>5, <2>6, <2>7 DEF Settles
<1>2. ASSUME NEW j \in running[v], NEW outcome \in Outcome, AgentExecuted(v, j, outcome)
      PROVE  Settles
  <2>1. j \in Nat /\ Underway(v, j)
    BY <1>0 DEF Underway
  <2>2. /\ events' \in [Vms -> Seq(JobEvent)]
        /\ \A w \in Vms : \A i \in DOMAIN events'[w] :
             \/ w = v /\ events'[w][i].job = j
             \/ \E k \in DOMAIN events[w] : events'[w][i] = events[w][k]
    BY <1>0, <1>2, <2>1, SendUpGrows DEF AgentExecuted
  <2>3. /\ orders' = orders /\ running' \in [Vms -> SUBSET Nat]
        /\ \A w \in Vms : \A i \in running'[w] : i \in running[w]
    BY <1>0, <1>2 DEF AgentExecuted, transport
  <2>4. ASSUME NEW w \in Vms, NEW i \in Nat, Underway(w, i)' PROVE Underway(w, i)
    BY <2>1, <2>2, <2>3, <2>4 DEF Underway
  <2>5. QED
    BY <1>0, <2>2, <2>3, <2>4 DEF Settles
<1>3. QED
  BY <1>1, <1>2 DEF Execute

LEMMA LinkSettles ==
  ASSUME JobInv, NEW v \in Vms, Connect(v) \/ LoseConnection(v) \/ HandleDisconnect(v)
  PROVE  Settles /\ UNCHANGED <<jobs, tasks>>
<1>1. /\ orders \in [Vms -> Seq(Nat)] /\ events \in [Vms -> Seq(JobEvent)]
      /\ running \in [Vms -> SUBSET Nat]
  BY DEF JobInv, TypeOK
<1>2. CASE Connect(v)
  BY <1>2, Idling DEF Connect, tables
<1>3. CASE LoseConnection(v)
  <2>1. orders' = [orders EXCEPT ![v] = <<>>] /\ UNCHANGED <<events, running>>
    BY <1>3 DEF LoseConnection
  <2>2. orders' \in [Vms -> Seq(Nat)]
    BY <1>1, <2>1, EmptySeq
  <2>3. \A w \in Vms, j \in Nat : Underway(w, j)' => Underway(w, j)
    BY <1>1, <2>1 DEF Underway
  <2>4. QED
    BY <1>1, <1>3, <2>1, <2>2, <2>3 DEF Settles, LoseConnection, tables
<1>4. CASE HandleDisconnect(v)
  <2>1. events' = [events EXCEPT ![v] = <<>>] /\ UNCHANGED <<orders, running>>
    BY <1>4 DEF HandleDisconnect
  <2>2. events' \in [Vms -> Seq(JobEvent)]
    BY <1>1, <2>1, EmptySeq
  <2>3. \A w \in Vms, j \in Nat : Underway(w, j)' => Underway(w, j)
    BY <1>1, <2>1 DEF Underway
  <2>4. QED
    BY <1>1, <1>4, <2>1, <2>2, <2>3 DEF Settles, HandleDisconnect
<1>5. QED
  BY <1>2, <1>3, <1>4

-----------------------------------------------------------------------------
(* Steps that leave the jobs and the handlers alone, steps that start a    *)
(* handler with a row to save, and the steps of a handler.                 *)

Kept == RowInv' /\ DispatchInv' /\ SafeJobWrites

LEMMA QuietJobs ==
  ASSUME JobInv, UNCHANGED <<jobs, tasks>>, Settles
  PROVE  Kept
<1>1. RowInv' /\ SafeJobWrites
  BY DEF JobInv, RowInv, JobRowsWhole, PendingJobSavesWhole, SafeJobWrites
<1>2. DispatchInv'
  BY SMTT(20) DEF JobInv, DispatchInv, Settles, Dispatching, Refused, Calling
<1>3. QED
  BY <1>1, <1>2 DEF Kept

LEMMA StartsSave ==
  ASSUME JobInv, NEW t \in Tasks, NEW j \in DOMAIN jobs, NEW row \in JobRow,
         Start(t, "save", j, row), UNCHANGED jobs, Settles,
         JobWhole(row), row.status = "running" \/ row.result # None,
         row.result = "not_connected" => jobs[j].result = "not_connected"
  PROVE  Kept
<1> DEFINE started == [op |-> "save", key |-> j, row |-> row]
<1>1. /\ \A u \in Tasks : tasks'[u] = IF u = t THEN started ELSE tasks[u]
      /\ started.op = "save" /\ started.key = j /\ started.row = row
  BY JobTypes DEF Start, JobInv
<1> HIDE DEF started
<1>2. RowInv' /\ SafeJobWrites
  <2>1. JobRowsWhole' /\ SafeJobWrites
    BY DEF JobInv, RowInv, JobRowsWhole, SafeJobWrites
  <2>2. PendingJobSavesWhole'
    BY <1>1 DEF JobInv, RowInv, PendingJobSavesWhole
  <2>3. QED
    BY <2>1, <2>2 DEF RowInv
<1>3. \A i \in Nat : Refused(i)' => Refused(i)
  BY <1>1 DEF Refused, Calling
<1>4. \A u \in Tasks, i \in Nat : Dispatching(u, i)' => Dispatching(u, i)
  BY <1>1 DEF Dispatching, Calling
<1>5. \A u \in Tasks : Calling(u, "insert")' => Calling(u, "insert") /\ tasks'[u] = tasks[u]
  BY <1>1 DEF Calling
<1>6. DispatchInv'
  BY <1>3, <1>4, <1>5 DEF JobInv, DispatchInv, Settles
<1>7. QED
  BY <1>2, <1>6 DEF Kept

LEMMA CreateKeeps ==
  ASSUME JobInv, NEW t \in Tasks, NEW u \in Users, NEW r \in DOMAIN ledger,
         NEW type \in JobType, CreateJob(t, u, r, type)
  PROVE  Kept /\ Settles
<1> DEFINE row == NewJob(r, type)
           started == [op |-> "insert", key |-> 0, row |-> row]
<1>1. r \in Nat /\ JobWhole(row) /\ row.result = None
  BY JobTypes, NewRows DEF JobInv
<1>2. /\ \A w \in Tasks : tasks'[w] = IF w = t THEN started ELSE tasks[w]
      /\ started.op = "insert" /\ started.row = row
  BY JobTypes DEF CreateJob, Start, JobInv
<1>3. Settles /\ UNCHANGED jobs
  BY Idling DEF CreateJob, tables, transport
<1> HIDE DEF started, row
<1>4. RowInv' /\ SafeJobWrites
  <2>1. JobRowsWhole' /\ SafeJobWrites
    BY <1>3 DEF JobInv, RowInv, JobRowsWhole, SafeJobWrites
  <2>2. PendingJobSavesWhole'
    BY <1>1, <1>2, <1>3 DEF JobInv, RowInv, PendingJobSavesWhole
  <2>3. QED
    BY <2>1, <2>2 DEF RowInv
<1>5. \A i \in Nat : Refused(i)' => Refused(i)
  BY <1>2, <1>3 DEF Refused, Calling
<1>6. \A w \in Tasks, i \in Nat : Dispatching(w, i)' => Dispatching(w, i)
  BY <1>2 DEF Dispatching, Calling
<1>7. \A w \in Tasks : Calling(w, "insert")' =>
        tasks'[w].row.result = None
  BY <1>1, <1>2 DEF Calling, JobInv, DispatchInv
<1>8. DispatchInv'
  BY <1>3, <1>5, <1>6, <1>7 DEF JobInv, DispatchInv, Settles
<1>9. QED
  BY <1>3, <1>4, <1>8 DEF Kept

LEMMA UpdateKeeps ==
  ASSUME JobInv, NEW t \in Tasks, NEW j \in DOMAIN jobs, NEW status \in Reports,
         UpdateResult(t, j, status)
  PROVE  Kept /\ Settles
<1> DEFINE row == FinishedJob(jobs[j], status, "reported")
<1>1. jobs[j] \in JobRow /\ status \in JobStatus
  BY JobTypes, JobsAssumption DEF JobInv
<1>2. row \in JobRow /\ row.result = "reported"
  BY ZenonT(30), <1>1, WrittenRows
<1>3. Start(t, "save", j, row) /\ Settles /\ UNCHANGED jobs
  BY Idling DEF UpdateResult, tables, transport
<1> HIDE DEF row
<1>4. JobWhole(row) /\ row.result # "not_connected"
  BY <1>2 DEF JobWhole
<1>5. row.result # None
  BY <1>2, JobsAssumption DEF Result
<1>6. QED
  BY <1>2, <1>3, <1>4, <1>5, StartsSave

LEMMA EventKeeps ==
  ASSUME JobInv, NEW t \in Tasks, NEW v \in Vms, Event(t, v)
  PROVE  Kept /\ Settles
<1> DEFINE j == EventJob(v)
           Writes(row) ==
             /\ Start(t, "save", j, row) /\ row \in JobRow /\ JobWhole(row)
             /\ row.status = "running" \/ row.result # None
             /\ row.result = "not_connected" => jobs[j].result = "not_connected"
<1>1. (\E type : Delivers(v, type)) /\ UNCHANGED <<jobs, orders, running>>
  BY DEF Event, HandleExecutionStarted, HandleExecutionCompleted, HandleExecutionFailed,
     tables, transport
<1>2. Settles /\ j \in DOMAIN jobs
  BY <1>1, DeliverySettles, DeliveredJob
<1>3. jobs[j] \in JobRow
  BY <1>2, JobTypes DEF JobInv
<1>4. CASE HandleExecutionStarted(t, v)
  <2>1. Start(t, "save", j, StartedJob(jobs[j]))
    BY <1>4 DEF HandleExecutionStarted
  <2>2. Writes(StartedJob(jobs[j]))
    BY <1>3, <2>1, WrittenRows
  <2> HIDE DEF j
  <2>3. QED
    BY <1>1, <1>2, <2>2, StartsSave
<1>5. ASSUME NEW status \in JobStatus, NEW result \in Result,
             \/ status = "completed" /\ result = "output"
             \/ status = "failed" /\ result = "error",
             Start(t, "save", j, FinishedJob(jobs[j], status, result))
      PROVE  Kept
  <2> DEFINE row == FinishedJob(jobs[j], status, result)
  <2>1. row \in JobRow /\ row.result = result /\ row.status = status
    BY <1>3, WrittenRows DEF Result
  <2>2. Start(t, "save", j, row)
    BY <1>5
  <2> HIDE DEF row, j
  <2>3. JobWhole(row) /\ row.result # "not_connected"
    BY <1>5, <2>1 DEF JobWhole
  <2>4. row.result # None
    BY <2>1, JobsAssumption DEF Result
  <2>5. QED
    BY <1>1, <1>2, <2>1, <2>2, <2>3, <2>4, StartsSave
<1>6. CASE HandleExecutionCompleted(t, v)
  <2>0. "completed" \in JobStatus /\ "output" \in Result
    BY DEF JobStatus, Result
  <2>1. Start(t, "save", j, FinishedJob(jobs[j], "completed", "output"))
    BY <1>6 DEF HandleExecutionCompleted
  <2> HIDE DEF j
  <2>2. QED
    BY <1>2, <1>5, <2>0, <2>1
<1>7. CASE HandleExecutionFailed(t, v)
  <2>0. "failed" \in JobStatus /\ "error" \in Result
    BY DEF JobStatus, Result
  <2>1. Start(t, "save", j, FinishedJob(jobs[j], "failed", "error"))
    BY <1>7 DEF HandleExecutionFailed
  <2> HIDE DEF j
  <2>2. QED
    BY <1>2, <1>5, <2>0, <2>1
<1>8. QED
  BY <1>2, <1>4, <1>6, <1>7 DEF Event

LEMMA InsertKeeps ==
  ASSUME JobInv, NEW t \in Tasks, InsertJob(t)
  PROVE  Kept /\ Settles /\ jobs' \in Seq(JobRow)
<1> DEFINE row == tasks[t].row
           key == Len(jobs) + 1
<1>0. /\ tasks[t] \in Handler /\ tasks[t] # None /\ tasks[t].op = "insert"
      /\ tasks \in [Tasks -> Handler \cup {None}]
      /\ jobs \in Seq(JobRow)
  BY DEF InsertJob, Calling, JobInv, TypeOK
<1>1. row \in JobRow /\ JobWhole(row) /\ row.result = None
  BY <1>0 DEF Handler, JobInv, RowInv, PendingJobSavesWhole, DispatchInv, Calling
<1>2. jobs' = Append(jobs, row) /\ Settles
  BY Idling DEF InsertJob, transport
<1>3. \A u \in Tasks :
        \/ u # t /\ tasks'[u] = tasks[u]
        \/ u = t /\ tasks'[u] = None
        \/ u = t /\ tasks'[u].op = "dispatch" /\ tasks'[u].key = key /\ tasks'[u].row = row
  BY <1>0 DEF InsertJob, Return, Handler
<1> HIDE DEF row
<1>4. /\ jobs' \in Seq(JobRow)
      /\ DOMAIN jobs' = 1 .. key /\ DOMAIN jobs = 1 .. Len(jobs) /\ Len(jobs) \in Nat
      /\ \A j \in DOMAIN jobs : jobs'[j] = jobs[j]
      /\ jobs'[key] = row
  BY <1>0, <1>1, <1>2, AppendProperties, LenProperties
<1>5. /\ key \in DOMAIN jobs' /\ key \notin DOMAIN jobs /\ key \in Nat
      /\ \A j \in DOMAIN jobs : j \in DOMAIN jobs'
      /\ \A j \in DOMAIN jobs' : j \in DOMAIN jobs \/ j = key
  BY <1>4
<1> HIDE DEF key
<1>6. RowInv' /\ SafeJobWrites
  <2>1. SafeJobWrites
    BY <1>4 DEF SafeJobWrites
  <2>2. ASSUME NEW j \in DOMAIN jobs' PROVE JobWhole(jobs'[j])
    BY <1>1, <1>4, <1>5 DEF JobInv, RowInv, JobRowsWhole
  <2>3. JobRowsWhole'
    BY <2>2 DEF JobRowsWhole, JobWhole
  <2>4. ASSUME NEW u \in Tasks, tasks'[u] # None
        PROVE  /\ JobWhole(tasks'[u].row)
               /\ tasks'[u].op = "save" =>
                    /\ tasks'[u].key \in DOMAIN jobs'
                    /\ tasks'[u].row.status = "running" \/ tasks'[u].row.result # None
    BY <1>1, <1>3, <1>5, <2>4 DEF JobInv, RowInv, PendingJobSavesWhole
  <2>5. PendingJobSavesWhole'
    BY <2>4 DEF PendingJobSavesWhole, JobWhole
  <2>6. QED
    BY <2>1, <2>3, <2>5 DEF RowInv
<1>7. \A i \in Nat : Refused(i)' => i # key /\ Refused(i)
  <2>1. ASSUME NEW u \in Tasks, Calling(u, "save")'
        PROVE  /\ Calling(u, "save") /\ tasks'[u] = tasks[u]
               /\ tasks[u].key \in DOMAIN jobs
    BY <1>3, <2>1 DEF Calling, JobInv, RowInv, PendingJobSavesWhole
  <2>2. row.result # "not_connected"
    BY <1>1, JobsAssumption DEF Result
  <2>3. QED
    BY <1>4, <1>5, <2>1, <2>2 DEF Refused
<1>8. \A u \in Tasks, i \in Nat :
        Dispatching(u, i)' => (u = t /\ i = key) \/ (i # key /\ u # t /\ Dispatching(u, i))
  <2>1. ASSUME NEW u \in Tasks, NEW i \in Nat, Dispatching(u, i)', u # t
        PROVE  Dispatching(u, i)
    BY <1>3, <2>1 DEF Dispatching, Calling
  <2>2. ASSUME NEW u \in Tasks, NEW i \in Nat, Dispatching(u, i)
        PROVE  i # key
    BY <1>5, <2>2 DEF JobInv, DispatchInv
  <2>3. ASSUME NEW i \in Nat, Dispatching(t, i)' PROVE i = key
    BY <1>3, <2>3 DEF Dispatching, Calling
  <2>4. QED
    BY <2>1, <2>2, <2>3
<1>9. DispatchInv'
  <2>1. ASSUME NEW v \in Vms, NEW i \in Nat, Underway(v, i)'
        PROVE  i \in DOMAIN jobs' /\ ~Refused(i)' /\ \A u \in Tasks : ~Dispatching(u, i)'
    <3>1. Underway(v, i)
      BY <1>2, <2>1 DEF Settles
    <3>2. i \in DOMAIN jobs /\ ~Refused(i) /\ \A u \in Tasks : ~Dispatching(u, i)
      BY <3>1 DEF JobInv, DispatchInv
    <3>3. QED
      BY <1>5, <1>7, <1>8, <3>2
  <2>2. ASSUME NEW u \in Tasks, NEW i \in Nat, Dispatching(u, i)'
        PROVE  /\ i \in DOMAIN jobs' /\ ~Refused(i)'
               /\ \A w \in Tasks : Dispatching(w, i)' => w = u
    BY <1>5, <1>7, <1>8, <2>2 DEF JobInv, DispatchInv
  <2>3. ASSUME NEW u \in Tasks, Calling(u, "insert")' PROVE tasks'[u].row.result = None
    BY <1>3, <2>3 DEF JobInv, DispatchInv, Calling
  <2>4. QED
    BY <2>1, <2>2, <2>3 DEF DispatchInv
<1>10. QED
  BY <1>2, <1>4, <1>6, <1>9 DEF Kept

\* The step of t leaves it idle: what the other handlers hold is as it was.
LEMMA ReturnLeaves ==
  ASSUME JobInv, NEW t \in Tasks, Return(t)
  PROVE  \A u \in Tasks : tasks'[u] = tasks[u] \/ tasks'[u] = None
BY JobTypes DEF Return, JobInv

LEMMA SaveKeeps ==
  ASSUME JobInv, NEW t \in Tasks, SaveJob(t)
  PROVE  Kept /\ Settles /\ jobs' \in Seq(JobRow)
<1> DEFINE row == tasks[t].row
           key == tasks[t].key
<1>0. /\ tasks[t] \in Handler /\ Calling(t, "save") /\ tasks[t] # None
      /\ jobs \in Seq(JobRow) /\ DOMAIN jobs = 1 .. Len(jobs)
  BY LenProperties DEF SaveJob, Calling, JobInv, TypeOK
<1>1. /\ row \in JobRow /\ JobWhole(row) /\ key \in DOMAIN jobs
      /\ row.status = "running" \/ row.result # None
  BY <1>0 DEF Handler, JobInv, RowInv, PendingJobSavesWhole, Calling
<1>2. jobs' = [jobs EXCEPT ![key] = row] /\ Return(t) /\ Settles
  BY Idling DEF SaveJob, transport
<1>3. row.result = "not_connected" => Refused(key)
  BY <1>0 DEF Refused
<1> HIDE DEF row, key
<1>4. jobs' \in Seq(JobRow)
  BY <1>0, <1>1, <1>2, ExceptSeq
<1>5. /\ DOMAIN jobs' = DOMAIN jobs
      /\ \A j \in DOMAIN jobs : jobs'[j] = jobs[j] \/ (j = key /\ jobs'[j] = row)
  BY <1>2
<1>6. \A u \in Tasks : tasks'[u] = tasks[u] \/ tasks'[u] = None
  BY <1>2, ReturnLeaves
<1>7. RowInv' /\ SafeJobWrites
  <2>1. SafeJobWrites
    BY <1>1, <1>5 DEF SafeJobWrites
  <2>2. ASSUME NEW j \in DOMAIN jobs' PROVE JobWhole(jobs'[j])
    BY <1>1, <1>5 DEF JobInv, RowInv, JobRowsWhole
  <2>3. JobRowsWhole'
    BY <2>2 DEF JobRowsWhole, JobWhole
  <2>4. PendingJobSavesWhole'
    BY <1>5, <1>6 DEF JobInv, RowInv, PendingJobSavesWhole
  <2>5. QED
    BY <2>1, <2>3, <2>4 DEF RowInv
<1>8. \A i \in Nat : Refused(i)' => Refused(i)
  BY <1>3, <1>5, <1>6 DEF Refused, Calling
<1>9. \A u \in Tasks, i \in Nat : Dispatching(u, i)' => Dispatching(u, i)
  BY <1>6 DEF Dispatching, Calling
<1>10. \A u \in Tasks : Calling(u, "insert")' => tasks'[u].row.result = None
  BY <1>6 DEF Calling, JobInv, DispatchInv
<1>11. DispatchInv'
  BY <1>2, <1>5, <1>8, <1>9, <1>10 DEF JobInv, DispatchInv, Settles
<1>12. QED
  BY <1>2, <1>4, <1>7, <1>11 DEF Kept

LEMMA SentOrSaved ==
  ASSUME JobInv, NEW t \in Tasks, SendExecuteFile(t)
  PROVE  /\ orders' \in [Vms -> Seq(Nat)]
         /\ \A v \in Vms, j \in Nat :
              Underway(v, j)' => Underway(v, j) \/ (j = tasks[t].key /\ Return(t))
<1> DEFINE v == ledger[tasks[t].row.rental].vm
           key == tasks[t].key
<1>0. /\ tasks[t] \in Handler /\ orders \in [Vms -> Seq(Nat)]
      /\ UNCHANGED <<events, running>>
  BY DEF SendExecuteFile, Calling, JobInv, TypeOK
<1>1. key \in Nat
  BY <1>0 DEF Handler
<1> HIDE DEF v, key
<1>2. CASE Return(t) /\ orders' = [orders EXCEPT ![v] = Append(@, key)]
  <2>1. CASE v \in Vms
    <3>1. /\ Append(orders[v], key) \in Seq(Nat)
          /\ \A i \in DOMAIN Append(orders[v], key) :
               \/ Append(orders[v], key)[i] = key
               \/ \E k \in DOMAIN orders[v] : Append(orders[v], key)[i] = orders[v][k]
      BY <1>0, <1>1, <2>1, QueueGrows
    <3>2. /\ orders' \in [Vms -> Seq(Nat)]
          /\ \A w \in Vms : \A i \in DOMAIN orders'[w] :
               \/ orders'[w][i] = key
               \/ \E k \in DOMAIN orders[w] : orders'[w][i] = orders[w][k]
      BY <1>0, <1>2, <2>1, <3>1
    <3>3. QED
      BY <1>0, <1>2, <3>2 DEF Underway, key
  <2>2. CASE v \notin Vms
    <3>1. orders' = orders
      BY <1>0, <1>2, <2>2
    <3>2. QED
      BY <1>0, <3>1 DEF Underway
  <2>3. QED
    BY <2>1, <2>2
<1>3. CASE orders' = orders
  BY <1>0, <1>3 DEF Underway
<1>4. QED
  BY <1>2, <1>3 DEF SendExecuteFile, v, key

LEMMA SendKeeps ==
  ASSUME JobInv, NEW t \in Tasks, SendExecuteFile(t)
  PROVE  Kept /\ tasks' \in [Tasks -> Handler \cup {None}]
<1> DEFINE key == tasks[t].key
           refused == FinishedJob(tasks[t].row, "failed", "not_connected")
<1>0. /\ tasks[t] \in Handler /\ Dispatching(t, key)
      /\ tasks \in [Tasks -> Handler \cup {None}] /\ UNCHANGED <<jobs, events, running>>
  BY DEF SendExecuteFile, Calling, Dispatching, JobInv, TypeOK, tables
<1>1. /\ key \in Nat /\ refused \in JobRow
      /\ refused.status = "failed" /\ refused.result = "not_connected"
  BY <1>0, WrittenRows DEF Handler, JobStatus
<1>2. /\ key \in DOMAIN jobs /\ ~Refused(key)
      /\ \A u \in Tasks : Dispatching(u, key) => u = t
      /\ \A w \in Vms : ~Underway(w, key)
  BY <1>0, <1>1 DEF JobInv, DispatchInv
<1>3. /\ orders' \in [Vms -> Seq(Nat)]
      /\ \A w \in Vms, j \in Nat :
           Underway(w, j)' => Underway(w, j) \/ (j = key /\ Return(t))
  BY SentOrSaved
<1>4. JobRowsWhole' /\ SafeJobWrites
  BY <1>0 DEF JobInv, RowInv, JobRowsWhole, SafeJobWrites
<1>5. CASE Return(t)
  <2>1. \A u \in Tasks : tasks'[u] = tasks[u] \/ tasks'[u] = None
    BY <1>5, ReturnLeaves
  <2>2. ASSUME NEW u \in Tasks, NEW i \in Nat, Dispatching(u, i)'
        PROVE  i # key
    <3>1. u # t /\ Dispatching(u, i)
      BY <1>0, <1>5, <2>1, <2>2 DEF Dispatching, Calling, Return
    <3> HIDE DEF key
    <3>2. QED
      BY <1>2, <3>1
  <2> HIDE DEF key, refused
  <2>3. PendingJobSavesWhole'
    BY <1>0, <2>1 DEF JobInv, RowInv, PendingJobSavesWhole
  <2>4. \A i \in Nat : Refused(i)' => Refused(i)
    BY <1>0, <2>1 DEF Refused, Calling
  <2>5. \A u \in Tasks, i \in Nat : Dispatching(u, i)' => Dispatching(u, i)
    BY <2>1 DEF Dispatching, Calling
  <2>6. \A u \in Tasks : Calling(u, "insert")' => tasks'[u].row.result = None
    BY <2>1 DEF Calling, JobInv, DispatchInv
  <2>7. DispatchInv'
    BY <1>0, <1>2, <1>3, <2>2, <2>4, <2>5, <2>6 DEF JobInv, DispatchInv
  <2>8. QED
    BY <1>0, <1>4, <1>5, <2>3, <2>7 DEF Kept, RowInv, Return
<1>6. CASE tasks' = [tasks EXCEPT ![t].op = "save", ![t].row = refused] /\ orders' = orders
  <2>1. /\ \A u \in Tasks : u # t => tasks'[u] = tasks[u]
        /\ tasks'[t].op = "save" /\ tasks'[t].key = key /\ tasks'[t].row = refused
        /\ tasks' \in [Tasks -> Handler \cup {None}]
    BY <1>0, <1>1, <1>6 DEF Handler
  <2> HIDE DEF key, refused
  <2>2. JobWhole(refused) /\ refused.result # None
    BY <1>1, JobsAssumption DEF JobWhole, Result
  <2>3. PendingJobSavesWhole'
    <3>1. ASSUME NEW u \in Tasks, tasks'[u] # None
          PROVE  /\ JobWhole(tasks'[u].row)
                 /\ tasks'[u].op = "save" =>
                      /\ tasks'[u].key \in DOMAIN jobs'
                      /\ tasks'[u].row.status = "running" \/ tasks'[u].row.result # None
      BY <1>0, <1>2, <2>1, <2>2, <3>1 DEF JobInv, RowInv, PendingJobSavesWhole
    <3>2. QED
      BY <3>1 DEF PendingJobSavesWhole, JobWhole
  <2>4. \A i \in Nat : Refused(i)' => Refused(i) \/ i = key
    BY <1>0, <2>1 DEF Refused, Calling
  <2>5. \A u \in Tasks, i \in Nat : Dispatching(u, i)' => u # t /\ Dispatching(u, i)
    BY <2>1 DEF Dispatching, Calling
  <2>6. \A u \in Tasks : Calling(u, "insert")' => tasks'[u].row.result = None
    BY <2>1 DEF Calling, JobInv, DispatchInv
  <2>7. \A w \in Vms, j \in Nat : Underway(w, j)' => Underway(w, j)
    BY <1>0, <1>6 DEF Underway
  <2>8. DispatchInv'
    BY <1>0, <1>2, <2>4, <2>5, <2>6, <2>7 DEF JobInv, DispatchInv
  <2>9. QED
    BY <1>4, <2>1, <2>3, <2>8 DEF Kept, RowInv
<1>7. QED
  BY <1>5, <1>6 DEF SendExecuteFile

-----------------------------------------------------------------------------
(* The rentals, and the type of the rest of the state.                     *)

LEMMA LedgerTypes ==
  ASSUME ledger \in Seq(Ledger!Entry), NEW v \in Vms
  PROVE  /\ \A u \in Users : Ledger!Open(v, u) => ledger' \in Seq(Ledger!Entry)
         /\ \A r \in DOMAIN ledger, cost \in {"zero", "usage"} :
              Ledger!Close(r, cost) => ledger' \in Seq(Ledger!Entry)
<1>1. ASSUME NEW u \in Users, Ledger!Open(v, u)
      PROVE  ledger' \in Seq(Ledger!Entry)
  <2> DEFINE row == [vm |-> v, receiver |-> u, open |-> TRUE, cost |-> "zero",
                     paid |-> FALSE]
  <2>1. row \in Ledger!Entry
    BY DEF Ledger!Entry
  <2>2. ledger' = Append(ledger, row)
    BY <1>1 DEF Ledger!Open
  <2> HIDE DEF row
  <2>3. QED
    BY <2>1, <2>2, AppendProperties
<1>2. ASSUME NEW r \in DOMAIN ledger, NEW cost \in {"zero", "usage"}, Ledger!Close(r, cost)
      PROVE  ledger' \in Seq(Ledger!Entry)
  <2> DEFINE row == [ledger[r] EXCEPT !.open = FALSE, !.cost = cost]
  <2>1. DOMAIN ledger = 1 .. Len(ledger)
    BY LenProperties
  <2>2. ledger[r] \in Ledger!Entry
    BY <2>1, ElementOfSeq
  <2>3. row \in Ledger!Entry
    BY <2>2 DEF Ledger!Entry
  <2>4. ledger' = [ledger EXCEPT ![r] = row]
    BY <1>2 DEF Ledger!Close
  <2> HIDE DEF row
  <2>5. QED
    BY <2>1, <2>3, <2>4, ExceptSeq
<1>3. QED
  BY <1>1, <1>2

\* What the handlers do not write.
WorldOK ==
  /\ ledger \in Seq(Ledger!Entry)
  /\ online \in [Vms -> BOOLEAN] /\ entry \in [Vms -> BOOLEAN]
  /\ losses \in [Vms -> 0 .. MaxLosses]

LEMMA WorldStep == JobInv /\ [Next]_vars => WorldOK'
<1> SUFFICES ASSUME JobInv, [Next]_vars PROVE WorldOK'
  OBVIOUS
<1>0. WorldOK
  BY DEF JobInv, TypeOK, WorldOK
<1> USE DEF tables, transport
<1>1. ASSUME NEW t \in Tasks, Request(t) \/ Step(t) \/ \E v \in Vms : Event(t, v)
      PROVE  UNCHANGED <<ledger, online, entry, losses>>
  BY <1>1 DEF Request, CreateJob, UpdateResult, Step, InsertJob, SendExecuteFile, SaveJob,
     Event, HandleExecutionStarted, HandleExecutionCompleted, HandleExecutionFailed
<1>2. ASSUME NEW v \in Vms, Execute(v)
      PROVE  UNCHANGED <<ledger, online, entry, losses>>
  BY <1>2 DEF Execute, AgentExecute, AgentExecuted
<1>3. ASSUME NEW v \in Vms, Connect(v) \/ LoseConnection(v)
      PROVE  WorldOK'
  <2>1. losses[v] < MaxLosses => losses[v] + 1 \in 0 .. MaxLosses
    BY <1>0, JobsAssumption DEF WorldOK
  <2>2. QED
    BY <1>0, <1>3, <2>1 DEF Connect, LoseConnection, WorldOK
<1>4. ASSUME NEW v \in Vms, HandleDisconnect(v)
      PROVE  WorldOK'
  <2>1. ledger' \in Seq(Ledger!Entry)
    BY <1>0, <1>4, LedgerTypes DEF HandleDisconnect, WorldOK
  <2>2. QED
    BY <1>0, <1>4, <2>1 DEF HandleDisconnect, WorldOK
<1>5. ASSUME NEW u \in Users, NEW v \in Vms, Rent(u, v)
      PROVE  WorldOK'
  BY <1>0, <1>5, LedgerTypes DEF Rent, WorldOK
<1>6. ASSUME NEW r \in DOMAIN ledger, EndRental(r)
      PROVE  WorldOK'
  <2>1. \E v \in Vms : TRUE
    BY <1>0, ElementOfSeq, LenProperties DEF WorldOK, Ledger!Entry
  <2>2. QED
    BY <1>0, <1>6, <2>1, LedgerTypes DEF EndRental, WorldOK
<1>7. CASE UNCHANGED vars
  BY <1>0, <1>7 DEF vars, WorldOK
<1>8. QED
  BY <1>0, <1>1, <1>2, <1>3, <1>4, <1>5, <1>6, <1>7 DEF Next, WorldOK

LEMMA StartedType ==
  ASSUME JobInv, NEW t \in Tasks, NEW op \in {"insert", "dispatch", "save"},
         NEW key \in Nat, NEW row \in JobRow, Start(t, op, key, row)
  PROVE  tasks' \in [Tasks -> Handler \cup {None}]
BY JobTypes DEF Start, Handler, JobInv

LEMMA HandlersStep ==
  ASSUME JobInv, NEW t \in Tasks, Request(t) \/ Step(t) \/ \E v \in Vms : Event(t, v)
  PROVE  jobs' \in Seq(JobRow) /\ tasks' \in [Tasks -> Handler \cup {None}]
<1>0. /\ tasks \in [Tasks -> Handler \cup {None}] /\ jobs \in Seq(JobRow)
  BY DEF JobInv, TypeOK
<1>1. ASSUME NEW u \in Users, NEW r \in DOMAIN ledger, NEW type \in JobType,
             CreateJob(t, u, r, type)
      PROVE  UNCHANGED jobs /\ tasks' \in [Tasks -> Handler \cup {None}]
  <2>1. NewJob(r, type) \in JobRow
    BY JobTypes, NewRows DEF JobInv
  <2>2. QED
    BY <1>1, <2>1, StartedType DEF CreateJob, tables
<1>2. ASSUME NEW j \in DOMAIN jobs, NEW status \in Reports, UpdateResult(t, j, status)
      PROVE  UNCHANGED jobs /\ tasks' \in [Tasks -> Handler \cup {None}]
  <2>1. j \in Nat /\ FinishedJob(jobs[j], status, "reported") \in JobRow
    BY JobTypes, WrittenRows, JobsAssumption DEF JobInv
  <2>2. QED
    BY <1>2, <2>1, StartedType DEF UpdateResult, tables
<1>3. ASSUME NEW v \in Vms, Event(t, v)
      PROVE  UNCHANGED jobs /\ tasks' \in [Tasks -> Handler \cup {None}]
  <2> DEFINE j == EventJob(v)
  <2>1. j \in DOMAIN jobs
    BY <1>3, DeliveredJob DEF Event, HandleExecutionStarted, HandleExecutionCompleted,
       HandleExecutionFailed
  <2>2. /\ j \in Nat /\ StartedJob(jobs[j]) \in JobRow
        /\ FinishedJob(jobs[j], "completed", "output") \in JobRow
        /\ FinishedJob(jobs[j], "failed", "error") \in JobRow
    BY <2>1, JobTypes, WrittenRows DEF JobInv, JobStatus
  <2>3. QED
    BY <1>3, <2>2, StartedType DEF Event, HandleExecutionStarted, HandleExecutionCompleted,
       HandleExecutionFailed, tables
<1>4. CASE InsertJob(t)
  <2>1. /\ tasks[t] \in Handler /\ Len(jobs) + 1 \in Nat
    BY <1>0, <1>4, LenProperties DEF InsertJob, Calling
  <2>2. tasks' \in [Tasks -> Handler \cup {None}]
    <3>1. CASE Return(t)
      BY <1>0, <3>1 DEF Return
    <3>2. CASE tasks' = [tasks EXCEPT ![t].op = "dispatch", ![t].key = Len(jobs) + 1]
      <4> DEFINE h == [tasks[t] EXCEPT !.op = "dispatch", !.key = Len(jobs) + 1]
      <4>1. h \in Handler
        BY <2>1 DEF Handler
      <4>2. tasks' = [tasks EXCEPT ![t] = h]
        BY <1>0, <3>2
      <4> HIDE DEF h
      <4>3. QED
        BY <1>0, <4>1, <4>2
    <3>3. QED
      BY <1>4, <3>1, <3>2 DEF InsertJob
  <2>3. QED
    BY <1>4, <2>2, InsertKeeps
<1>5. CASE SaveJob(t)
  BY <1>0, <1>5, SaveKeeps DEF SaveJob, Return
<1>6. CASE SendExecuteFile(t)
  BY <1>0, <1>6, SendKeeps DEF SendExecuteFile, tables
<1>7. QED
  BY <1>0, <1>1, <1>2, <1>3, <1>4, <1>5, <1>6 DEF Request, Step

-----------------------------------------------------------------------------
(* The invariant and its consequences.                                     *)

\* The types of what is left: the handlers' and the connectors' part.
Held == jobs' \in Seq(JobRow) /\ tasks' \in [Tasks -> Handler \cup {None}]
Moved == /\ orders' \in [Vms -> Seq(Nat)] /\ events' \in [Vms -> Seq(JobEvent)]
         /\ running' \in [Vms -> SUBSET Nat]

LEMMA JobInvInit == Init => JobInv
<1> SUFFICES ASSUME Init PROVE JobInv
  OBVIOUS
<1> USE DEF Init, Ledger!Init
<1>1. TypeOK
  BY EmptySeq, JobsAssumption DEF TypeOK
<1>2. DOMAIN jobs = {}
  OBVIOUS
<1>3. RowInv
  BY <1>2 DEF RowInv, JobRowsWhole, PendingJobSavesWhole
<1>4. \A v \in Vms, j \in Nat : ~Underway(v, j)
  BY DEF Underway
<1>5. DispatchInv
  BY <1>4 DEF DispatchInv, Dispatching, Calling
<1>6. QED
  BY <1>1, <1>3, <1>5 DEF JobInv

LEMMA JobInvStep == JobInv /\ [Next]_vars => JobInv' /\ SafeJobWrites
<1> SUFFICES ASSUME JobInv, [Next]_vars PROVE JobInv' /\ SafeJobWrites
  OBVIOUS
<1>0. UNCHANGED <<jobs, tasks>> => Held
  BY DEF JobInv, TypeOK, Held
<1>1. ASSUME NEW t \in Tasks, Request(t)
      PROVE  Kept /\ Moved /\ Held
  BY <1>1, CreateKeeps, UpdateKeeps, HandlersStep DEF Request, Settles, Moved, Held
<1>2. ASSUME NEW t \in Tasks, Step(t)
      PROVE  Kept /\ Moved /\ Held
  <2>1. CASE InsertJob(t)
    BY <1>2, <2>1, InsertKeeps, HandlersStep DEF Settles, Moved, Held
  <2>2. CASE SaveJob(t)
    BY <1>2, <2>2, SaveKeeps, HandlersStep DEF Settles, Moved, Held
  <2>3. CASE SendExecuteFile(t)
    <3>1. UNCHANGED <<events, running>>
      BY <2>3 DEF SendExecuteFile
    <3>2. QED
      BY <1>2, <2>3, <3>1, SendKeeps, SentOrSaved, HandlersStep DEF JobInv, TypeOK, Moved, Held
  <2>4. QED
    BY <1>2, <2>1, <2>2, <2>3 DEF Step
<1>3. ASSUME NEW t \in Tasks, NEW v \in Vms, Event(t, v)
      PROVE  Kept /\ Moved /\ Held
  BY <1>3, EventKeeps, HandlersStep DEF Settles, Moved, Held
<1>4. ASSUME NEW v \in Vms, Execute(v)
      PROVE  Kept /\ Moved /\ Held
  <2>1. UNCHANGED <<jobs, tasks>>
    BY <1>4 DEF Execute, AgentExecute, AgentExecuted, tables
  <2>2. QED
    BY <1>0, <1>4, <2>1, ExecuteSettles, QuietJobs DEF Settles, Moved
<1>5. ASSUME NEW v \in Vms, Connect(v) \/ LoseConnection(v) \/ HandleDisconnect(v)
      PROVE  Kept /\ Moved /\ Held
  BY <1>0, <1>5, LinkSettles, QuietJobs DEF Settles, Moved
<1>6. ASSUME UNCHANGED <<jobs, tasks, transport, events, running>>
      PROVE  Kept /\ Moved /\ Held
  BY <1>0, <1>6, Idling, QuietJobs DEF Settles, Moved, transport
<1>7. ASSUME \/ \E u \in Users, v \in Vms : Rent(u, v)
             \/ \E r \in DOMAIN ledger : EndRental(r)
             \/ UNCHANGED vars
      PROVE  Kept /\ Moved /\ Held
  <2>1. UNCHANGED <<jobs, tasks, transport, events, running>>
    BY <1>7 DEF Rent, EndRental, vars, tables
  <2>2. QED
    BY <1>6, <2>1
<1>8. Kept /\ Moved /\ Held
  BY <1>1, <1>2, <1>3, <1>4, <1>5, <1>7 DEF Next
<1>9. TypeOK'
  BY <1>8, WorldStep DEF TypeOK, WorldOK, Moved, Held
<1>10. QED
  BY <1>8, <1>9 DEF Kept, JobInv

\* Every job, message and handler keeps its type; in particular an event never
\* names a job the backend does not have.
THEOREM JobTypeCorrect == Spec => []TypeOK
<1>1. JobInv => TypeOK
  BY DEF JobInv
<1>2. QED
  BY <1>1, JobInvInit, JobInvStep, PTL DEF Spec

\* A job is never completed with the error of another save of it, whatever
\* saves of execution events, reports and refusals are interleaved; what
\* suspended handlers are going to write over a job is whole as well.
THEOREM JobsStayWhole == Spec => []JobsAreWhole
<1>1. JobInv => JobsAreWhole
  BY DEF JobInv, RowInv, JobsAreWhole
<1>2. QED
  BY <1>1, JobInvInit, JobInvStep, PTL DEF Spec

\* handleExecutionStarted is the only handler whose save can take away a
\* result that has been stored.
THEOREM OnlyStartLosesResult == Spec => ResultLostOnlyByStart
<1>1. JobInv /\ [Next]_vars =>
        [\A j \in DOMAIN jobs :
           jobs[j].result # None /\ jobs'[j].result = None
             => jobs'[j].status = "running"]_vars
  BY JobInvStep DEF SafeJobWrites
<1>2. QED
  BY <1>1, JobInvInit, JobInvStep, PTL DEF Spec, ResultLostOnlyByStart

\* A job failed as "not connected" is not on its way to a connector, not run
\* by one and not reported by one: it can be sent again without running twice.
THEOREM RefusedJobsStayUnrun == Spec => []RefusedIsNotRun
<1>1. JobInv => RefusedIsNotRun
  BY JobTypes DEF JobInv, DispatchInv, Refused, RefusedIsNotRun
<1>2. QED
  BY <1>1, JobInvInit, JobInvStep, PTL DEF Spec
=============================================================================
