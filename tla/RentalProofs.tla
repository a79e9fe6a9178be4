---------------------------- MODULE RentalProofs ----------------------------
(***************************************************************************)
(* Proofs about RentalBackend, for every set of VMs, users and tasks and   *)
(* every bound: type correctness, and what interleaved saves of rental     *)
(* rows can and cannot do.                                                 *)
(***************************************************************************)
EXTENDS RentalProperties, SequenceTheorems, TLAPS

-----------------------------------------------------------------------------
(* Tasks.                                                                  *)

LEMMA IdleType == Idle \in Task
BY EmptySeq DEF Idle, Task, Loaded, LoadedComputer

LEMMA HandlerType ==
  ASSUME NEW v \in Vms \cup {None}, NEW calls \in Seq(Call)
  PROVE  Handler(v, calls) \in Task
BY IdleType DEF Handler, Task, Loaded, LoadedComputer, Idle

LEMMA ContinueType ==
  ASSUME tasks \in [Tasks -> Task], NEW t \in Tasks, NEW rest \in Seq(Call),
         ContinueWith(t, rest)
  PROVE  tasks' \in [Tasks -> Task]
<1> DEFINE left == [tasks[t] EXCEPT !.todo = rest, !.vmRow = None,
                                    !.computerRow = None, !.rentalRow = None]
<1>1. left \in Task
  BY DEF Task, Loaded, LoadedComputer
<1>2. QED
  BY <1>1, IdleType DEF ContinueWith

LEMMA ReturnType ==
  ASSUME tasks \in [Tasks -> Task], NEW t \in Tasks, tasks[t].todo # <<>>,
         Return(t)
  PROVE  tasks' \in [Tasks -> Task]
<1>1. tasks[t].todo \in Seq(Call)
  BY DEF Task
<1>2. Later(t) \in Seq(Call)
  BY <1>1, HeadTailProperties DEF Later
<1>3. QED
  BY <1>2, ContinueType DEF Return

LEMMA StartType ==
  ASSUME tasks \in [Tasks -> Task], NEW t \in Tasks, NEW task \in Task,
         Start(t, task)
  PROVE  tasks' \in [Tasks -> Task]
BY DEF Start

LEMMA CallingType ==
  ASSUME tasks \in [Tasks -> Task], NEW t \in Tasks, tasks[t].todo # <<>>
  PROVE  Head(tasks[t].todo) \in Call
<1>1. tasks[t].todo \in Seq(Call)
  BY DEF Task
<1>2. QED
  BY <1>1, HeadTailProperties

\* The calls handlers are made of, and short lists of them.
LEMMA CallLists ==
  /\ \A status \in VMStatus : SetVm(status) \in Call
  /\ \A status \in ComputerStatus : SetComputer(status) \in Call
  /\ \A id \in {"null", "vm"} : SetCurrentVM(id) \in Call
  /\ \A op \in PlainOp : Do(op) \in Call
BY DEF SetVm, SetComputer, SetCurrentVM, Do, Call

LEMMA ShortLists ==
  /\ <<>> \in Seq(Call)
  /\ \A a \in Call : <<a>> \in Seq(Call)
  /\ \A a, b \in Call : <<a, b>> \in Seq(Call)
  /\ \A a, b, c \in Call : <<a, b, c>> \in Seq(Call)
  /\ \A a, b, c, d \in Call : <<a, b, c, d>> \in Seq(Call)
OBVIOUS

LEMMA Concatenation ==
  ASSUME NEW p \in Seq(Call), NEW q \in Seq(Call)
  PROVE  p \o q \in Seq(Call)
BY ConcatProperties

LEMMA RentalRowTypes ==
  /\ \A v \in Vms, u \in Users : NewRental(v, u) \in RentalRow
  /\ \A row \in RentalRow :
       /\ PaidRental(row) \in RentalRow
       /\ \A cost \in {"zero", "usage"} : EndedRental(row, cost) \in RentalRow
BY DEF NewRental, PaidRental, EndedRental, RentalRow, RentalState, PaymentStatus

-----------------------------------------------------------------------------
(* Type correctness, one lemma per kind of step.                           *)

LEMMA TypeInit == Init => TypeOK
<1> SUFFICES ASSUME Init PROVE TypeOK
  OBVIOUS
<1> USE DEF Init, AgentInit
<1>1. vms \in [Vms -> VmRow] /\ computers \in [Vms -> ComputerRow]
  BY DEF VmRow, VMStatus, ComputerRow, ComputerStatus
<1>2. rentals \in Seq(RentalRow) /\ clients \in Seq(Sockets)
  BY EmptySeq
<1>3. tasks \in [Tasks -> Task]
  BY IdleType
<1>4. AgentTypeOK
  BY EmptySeq, RecordsAssumption, AgentAssumption
  DEF AgentTypeOK, AgentState, LineState
<1>5. QED
  BY <1>1, <1>2, <1>3, <1>4 DEF TypeOK

LEMMA ServiceCallType ==
  ASSUME TypeOK, NEW t \in Tasks,
         \/ LoadVm(t) \/ SaveVm(t) \/ SetPhysicalComputer(t)
         \/ LoadComputer(t) \/ SaveComputer(t) \/ RegisterKnown(t) \/ RegisterNew(t)
         \/ SetConnectedFalse(t) \/ SetCurrentVm(t)
  PROVE  TypeOK'
<1> USE DEF tables, agentVars
<1>1. CASE LoadVm(t)
  <2>1. PICK v \in Vms : tasks' = [tasks EXCEPT ![t].vmRow = [key |-> v, row |-> vms[v]]]
    BY <1>1 DEF LoadVm, FoundBy
  <2>2. [tasks[t] EXCEPT !.vmRow = [key |-> v, row |-> vms[v]]] \in Task
    BY DEF TypeOK, Task, Loaded
  <2>3. QED
    BY <1>1, <2>1, <2>2 DEF LoadVm, TypeOK, AgentTypeOK
<1>2. CASE SaveVm(t)
  <2> DEFINE found == tasks[t].vmRow
  <2>1. found \in [key : Vms, row : VmRow]
    BY <1>2 DEF SaveVm, TypeOK, Task, Loaded
  <2>2. Argument(t) \in VMStatus
    BY <1>2, CallingType DEF SaveVm, Calling, Argument, Call, TypeOK, PlainOp
  <2>3. [found.row EXCEPT !.status = Argument(t)] \in VmRow
    BY <2>1, <2>2 DEF VmRow
  <2>4. tasks' \in [Tasks -> Task]
    BY <1>2, ReturnType DEF SaveVm, Calling, TypeOK
  <2>5. QED
    BY <1>2, <2>1, <2>3, <2>4 DEF SaveVm, TypeOK, AgentTypeOK
<1>3. CASE SetPhysicalComputer(t)
  <2>1. tasks' \in [Tasks -> Task]
    BY <1>3, ReturnType DEF SetPhysicalComputer, Calling, TypeOK
  <2>2. vms' \in [Vms -> VmRow]
    BY <1>3 DEF SetPhysicalComputer, TypeOK, VmRow
  <2>3. QED
    BY <1>3, <2>1, <2>2 DEF SetPhysicalComputer, TypeOK, AgentTypeOK
<1>4. CASE LoadComputer(t)
  <2>1. PICK c \in Vms : tasks' = [tasks EXCEPT ![t].computerRow =
          [key |-> c, row |-> computers[c], hostsVm |-> vms[c].linked]]
    BY <1>4 DEF LoadComputer
  <2>2. vms[c].linked \in BOOLEAN
    BY DEF TypeOK, VmRow
  <2>3. [tasks[t] EXCEPT !.computerRow =
          [key |-> c, row |-> computers[c], hostsVm |-> vms[c].linked]] \in Task
    BY <2>2 DEF TypeOK, Task, LoadedComputer
  <2>4. QED
    BY <1>4, <2>1, <2>3 DEF LoadComputer, TypeOK, AgentTypeOK
<1>5. CASE SaveComputer(t)
  <2> DEFINE found == tasks[t].computerRow
  <2>1. found \in [key : Vms, row : ComputerRow, hostsVm : BOOLEAN]
    BY <1>5 DEF SaveComputer, TypeOK, Task, LoadedComputer
  <2>2. Argument(t) \in ComputerStatus
    BY <1>5, CallingType DEF SaveComputer, Calling, Argument, Call, TypeOK, PlainOp
  <2>3. computers' \in [Vms -> ComputerRow]
    BY <1>5, <2>1, <2>2 DEF SaveComputer, TypeOK, ComputerRow
  <2>4. vms' \in [Vms -> VmRow]
    BY <1>5, <2>1 DEF SaveComputer, TypeOK, VmRow
  <2>5. tasks' \in [Tasks -> Task]
    BY <1>5, ReturnType DEF SaveComputer, Calling, TypeOK
  <2>6. QED
    BY <1>5, <2>3, <2>4, <2>5 DEF SaveComputer, TypeOK, AgentTypeOK
<1>6. CASE RegisterKnown(t)
  <2> DEFINE found == tasks[t].computerRow
  <2>1. found \in [key : Vms, row : ComputerRow, hostsVm : BOOLEAN]
    BY <1>6 DEF RegisterKnown, TypeOK, Task, LoadedComputer
  <2>2. computers' \in [Vms -> ComputerRow]
    BY <1>6, <2>1 DEF RegisterKnown, TypeOK, ComputerRow, ComputerStatus
  <2>3. tasks' \in [Tasks -> Task]
    BY <1>6, ReturnType DEF RegisterKnown, Calling, TypeOK
  <2>4. QED
    BY <1>6, <2>2, <2>3 DEF RegisterKnown, TypeOK, AgentTypeOK
<1>7. CASE RegisterNew(t)
  <2>1. computers' \in [Vms -> ComputerRow]
    <3> DEFINE fresh == [exists |-> TRUE, isConnected |-> TRUE, isAvailable |-> TRUE,
                         status |-> "available", hasCurrentVm |-> FALSE]
    <3>1. fresh \in ComputerRow
      BY DEF ComputerRow, ComputerStatus
    <3>2. \/ computers' = computers
          \/ computers' = [computers EXCEPT ![tasks[t].computerRow.key] = fresh]
      BY <1>7 DEF RegisterNew
    <3>3. QED
      BY <3>1, <3>2 DEF TypeOK
  <2>2. tasks' \in [Tasks -> Task]
    <3>1. ContinueWith(t, <<>>) \/ Return(t)
      BY <1>7 DEF RegisterNew
    <3>2. QED
      BY <1>7, <3>1, ReturnType, ContinueType, ShortLists DEF RegisterNew, Calling, TypeOK
  <2>3. QED
    BY <1>7, <2>1, <2>2 DEF RegisterNew, TypeOK, AgentTypeOK
<1>8. CASE SetConnectedFalse(t)
  <2>1. computers' \in [Vms -> ComputerRow]
    BY ZenonT(30), <1>8 DEF SetConnectedFalse, TypeOK, ComputerRow, ComputerStatus
  <2>2. tasks' \in [Tasks -> Task]
    BY <1>8, ReturnType DEF SetConnectedFalse, Calling, TypeOK
  <2>3. QED
    BY <1>8, <2>1, <2>2 DEF SetConnectedFalse, TypeOK, AgentTypeOK
<1>9. CASE SetCurrentVm(t)
  <2>1. computers' \in [Vms -> ComputerRow]
    <3>1. PICK b \in BOOLEAN :
            computers' = [computers EXCEPT ![tasks[t].computer].hasCurrentVm = b]
      BY <1>9, Zenon DEF SetCurrentVm
    <3>2. QED
      BY <3>1 DEF TypeOK, ComputerRow
  <2>2. tasks' \in [Tasks -> Task]
    BY <1>9, ReturnType DEF SetCurrentVm, Calling, TypeOK
  <2>3. QED
    BY <1>9, <2>1, <2>2 DEF SetCurrentVm, TypeOK, AgentTypeOK
<1>10. QED
  BY <1>1, <1>2, <1>3, <1>4, <1>5, <1>6, <1>7, <1>8, <1>9

LEMMA RentalCallType ==
  ASSUME TypeOK, NEW t \in Tasks,
         InsertRental(t) \/ LoadActiveRental(t) \/ NoActiveRental(t) \/ SaveRental(t)
  PROVE  TypeOK'
<1> USE DEF tables, agentVars
<1> DEFINE found == tasks[t].rentalRow
<1>1. found # None => found \in [key : Nat, row : RentalRow]
  BY DEF TypeOK, Task, Loaded
<1>2. CASE InsertRental(t)
  <2>1. rentals' \in Seq(RentalRow)
    BY <1>1, <1>2, AppendProperties DEF InsertRental, TypeOK
  <2>2. tasks' \in [Tasks -> Task]
    BY <1>2, ReturnType DEF InsertRental, Calling, TypeOK
  <2>3. QED
    BY <1>2, <2>1, <2>2 DEF InsertRental, TypeOK, AgentTypeOK
<1>3. CASE LoadActiveRental(t)
  <2>1. PICK r \in DOMAIN rentals : tasks' = [tasks EXCEPT ![t].rentalRow =
          [key |-> r, row |-> EndedRental(rentals[r], "zero")]]
    BY <1>3 DEF LoadActiveRental
  <2>2. r \in Nat /\ rentals[r] \in RentalRow
    BY <2>1, LenProperties, ElementOfSeq DEF TypeOK
  <2> DEFINE copy == [key |-> r, row |-> EndedRental(rentals[r], "zero")]
  <2>3. copy \in Loaded(Nat, RentalRow)
    BY <2>2, RentalRowTypes DEF Loaded
  <2> HIDE DEF copy
  <2>4. [tasks[t] EXCEPT !.rentalRow = copy] \in Task
    BY <2>3 DEF TypeOK, Task
  <2>5. [tasks[t] EXCEPT !.rentalRow =
          [key |-> r, row |-> EndedRental(rentals[r], "zero")]] \in Task
    BY <2>4 DEF copy
  <2>6. QED
    BY <1>3, <2>1, <2>5 DEF LoadActiveRental, TypeOK, AgentTypeOK
<1>4. CASE NoActiveRental(t)
  <2>1. tasks' \in [Tasks -> Task]
    BY <1>4, ReturnType DEF NoActiveRental, Calling, TypeOK
  <2>2. QED
    BY <1>4, <2>1 DEF NoActiveRental, TypeOK, AgentTypeOK
<1>5. CASE SaveRental(t)
  <2>1. rentals' \in Seq(RentalRow)
    <3>1. rentals \in Seq(RentalRow) /\ DOMAIN rentals = 1 .. Len(rentals)
      BY LenProperties DEF TypeOK
    <3>2. rentals' = [rentals EXCEPT ![found.key] = found.row] /\ found.row \in RentalRow
      BY <1>1, <1>5 DEF SaveRental
    <3>3. CASE found.key \in DOMAIN rentals
      BY <3>1, <3>2, <3>3, ExceptSeq
    <3>4. CASE found.key \notin DOMAIN rentals
      <4>1. rentals \in [1 .. Len(rentals) -> RentalRow]
        BY <3>1, LenProperties
      <4>2. rentals' = rentals
        BY <3>1, <3>2, <3>4, <4>1
      <4>3. QED
        BY <3>1, <4>2
    <3>5. QED
      BY <3>3, <3>4
  <2>2. tasks' \in [Tasks -> Task]
    BY <1>5, ReturnType DEF SaveRental, Calling, TypeOK
  <2>3. QED
    BY <1>5, <2>1, <2>2 DEF SaveRental, TypeOK, AgentTypeOK
<1>6. QED
  BY <1>2, <1>3, <1>4, <1>5

\* socket.emit keeps the channels typed.
LEMMA EmitType ==
  ASSUME down \in [Sockets -> Seq(DownMessage)], NEW s \in Sockets,
         NEW message \in DownMessage, Emit(s, message)
  PROVE  down' \in [Sockets -> Seq(DownMessage)]
BY AppendProperties DEF Emit

LEMMA DownTypes ==
  \A type \in DownType, v \in Vms \cup {None} : Message(type, v) \in DownMessage
BY DEF Message, DownMessage

LEMMA GatewayCallType ==
  ASSUME TypeOK, NEW t \in Tasks,
         \/ SendProvisionVM(t) \/ SendDestroyVM(t) \/ Connect(t) \/ Forget(t)
         \/ OfflineIfBusy(t) \/ ReconcileVm(t) \/ ReconcileRental(t)
  PROVE  TypeOK'
<1> USE DEF tables, agentVars
<1> DEFINE v == tasks[t].vm
<1>1. v \in Vms \cup {None} /\ tasks \in [Tasks -> Task]
  BY DEF TypeOK, Task
<1>2. CASE SendProvisionVM(t)
  <2>1. CASE \E s \in Sockets : Emit(s, Message("provision_vm", v)) /\ Return(t)
    <3>1. down' \in [Sockets -> Seq(DownMessage)]
      BY <1>1, <2>1, EmitType, DownTypes DEF DownType, TypeOK, AgentTypeOK
    <3>2. tasks' \in [Tasks -> Task]
      BY <1>1, <1>2, <2>1, ReturnType DEF SendProvisionVM, Calling
    <3>3. QED
      BY <1>2, <3>1, <3>2 DEF SendProvisionVM, TypeOK, AgentTypeOK
  <2>2. CASE ContinueWith(t, <<Do("closeRental"), SetVm("failed")>>) /\ UNCHANGED down
    <3>1. <<Do("closeRental"), SetVm("failed")>> \in Seq(Call)
      BY CallLists, ShortLists DEF PlainOp, VMStatus
    <3>2. tasks' \in [Tasks -> Task]
      BY <1>1, <2>2, <3>1, ContinueType
    <3>3. QED
      BY <1>2, <2>2, <3>2 DEF SendProvisionVM, TypeOK, AgentTypeOK
  <2>3. QED
    BY <1>2, <2>1, <2>2 DEF SendProvisionVM
<1>3. CASE SendDestroyVM(t)
  <2>1. CASE \E s \in Sockets : Emit(s, Message("destroy_vm", v)) /\ Return(t)
    <3>1. down' \in [Sockets -> Seq(DownMessage)]
      BY <1>1, <2>1, EmitType, DownTypes DEF DownType, TypeOK, AgentTypeOK
    <3>2. tasks' \in [Tasks -> Task]
      BY <1>1, <1>3, <2>1, ReturnType DEF SendDestroyVM, Calling
    <3>3. QED
      BY <1>3, <3>1, <3>2 DEF SendDestroyVM, TypeOK, AgentTypeOK
  <2>2. CASE ContinueWith(t, <<SetVm("offline")>>) /\ UNCHANGED down
    <3>1. <<SetVm("offline")>> \in Seq(Call)
      BY CallLists, ShortLists DEF VMStatus
    <3>2. tasks' \in [Tasks -> Task]
      BY <1>1, <2>2, <3>1, ContinueType
    <3>3. QED
      BY <1>3, <2>2, <3>2 DEF SendDestroyVM, TypeOK, AgentTypeOK
  <2>3. QED
    BY <1>3, <2>1, <2>2 DEF SendDestroyVM
<1>4. CASE Connect(t)
  <2>1. PICK s \in Sockets :
          clients' = Append(clients, s) /\ Emit(s, Message("connection_acknowledged", v))
    BY <1>4 DEF Connect
  <2>2. clients' \in Seq(Sockets)
    BY <2>1, AppendProperties DEF TypeOK
  <2>3. down' \in [Sockets -> Seq(DownMessage)]
    BY <1>1, <2>1, EmitType, DownTypes DEF DownType, TypeOK, AgentTypeOK
  <2>4. tasks' \in [Tasks -> Task]
    BY <1>1, <1>4, ReturnType DEF Connect, Calling
  <2>5. QED
    BY <1>4, <2>2, <2>3, <2>4 DEF Connect, TypeOK, AgentTypeOK
<1>5. CASE Forget(t)
  <2>1. PICK i \in DOMAIN clients :
          clients' = SubSeq(clients, 1, i - 1) \o SubSeq(clients, i + 1, Len(clients))
    BY <1>5 DEF Forget
  <2>2. clients \in Seq(Sockets) /\ i \in 1 .. Len(clients) /\ Len(clients) \in Nat
    BY <2>1, LenProperties DEF TypeOK
  <2>3. /\ SubSeq(clients, 1, i - 1) \in Seq(Sockets)
        /\ SubSeq(clients, i + 1, Len(clients)) \in Seq(Sockets)
    BY <2>2, SubSeqProperties, ElementOfSeq
  <2>4. clients' \in Seq(Sockets)
    BY <2>1, <2>3, ConcatProperties
  <2>5. tasks' \in [Tasks -> Task]
    BY <1>1, <1>5, ReturnType DEF Forget, Calling
  <2>6. QED
    BY <1>5, <2>4, <2>5 DEF Forget, TypeOK, AgentTypeOK
<1>6. CASE OfflineIfBusy(t)
  <2>1. PICK next \in VMStatus : ContinueWith(t, <<SetVm(next)>> \o Later(t))
    <3>1. PICK w \in Vms :
            LET status == vms[w].status
                next == IF status \in {"running", "building", "shutting_down"}
                        THEN "offline" ELSE status
            IN  ContinueWith(t, <<SetVm(next)>> \o Later(t))
      BY <1>6 DEF OfflineIfBusy
    <3>2. vms[w].status \in VMStatus
      BY DEF TypeOK, VmRow
    <3>3. QED
      BY <3>1, <3>2 DEF VMStatus
  <2>2. Later(t) \in Seq(Call)
    BY <1>1, <1>6, HeadTailProperties DEF OfflineIfBusy, Calling, Later, Task
  <2>3. <<SetVm(next)>> \o Later(t) \in Seq(Call)
    BY <2>2, CallLists, ShortLists, Concatenation
  <2>4. tasks' \in [Tasks -> Task]
    BY <1>1, <2>1, <2>3, ContinueType
  <2>5. QED
    BY <1>6, <2>4 DEF OfflineIfBusy, TypeOK, AgentTypeOK
<1>7. CASE ReconcileVm(t)
  <2>1. /\ <<Do("reconcileRental")>> \in Seq(Call)
        /\ <<>> \in Seq(Call)
    BY CallLists, ShortLists DEF PlainOp
  <2>2. tasks' \in [Tasks -> Task]
    BY <1>1, <1>7, <2>1, ContinueType DEF ReconcileVm
  <2>3. QED
    BY <1>7, <2>2 DEF ReconcileVm, TypeOK, AgentTypeOK
<1>8. CASE ReconcileRental(t)
  <2>1. /\ <<SetComputer("available"), SetCurrentVM("null"), SetVm("available")>> \in Seq(Call)
        /\ <<>> \in Seq(Call)
    BY CallLists, ShortLists DEF ComputerStatus, VMStatus
  <2>2. tasks' \in [Tasks -> Task]
    BY <1>1, <1>8, <2>1, ContinueType DEF ReconcileRental
  <2>3. QED
    BY <1>8, <2>2 DEF ReconcileRental, TypeOK, AgentTypeOK
<1>9. QED
  BY <1>2, <1>3, <1>4, <1>5, <1>6, <1>7, <1>8

\* A handler with an entity or a socket of its own is a task too.
LEMMA HandlerWith ==
  ASSUME NEW v \in Vms \cup {None}, NEW calls \in Seq(Call)
  PROVE  /\ \A s \in Sockets : [Handler(v, calls) EXCEPT !.socket = s] \in Task
         /\ \A c \in Vms : [Handler(v, calls) EXCEPT !.computer = c] \in Task
         /\ \A found \in [key : Nat, row : RentalRow] :
              [Handler(v, calls) EXCEPT !.rentalRow = found] \in Task
<1> DEFINE h == Handler(v, calls)
<1>1. h \in Task
  BY HandlerType
<1> HIDE DEF h
<1>2. \A s \in Sockets : [h EXCEPT !.socket = s] \in Task
  BY <1>1 DEF Task
<1>3. \A c \in Vms : [h EXCEPT !.computer = c] \in Task
  BY <1>1 DEF Task
<1>4. \A found \in [key : Nat, row : RentalRow] : [h EXCEPT !.rentalRow = found] \in Task
  BY <1>1 DEF Task, Loaded
<1>5. QED
  BY <1>2, <1>3, <1>4 DEF h

LEMMA RequestType ==
  ASSUME TypeOK, NEW t \in Tasks, Request(t)
  PROVE  TypeOK'
<1> USE DEF tables, agentVars
<1>0. tasks \in [Tasks -> Task]
  BY DEF TypeOK
<1>1. ASSUME NEW u \in Users, NEW v \in Vms, CreateRental(t, u, v)
      PROVE  TypeOK'
  <2> DEFINE rest == IF vms[v].linked THEN <<Do("provision_vm")>>
                     ELSE <<Do("closeRental"), SetVm("failed")>>
             calls == <<Do("insertRental"), SetVm("building")>> \o rest
             found == [key |-> NewKey, row |-> NewRental(v, u)]
  <2>1. rest \in Seq(Call) /\ <<Do("insertRental"), SetVm("building")>> \in Seq(Call)
    BY CallLists, ShortLists DEF PlainOp, VMStatus
  <2>2. calls \in Seq(Call)
    BY <2>1, Concatenation
  <2>3. found \in [key : Nat, row : RentalRow]
    BY RentalRowTypes DEF NewKey
  <2> HIDE DEF calls, found
  <2>4. [Handler(v, calls) EXCEPT !.rentalRow = found] \in Task
    BY <2>2, <2>3, HandlerWith
  <2>5. tasks' \in [Tasks -> Task]
    BY <1>0, <1>1, <2>4, StartType DEF CreateRental, calls, found
  <2>6. QED
    BY <1>1, <2>5 DEF CreateRental, TypeOK, AgentTypeOK
<1>2. ASSUME NEW u \in Users, NEW r \in DOMAIN rentals, EndRental(t, u, r)
      PROVE  TypeOK'
  <2> DEFINE v == rentals[r].vmId
             calls == <<Do("saveRental"), SetVm("shutting_down"),
                        IF vms[v].linked THEN Do("destroy_vm") ELSE SetVm("offline")>>
             found == [key |-> r, row |-> EndedRental(rentals[r], "usage")]
  <2>1. calls \in Seq(Call)
    BY CallLists, ShortLists DEF PlainOp, VMStatus
  <2>2. r \in Nat /\ rentals[r] \in RentalRow
    BY LenProperties, ElementOfSeq DEF TypeOK
  <2>3. found \in [key : Nat, row : RentalRow] /\ v \in Vms
    BY <2>2, RentalRowTypes DEF RentalRow
  <2> HIDE DEF calls, found, v
  <2>4. [Handler(v, calls) EXCEPT !.rentalRow = found] \in Task
    BY <2>1, <2>3, HandlerWith
  <2>5. tasks' \in [Tasks -> Task]
    BY <1>0, <1>2, <2>4, StartType DEF EndRental, calls, found, v
  <2>6. QED
    BY <1>2, <2>5 DEF EndRental, TypeOK, AgentTypeOK
<1>3. ASSUME NEW u \in Users, NEW r \in DOMAIN rentals, ProcessPayment(t, u, r)
      PROVE  TypeOK'
  <2> DEFINE v == rentals[r].vmId
             calls == <<Do("saveRental")>>
             found == [key |-> r, row |-> PaidRental(rentals[r])]
  <2>1. calls \in Seq(Call)
    BY CallLists, ShortLists DEF PlainOp
  <2>2. r \in Nat /\ rentals[r] \in RentalRow
    BY LenProperties, ElementOfSeq DEF TypeOK
  <2>3. found \in [key : Nat, row : RentalRow] /\ v \in Vms
    BY <2>2, RentalRowTypes DEF RentalRow
  <2> HIDE DEF calls, found, v
  <2>4. [Handler(v, calls) EXCEPT !.rentalRow = found] \in Task
    BY <2>1, <2>3, HandlerWith
  <2>5. tasks' \in [Tasks -> Task]
    BY <1>0, <1>3, <2>4, StartType DEF ProcessPayment, calls, found, v
  <2>6. QED
    BY <1>3, <2>5 DEF ProcessPayment, TypeOK, AgentTypeOK
<1>4. ASSUME NEW u \in Users, NEW v \in Vms, NEW status \in PatchTargets,
             PatchVmStatus(t, u, v, status)
      PROVE  TypeOK'
  <2>1. <<SetVm(status)>> \in Seq(Call)
    BY BackendAssumption, CallLists, ShortLists
  <2>2. tasks' \in [Tasks -> Task]
    BY <1>0, <1>4, <2>1, HandlerType, StartType DEF PatchVmStatus
  <2>3. QED
    BY <1>4, <2>2 DEF PatchVmStatus, TypeOK, AgentTypeOK
<1>5. QED
  BY <1>1, <1>2, <1>3, <1>4 DEF Request

\* Taking the head event off a socket.
LEMMA DeliversType ==
  ASSUME up \in [Sockets -> Seq(UpMessage)], NEW s \in Sockets, NEW type,
         Delivers(s, type)
  PROVE  up' \in [Sockets -> Seq(UpMessage)] /\ EventVm(s) \in Vms \cup {None}
<1>1. up[s] \in Seq(UpMessage) /\ up[s] # <<>>
  BY DEF Delivers
<1>2. Head(up[s]) \in UpMessage /\ Tail(up[s]) \in Seq(UpMessage)
  BY <1>1, HeadTailProperties
<1>3. QED
  BY <1>2 DEF Delivers, EventVm, UpMessage

\* The end of three handlers: free the computer if the VM is linked.
LEMMA FreeComputerList ==
  ASSUME NEW linked
  PROVE  (IF linked THEN <<SetComputer("available"), SetCurrentVM("null")>> ELSE <<>>)
           \in Seq(Call)
BY CallLists, ShortLists DEF ComputerStatus

LEMMA RegistrationType ==
  ASSUME NEW v
  PROVE  Registration(v) \in Seq(Call)
<1> DEFINE first == <<Do("register"), Do("setPhysicalComputer"), SetCurrentVM("vm")>>
<1>1. /\ first \in Seq(Call)
      /\ Revival(v) \in Seq(Call)
      /\ <<Do("connect")>> \in Seq(Call)
  BY CallLists, ShortLists DEF PlainOp, VMStatus, Revival
<1>2. first \o Revival(v) \o <<Do("connect")>> \in Seq(Call)
  BY <1>1, Concatenation
<1>3. QED
  BY <1>2 DEF Registration

LEMMA EventType ==
  ASSUME TypeOK, NEW t \in Tasks, NEW s \in Sockets, Event(t, s)
  PROVE  TypeOK'
<1> USE DEF tables, agentVars
<1> DEFINE v == EventVm(s)
           owner == Owner(s)
<1>0. /\ tasks \in [Tasks -> Task]
      /\ up \in [Sockets -> Seq(UpMessage)]
      /\ owner \in Vms
  BY DEF TypeOK, AgentTypeOK, Sockets, Owner
<1>1. CASE HandleClientConnected(t, s)
  <2>1. Registration(owner) \in Seq(Call)
    BY RegistrationType
  <2>2. [Handler(owner, Registration(owner)) EXCEPT !.socket = s] \in Task
    BY <1>0, <2>1, HandlerWith
  <2>3. tasks' \in [Tasks -> Task]
    BY <1>0, <1>1, <2>2, StartType DEF HandleClientConnected
  <2>4. QED
    BY <1>0, <1>1, <2>3, DeliversType DEF HandleClientConnected, TypeOK, AgentTypeOK
<1>2. CASE HandleVMProvisioningStarted(t, s)
  <2>1. <<SetVm("building")>> \in Seq(Call)
    BY CallLists, ShortLists DEF VMStatus
  <2>2. up' \in [Sockets -> Seq(UpMessage)] /\ v \in Vms \cup {None}
    BY <1>0, <1>2, DeliversType DEF HandleVMProvisioningStarted
  <2>3. tasks' \in [Tasks -> Task]
    BY <1>0, <1>2, <2>1, <2>2, HandlerType, StartType DEF HandleVMProvisioningStarted
  <2>4. QED
    BY <1>2, <2>2, <2>3 DEF HandleVMProvisioningStarted, TypeOK, AgentTypeOK
<1>3. CASE HandleVMProvisioned(t, s)
  <2> DEFINE rest == IF vms[v].linked THEN <<SetComputer("active")>> ELSE <<>>
             calls == <<SetVm("running")>> \o rest
  <2>1. up' \in [Sockets -> Seq(UpMessage)] /\ v \in Vms \cup {None}
    BY <1>0, <1>3, DeliversType DEF HandleVMProvisioned
  <2>2. rest \in Seq(Call) /\ <<SetVm("running")>> \in Seq(Call)
    BY CallLists, ShortLists DEF VMStatus, ComputerStatus
  <2>3. calls \in Seq(Call)
    BY <2>2, Concatenation
  <2>4. Handler(v, calls) \in Task
    BY <2>1, <2>3, HandlerType
  <2>5. tasks' = tasks \/ Start(t, Handler(v, calls))
    BY <1>3 DEF HandleVMProvisioned
  <2>6. tasks' \in [Tasks -> Task]
    BY <1>0, <2>4, <2>5, StartType
  <2>7. QED
    BY <1>3, <2>1, <2>6 DEF HandleVMProvisioned, TypeOK, AgentTypeOK
<1>4. CASE HandleVMProvisioningFailed(t, s)
  <2>1. up' \in [Sockets -> Seq(UpMessage)] /\ v \in Vms \cup {None}
    BY <1>0, <1>4, DeliversType DEF HandleVMProvisioningFailed
  <2>2. PICK w \in Vms :
          Start(t, [Handler(v, <<SetVm("failed"), Do("closeRental")>> \o
                      IF vms[w].linked THEN <<SetComputer("available"), SetCurrentVM("null")>>
                      ELSE <<>>)
                    EXCEPT !.computer = w])
    BY <1>4 DEF HandleVMProvisioningFailed, FoundBy
  <2> DEFINE rest == IF vms[w].linked
                     THEN <<SetComputer("available"), SetCurrentVM("null")>> ELSE <<>>
             calls == <<SetVm("failed"), Do("closeRental")>> \o rest
  <2>3. rest \in Seq(Call) /\ <<SetVm("failed"), Do("closeRental")>> \in Seq(Call)
    BY CallLists, ShortLists, FreeComputerList DEF VMStatus, PlainOp
  <2>4. calls \in Seq(Call)
    BY <2>3, Concatenation
  <2> HIDE DEF calls
  <2>5. [Handler(v, calls) EXCEPT !.computer = w] \in Task
    BY <2>1, <2>4, HandlerWith
  <2>6. tasks' \in [Tasks -> Task]
    BY <1>0, <2>2, <2>5, StartType DEF calls
  <2>7. QED
    BY <1>4, <2>1, <2>6 DEF HandleVMProvisioningFailed, TypeOK, AgentTypeOK
<1>5. CASE HandleVMDestroyed(t, s)
  <2> DEFINE next == IF vms[v].linked /\ IsComputerConnected(v) THEN "available"
                     ELSE "offline"
             rest == IF vms[v].linked
                     THEN <<SetComputer("available"), SetCurrentVM("null")>> ELSE <<>>
             calls == <<SetVm(next)>> \o rest
  <2>1. up' \in [Sockets -> Seq(UpMessage)] /\ v \in Vms \cup {None}
    BY <1>0, <1>5, DeliversType DEF HandleVMDestroyed
  <2>2. next \in VMStatus
    BY DEF VMStatus
  <2> HIDE DEF next
  <2>3. rest \in Seq(Call) /\ <<SetVm(next)>> \in Seq(Call)
    BY <2>2, CallLists, ShortLists, FreeComputerList
  <2>4. calls \in Seq(Call)
    BY <2>3, Concatenation
  <2> HIDE DEF calls
  <2>5. Handler(v, calls) \in Task
    BY <2>1, <2>4, HandlerType
  <2>6. tasks' \in [Tasks -> Task]
    BY <1>0, <1>5, <2>5, StartType DEF HandleVMDestroyed, calls, next
  <2>7. QED
    BY <1>5, <2>1, <2>6 DEF HandleVMDestroyed, TypeOK, AgentTypeOK
<1>6. CASE HandleHeartbeat(t, s)
  <2>1. <<Do("reconcileVm")>> \in Seq(Call)
    BY CallLists, ShortLists DEF PlainOp
  <2>2. tasks' \in [Tasks -> Task]
    BY <1>0, <1>6, <2>1, HandlerType, StartType DEF HandleHeartbeat
  <2>3. QED
    BY <1>0, <1>6, <2>2, DeliversType DEF HandleHeartbeat, TypeOK, AgentTypeOK
<1>7. QED
  BY <1>1, <1>2, <1>3, <1>4, <1>5, <1>6 DEF Event

LEMMA DisconnectType ==
  ASSUME TypeOK, NEW t \in Tasks, NEW s \in Sockets, HandleDisconnect(t, s)
  PROVE  TypeOK'
<1>1. Disconnection \in Seq(Call)
  BY CallLists, ShortLists DEF PlainOp, Disconnection
<1>2. Owner(s) \in Vms /\ tasks \in [Tasks -> Task]
  BY DEF TypeOK, Sockets, Owner
<1>3. [Handler(Owner(s), Disconnection) EXCEPT !.socket = s] \in Task
  BY <1>1, <1>2, HandlerWith
<1>4. tasks' \in [Tasks -> Task]
  BY <1>2, <1>3, StartType DEF HandleDisconnect
<1>5. line' \in [Sockets -> LineState] /\ up' \in [Sockets -> Seq(UpMessage)]
  BY EmptySeq DEF HandleDisconnect, TypeOK, AgentTypeOK, LineState
<1>6. QED
  BY <1>4, <1>5 DEF HandleDisconnect, TypeOK, AgentTypeOK, tables

LEMMA SendUpType ==
  ASSUME AgentTypeOK, NEW v \in Vms, NEW message \in UpMessage, SendUp(v, <<message>>)
  PROVE  up' \in [Sockets -> Seq(UpMessage)]
<1>1. <<message>> \in Seq(UpMessage)
  OBVIOUS
<1>2. \A s \in Sockets : up[s] \o <<message>> \in Seq(UpMessage)
  BY <1>1, ConcatProperties DEF AgentTypeOK
<1>3. QED
  BY <1>2 DEF SendUp, AgentTypeOK

LEMMA UpTypes ==
  \A type \in UpType, v \in Vms \cup {None} : Message(type, v) \in UpMessage
BY DEF Message, UpMessage

LEMMA SocketType ==
  ASSUME AgentTypeOK, NEW v \in Vms, Online(v)
  PROVE  SocketOf(v) \in Sockets
BY RecordsAssumption DEF AgentTypeOK, AgentState, Online, SocketOf, Sockets

\* The head order on the connector's socket and what is left after it.
LEMMA ReceivesType ==
  ASSUME AgentTypeOK, NEW v \in Vms, NEW type, Receives(v, type), Consume(v)
  PROVE  /\ Received(v).vm \in Vms \cup {None}
         /\ down' \in [Sockets -> Seq(DownMessage)]
<1>1. SocketOf(v) \in Sockets
  BY SocketType DEF Receives
<1>2. down[SocketOf(v)] \in Seq(DownMessage) /\ down[SocketOf(v)] # <<>>
  BY <1>1 DEF Receives, AgentTypeOK
<1>3. Received(v) \in DownMessage /\ Tail(down[SocketOf(v)]) \in Seq(DownMessage)
  BY <1>2, HeadTailProperties DEF Received
<1>4. QED
  BY <1>1, <1>3 DEF Consume, DownMessage, AgentTypeOK

LEMMA SessionType ==
  /\ 0 \in 0 .. MaxSessions
  /\ \A n \in 1 .. MaxSessions : n \in 0 .. MaxSessions
  /\ \A a \in AgentState, n \in 0 .. MaxSessions, b \in BOOLEAN :
       [a EXCEPT !.session = n, !.registered = b] \in AgentState
<1>1. 0 \in 0 .. MaxSessions /\ \A n \in 1 .. MaxSessions : n \in 0 .. MaxSessions
  BY RecordsAssumption
<1>2. ASSUME NEW a \in AgentState, NEW n \in 0 .. MaxSessions, NEW b \in BOOLEAN
      PROVE  [a EXCEPT !.session = n, !.registered = b] \in AgentState
  BY DEF AgentState
<1>3. QED
  BY <1>1, <1>2

LEMMA AgentNextType ==
  ASSUME TypeOK, NEW v \in Vms, AgentNext(v)
  PROVE  TypeOK'
<1> SUFFICES AgentTypeOK'
  BY DEF AgentNext, TypeOK, tables
<1> USE DEF AgentTypeOK
<1>0. AgentTypeOK /\ agent[v] \in AgentState
  BY DEF TypeOK
<1>1. CASE AgentConnect(v)
  <2>1. PICK n \in 1 .. MaxSessions :
          /\ line' = [line EXCEPT ![<<v, n>>] = "open"]
          /\ agent' = [agent EXCEPT ![v].session = n, ![v].registered = FALSE]
          /\ up' = [up EXCEPT ![<<v, n>>] = <<Message("client_connected", None)>>]
          /\ UNCHANGED down
    BY <1>1 DEF AgentConnect
  <2>2. [agent[v] EXCEPT !.session = n, !.registered = FALSE] \in AgentState
    BY <1>0, SessionType
  <2>3. Message("client_connected", None) \in UpMessage
    BY UpTypes DEF UpType
  <2>4. up' \in [Sockets -> Seq(UpMessage)]
    <3>1. <<Message("client_connected", None)>> \in Seq(UpMessage)
      BY <2>3
    <3>2. QED
      BY <1>0, <2>1, <3>1
  <2>5. agent' \in [Vms -> AgentState]
    BY <1>0, <2>1, <2>2
  <2>6. QED
    BY <1>0, <2>1, <2>4, <2>5 DEF LineState
<1>2. CASE LoseConnection(v)
  <2>1. [agent[v] EXCEPT !.session = 0, !.registered = FALSE] \in AgentState
    BY <1>0, SessionType
  <2>2. down' \in [Sockets -> Seq(DownMessage)] /\ line' \in [Sockets -> LineState]
    BY <1>0, <1>2, EmptySeq DEF LoseConnection, LineState
  <2>3. QED
    BY <1>0, <1>2, <2>1, <2>2 DEF LoseConnection
<1>3. CASE AgentAcknowledged(v)
  <2>1. Received(v).vm \in Vms \cup {None} /\ down' \in [Sockets -> Seq(DownMessage)]
    BY <1>0, <1>3, ReceivesType DEF AgentAcknowledged
  <2>2. [agent[v] EXCEPT !.registered = TRUE, !.currentVm = Received(v).vm] \in AgentState
    BY <1>0, <2>1 DEF AgentState
  <2>3. QED
    BY <1>0, <1>3, <2>1, <2>2 DEF AgentAcknowledged
<1>4. CASE AgentProvision(v)
  <2>1. Received(v).vm \in Vms \cup {None} /\ down' \in [Sockets -> Seq(DownMessage)]
    BY <1>0, <1>4, ReceivesType DEF AgentProvision
  <2>2. agent[v].builds + 1 \in 0 .. MaxBuilds
    BY <1>0, <1>4, AgentAssumption DEF AgentProvision, AgentState
  <2>3. [agent[v] EXCEPT !.currentVm = Received(v).vm, !.builds = @ + 1] \in AgentState
    BY <1>0, <2>1, <2>2 DEF AgentState
  <2>4. Message("vm_provisioning_started", Received(v).vm) \in UpMessage
    BY <2>1, UpTypes DEF UpType
  <2>5. up' \in [Sockets -> Seq(UpMessage)]
    BY <1>0, <1>4, <2>4, SendUpType DEF AgentProvision
  <2>6. QED
    BY <1>0, <1>4, <2>1, <2>3, <2>5 DEF AgentProvision
<1>5. ASSUME NEW result \in {"vm_provisioned", "vm_provisioning_failed"},
             AgentProvisionDone(v, result)
      PROVE  AgentTypeOK'
  <2>1. agent[v].builds - 1 \in 0 .. MaxBuilds
    BY <1>0, <1>5, AgentAssumption DEF AgentProvisionDone, AgentState
  <2>2. [agent[v] EXCEPT !.builds = @ - 1] \in AgentState
    BY <1>0, <2>1 DEF AgentState
  <2>3. Message(result, agent[v].currentVm) \in UpMessage
    BY <1>0, UpTypes DEF UpType, AgentState
  <2>4. up' \in [Sockets -> Seq(UpMessage)]
    BY <1>0, <1>5, <2>3, SendUpType DEF AgentProvisionDone
  <2>5. QED
    BY <1>0, <1>5, <2>2, <2>4 DEF AgentProvisionDone
<1>6. CASE AgentDestroy(v)
  <2>1. Received(v).vm \in Vms \cup {None} /\ down' \in [Sockets -> Seq(DownMessage)]
    BY <1>0, <1>6, ReceivesType DEF AgentDestroy
  <2>2. [agent[v] EXCEPT !.currentVm = None] \in AgentState
    BY <1>0 DEF AgentState
  <2>3. Message("vm_destroyed", Received(v).vm) \in UpMessage
    BY <2>1, UpTypes DEF UpType
  <2>4. up' \in [Sockets -> Seq(UpMessage)]
    BY <1>0, <1>6, <2>3, SendUpType DEF AgentDestroy
  <2>5. QED
    BY <1>0, <1>6, <2>1, <2>2, <2>4 DEF AgentDestroy
<1>7. CASE AgentHeartbeat(v)
  <2>1. Message("heartbeat", None) \in UpMessage
    BY UpTypes DEF UpType
  <2>2. up' \in [Sockets -> Seq(UpMessage)]
    BY <1>0, <1>7, <2>1, SendUpType DEF AgentHeartbeat
  <2>3. QED
    BY <1>0, <1>7, <2>2 DEF AgentHeartbeat
<1>8. QED
  BY <1>1, <1>2, <1>3, <1>4, <1>5, <1>6, <1>7 DEF AgentNext, AgentStep

LEMMA RestartType ==
  ASSUME TypeOK, Restart
  PROVE  TypeOK'
<1>1. tasks' \in [Tasks -> Task] /\ clients' \in Seq(Sockets)
  BY IdleType, EmptySeq DEF Restart
<1>2. \A v \in Vms : [agent[v] EXCEPT !.session = 0, !.registered = FALSE] \in AgentState
  BY SessionType DEF TypeOK, AgentTypeOK
<1>3. AgentTypeOK'
  BY <1>2, EmptySeq DEF Restart, AgentTypeOK, LineState
<1>4. QED
  BY <1>1, <1>3 DEF Restart, TypeOK, tables

LEMMA TypeStep == TypeOK /\ [Next]_vars => TypeOK'
<1> SUFFICES ASSUME TypeOK, [Next]_vars PROVE TypeOK'
  OBVIOUS
<1>1. ASSUME NEW t \in Tasks, Request(t) PROVE TypeOK'
  BY <1>1, RequestType
<1>2. ASSUME NEW t \in Tasks, Step(t) PROVE TypeOK'
  BY <1>2, ServiceCallType, RentalCallType, GatewayCallType DEF Step
<1>3. ASSUME NEW t \in Tasks, NEW s \in Sockets, Event(t, s) PROVE TypeOK'
  BY <1>3, EventType
<1>4. ASSUME NEW t \in Tasks, NEW s \in Sockets, HandleDisconnect(t, s) PROVE TypeOK'
  BY <1>4, DisconnectType
<1>5. ASSUME NEW v \in Vms, AgentNext(v) PROVE TypeOK'
  BY <1>5, AgentNextType
<1>6. CASE Restart
  BY <1>6, RestartType
<1>7. CASE UNCHANGED vars
  BY <1>7 DEF vars, TypeOK, AgentTypeOK
<1>8. QED
  BY <1>1, <1>2, <1>3, <1>4, <1>5, <1>6, <1>7 DEF Next

\* The tables, the registry, the suspended handlers, the connectors and the
\* channels stay what they are declared to be under every interleaving.
THEOREM TypeCorrect == Spec => []TypeOK
BY TypeInit, TypeStep, PTL DEF Spec

-----------------------------------------------------------------------------
(* What interleaved saves of whole rental rows can and cannot do.  Any     *)
(* handler may write a row it loaded long ago; the argument is about the   *)
(* copies they hold: a copy is whole, and it ends the rental or pays it.   *)

RentalInv == TypeOK /\ RentalRowsWhole /\ PendingSavesWhole

\* A row of the table is left alone, ended or paid.
SafeWrites ==
  \A r \in DOMAIN rentals :
    \/ rentals'[r] = rentals[r]
    \/ rentals'[r].state = "not_active"
    \/ rentals'[r].paymentStatus = "paid"

\* No handler has loaded a rental that it had not loaded before.
NoNewCopy ==
  \A t \in Tasks : tasks'[t].rentalRow \in {tasks[t].rentalRow, None}

-----------------------------------------------------------------------------
(* Steps that neither write a rental nor load one.                         *)

LEMMA QuietStep ==
  ASSUME RentalInv, UNCHANGED rentals, NoNewCopy
  PROVE  RentalRowsWhole' /\ PendingSavesWhole' /\ SafeWrites
<1>1. RentalRowsWhole' /\ SafeWrites
  BY DEF RentalInv, RentalRowsWhole, SafeWrites
<1>2. ASSUME NEW t \in Tasks, tasks'[t].rentalRow # None
      PROVE  tasks'[t].rentalRow = tasks[t].rentalRow
  BY <1>2 DEF NoNewCopy
<1>3. PendingSavesWhole'
  BY <1>2 DEF RentalInv, PendingSavesWhole
<1>4. QED
  BY <1>1, <1>3

LEMMA ContinueDropsCopy ==
  ASSUME tasks \in [Tasks -> Task], NEW t \in Tasks, NEW rest, ContinueWith(t, rest)
  PROVE  NoNewCopy
<1>1. Idle.rentalRow = None
  BY DEF Idle
<1>2. [tasks[t] EXCEPT !.todo = rest, !.vmRow = None, !.computerRow = None,
                       !.rentalRow = None].rentalRow = None
  BY DEF Task
<1>3. QED
  BY <1>1, <1>2 DEF ContinueWith, NoNewCopy

LEMMA StartWithoutCopy ==
  ASSUME tasks \in [Tasks -> Task], NEW t \in Tasks, NEW task,
         task.rentalRow = None, Start(t, task)
  PROVE  NoNewCopy
BY DEF Start, NoNewCopy

LEMMA HandlerHoldsNothing ==
  \A v, calls, s :
    /\ Handler(v, calls).rentalRow = None
    /\ [Handler(v, calls) EXCEPT !.socket = s].rentalRow = None
    /\ [Handler(v, calls) EXCEPT !.computer = s].rentalRow = None
BY DEF Handler, Idle

LEMMA QuietCalls ==
  ASSUME RentalInv, NEW t \in Tasks,
         \/ LoadVm(t) \/ SaveVm(t) \/ SetPhysicalComputer(t)
         \/ LoadComputer(t) \/ SaveComputer(t) \/ RegisterKnown(t) \/ RegisterNew(t)
         \/ SetConnectedFalse(t) \/ SetCurrentVm(t) \/ NoActiveRental(t)
         \/ SendProvisionVM(t) \/ SendDestroyVM(t) \/ Connect(t) \/ Forget(t)
         \/ OfflineIfBusy(t) \/ ReconcileVm(t) \/ ReconcileRental(t)
  PROVE  UNCHANGED rentals /\ NoNewCopy
<1> USE DEF tables
<1>0. tasks \in [Tasks -> Task]
  BY DEF RentalInv, TypeOK
<1>1. CASE LoadVm(t)
  <2>1. \E x : tasks' = [tasks EXCEPT ![t].vmRow = x]
    BY <1>1 DEF LoadVm
  <2>2. QED
    BY <1>0, <1>1, <2>1 DEF LoadVm, NoNewCopy, Task
<1>2. CASE LoadComputer(t)
  <2>1. \E x : tasks' = [tasks EXCEPT ![t].computerRow = x]
    BY <1>2 DEF LoadComputer
  <2>2. QED
    BY <1>0, <1>2, <2>1 DEF LoadComputer, NoNewCopy, Task
<1>3. CASE \/ SaveVm(t) \/ SetPhysicalComputer(t) \/ SaveComputer(t) \/ RegisterKnown(t)
           \/ SetConnectedFalse(t) \/ SetCurrentVm(t) \/ NoActiveRental(t)
           \/ Connect(t) \/ Forget(t)
  <2>1. Return(t) /\ UNCHANGED rentals
    BY <1>3 DEF SaveVm, SetPhysicalComputer, SaveComputer, RegisterKnown,
       SetConnectedFalse, SetCurrentVm, NoActiveRental, Connect, Forget
  <2>2. QED
    BY <1>0, <2>1, ContinueDropsCopy DEF Return
<1>4. CASE RegisterNew(t) \/ SendProvisionVM(t) \/ SendDestroyVM(t) \/ OfflineIfBusy(t)
           \/ ReconcileVm(t) \/ ReconcileRental(t)
  <2>1. (\E rest : ContinueWith(t, rest)) /\ UNCHANGED rentals
    BY <1>4 DEF RegisterNew, SendProvisionVM, SendDestroyVM, OfflineIfBusy, ReconcileVm,
       ReconcileRental, Return
  <2>2. QED
    BY <1>0, <2>1, ContinueDropsCopy
<1>5. QED
  BY <1>1, <1>2, <1>3, <1>4

LEMMA QuietEvents ==
  ASSUME RentalInv, NEW t \in Tasks, NEW s \in Sockets,
         Event(t, s) \/ HandleDisconnect(t, s)
  PROVE  UNCHANGED rentals /\ NoNewCopy
<1>0. tasks \in [Tasks -> Task]
  BY DEF RentalInv, TypeOK
<1>1. /\ UNCHANGED rentals
      /\ \/ UNCHANGED tasks
         \/ \E v, calls : Start(t, Handler(v, calls))
         \/ \E v, calls, x : Start(t, [Handler(v, calls) EXCEPT !.socket = x])
         \/ \E v, calls, x : Start(t, [Handler(v, calls) EXCEPT !.computer = x])
  BY DEF Event, HandleClientConnected, HandleVMProvisioningStarted, HandleVMProvisioned,
     HandleVMProvisioningFailed, HandleVMDestroyed, HandleHeartbeat, HandleDisconnect, tables
<1>2. CASE UNCHANGED tasks
  BY <1>1, <1>2 DEF NoNewCopy
<1>3. CASE ~ UNCHANGED tasks
  BY <1>0, <1>1, <1>3, HandlerHoldsNothing, StartWithoutCopy
<1>4. QED
  BY <1>2, <1>3

-----------------------------------------------------------------------------
(* Steps that load a rental or write one.                                  *)

\* Of the copies only the one of t is new: what is to show is about it.
LEMMA NewCopy ==
  ASSUME RentalInv, NEW t \in Tasks, NEW task, Start(t, task), UNCHANGED rentals,
         RowWhole(task.rentalRow.row),
         task.rentalRow.key # NewKey =>
           /\ task.rentalRow.key \in DOMAIN rentals
           /\ \/ task.rentalRow.row.state = "not_active"
              \/ task.rentalRow.row.paymentStatus = "paid"
  PROVE  RentalRowsWhole' /\ PendingSavesWhole' /\ SafeWrites
<1>1. \A u \in Tasks : tasks'[u] = tasks[u] \/ (u = t /\ tasks'[u] = task)
  BY DEF Start, RentalInv, TypeOK
<1>2. RentalRowsWhole' /\ SafeWrites
  BY DEF RentalInv, RentalRowsWhole, SafeWrites
<1>3. PendingSavesWhole'
  BY <1>1 DEF RentalInv, PendingSavesWhole
<1>4. QED
  BY <1>2, <1>3

LEMMA EndedRowWhole ==
  ASSUME NEW row \in RentalRow, NEW cost \in {"zero", "usage"}
  PROVE  RowWhole(EndedRental(row, cost)) /\ EndedRental(row, cost).state = "not_active"
BY DEF RowWhole, EndedRental, RentalRow

LEMMA PaidRowWhole ==
  ASSUME NEW row \in RentalRow, RowWhole(row)
  PROVE  RowWhole(PaidRental(row)) /\ PaidRental(row).paymentStatus = "paid"
BY DEF RowWhole, PaidRental, RentalRow

LEMMA RowTypes ==
  ASSUME TypeOK
  PROVE  /\ DOMAIN rentals = 1 .. Len(rentals)
         /\ Len(rentals) \in Nat
         /\ \A r \in DOMAIN rentals : r # NewKey /\ rentals[r] \in RentalRow
BY ElementOfSeq, LenProperties DEF TypeOK, NewKey

LEMMA RequestKeepsRows ==
  ASSUME RentalInv, NEW t \in Tasks, Request(t)
  PROVE  RentalRowsWhole' /\ PendingSavesWhole' /\ SafeWrites
<1>0. tasks \in [Tasks -> Task] /\ TypeOK
  BY DEF RentalInv, TypeOK
<1>1. ASSUME NEW u \in Users, NEW v \in Vms, CreateRental(t, u, v)
      PROVE  RentalRowsWhole' /\ PendingSavesWhole' /\ SafeWrites
  <2> DEFINE calls == <<Do("insertRental"), SetVm("building")>> \o
                      IF vms[v].linked THEN <<Do("provision_vm")>>
                      ELSE <<Do("closeRental"), SetVm("failed")>>
             copy == [key |-> NewKey, row |-> NewRental(v, u)]
             task == [Handler(v, calls) EXCEPT !.rentalRow = copy]
  <2>1. Start(t, task) /\ UNCHANGED rentals
    BY <1>1 DEF CreateRental, tables
  <2> HIDE DEF calls
  <2>2. task.rentalRow = copy
    BY DEF Handler, Idle
  <2>3. RowWhole(copy.row) /\ copy.key = NewKey
    BY DEF RowWhole, NewRental
  <2> HIDE DEF task, copy
  <2>4. QED
    BY <2>1, <2>2, <2>3, NewCopy
<1>2. ASSUME NEW u \in Users, NEW r \in DOMAIN rentals, EndRental(t, u, r)
      PROVE  RentalRowsWhole' /\ PendingSavesWhole' /\ SafeWrites
  <2> DEFINE copy == [key |-> r, row |-> EndedRental(rentals[r], "usage")]
  <2>1. PICK v, calls : Start(t, [Handler(v, calls) EXCEPT !.rentalRow = copy])
    BY <1>2 DEF EndRental
  <2> DEFINE task == [Handler(v, calls) EXCEPT !.rentalRow = copy]
  <2>2. task.rentalRow = copy
    BY DEF Handler, Idle
  <2>3. RowWhole(copy.row) /\ copy.row.state = "not_active" /\ copy.key = r
    BY <1>0, RowTypes, EndedRowWhole
  <2>4. UNCHANGED rentals
    BY <1>2 DEF EndRental, tables
  <2> HIDE DEF task, copy
  <2>5. QED
    BY <2>1, <2>2, <2>3, <2>4, NewCopy DEF task
<1>3. ASSUME NEW u \in Users, NEW r \in DOMAIN rentals, ProcessPayment(t, u, r)
      PROVE  RentalRowsWhole' /\ PendingSavesWhole' /\ SafeWrites
  <2> DEFINE copy == [key |-> r, row |-> PaidRental(rentals[r])]
  <2>1. PICK v, calls : Start(t, [Handler(v, calls) EXCEPT !.rentalRow = copy])
    BY <1>3 DEF ProcessPayment
  <2> DEFINE task == [Handler(v, calls) EXCEPT !.rentalRow = copy]
  <2>2. task.rentalRow = copy
    BY DEF Handler, Idle
  <2>3. RowWhole(copy.row) /\ copy.row.paymentStatus = "paid" /\ copy.key = r
    BY <1>0, RowTypes, PaidRowWhole DEF RentalInv, RentalRowsWhole
  <2>4. UNCHANGED rentals
    BY <1>3 DEF ProcessPayment, tables
  <2> HIDE DEF task, copy
  <2>5. QED
    BY <2>1, <2>2, <2>3, <2>4, NewCopy DEF task
<1>4. ASSUME NEW u \in Users, NEW v \in Vms, NEW status \in PatchTargets,
             PatchVmStatus(t, u, v, status)
      PROVE  RentalRowsWhole' /\ PendingSavesWhole' /\ SafeWrites
  <2>1. NoNewCopy /\ UNCHANGED rentals
    BY <1>0, <1>4, HandlerHoldsNothing, StartWithoutCopy DEF PatchVmStatus, tables
  <2>2. QED
    BY <2>1, QuietStep
<1>5. QED
  BY <1>1, <1>2, <1>3, <1>4 DEF Request

LEMMA LoadKeepsRows ==
  ASSUME RentalInv, NEW t \in Tasks, LoadActiveRental(t)
  PROVE  RentalRowsWhole' /\ PendingSavesWhole' /\ SafeWrites
<1>0. TypeOK /\ tasks \in [Tasks -> Task]
  BY DEF RentalInv, TypeOK
<1>1. PICK r \in DOMAIN rentals : tasks' = [tasks EXCEPT ![t].rentalRow =
        [key |-> r, row |-> EndedRental(rentals[r], "zero")]]
  BY DEF LoadActiveRental
<1> DEFINE copy == [key |-> r, row |-> EndedRental(rentals[r], "zero")]
<1>2. RowWhole(copy.row) /\ copy.row.state = "not_active" /\ copy.key = r
  BY <1>0, RowTypes, EndedRowWhole
<1> HIDE DEF copy
<1>3. \A u \in Tasks :
        tasks'[u].rentalRow = tasks[u].rentalRow \/ tasks'[u].rentalRow = copy
  BY <1>0, <1>1 DEF copy, Task
<1>4. UNCHANGED rentals
  BY DEF LoadActiveRental, tables
<1>5. RentalRowsWhole' /\ SafeWrites
  BY <1>4 DEF RentalInv, RentalRowsWhole, SafeWrites
<1>6. PendingSavesWhole'
  BY <1>2, <1>3, <1>4 DEF RentalInv, PendingSavesWhole
<1>7. QED
  BY <1>5, <1>6

LEMMA InsertKeepsRows ==
  ASSUME RentalInv, NEW t \in Tasks, InsertRental(t)
  PROVE  RentalRowsWhole' /\ PendingSavesWhole' /\ SafeWrites
<1> DEFINE row == tasks[t].rentalRow.row
<1>0. TypeOK /\ tasks \in [Tasks -> Task]
  BY DEF RentalInv, TypeOK
<1>1. row \in RentalRow /\ RowWhole(row)
  BY <1>0 DEF InsertRental, RentalInv, PendingSavesWhole, Task, Loaded
<1>2. rentals' = Append(rentals, row)
  BY DEF InsertRental
<1> HIDE DEF row
<1>3. /\ DOMAIN rentals' = 1 .. Len(rentals) + 1
      /\ \A r \in DOMAIN rentals : rentals'[r] = rentals[r]
      /\ rentals'[Len(rentals) + 1] = row
  BY <1>0, <1>1, <1>2, AppendProperties, RowTypes DEF TypeOK
<1>4. DOMAIN rentals = 1 .. Len(rentals) /\ Len(rentals) \in Nat
  BY <1>0, RowTypes
<1>5. NoNewCopy
  BY <1>0, ContinueDropsCopy DEF InsertRental, Return
<1>6. RentalRowsWhole'
  <2> SUFFICES ASSUME NEW r \in DOMAIN rentals' PROVE RowWhole(rentals'[r])
    BY DEF RentalRowsWhole, RowWhole
  <2>1. r \in DOMAIN rentals \/ r = Len(rentals) + 1
    BY <1>3, <1>4
  <2>2. QED
    BY <2>1, <1>1, <1>3 DEF RentalInv, RentalRowsWhole
<1>7. SafeWrites
  BY <1>3 DEF SafeWrites
<1>8. PendingSavesWhole'
  <2>1. \A r \in DOMAIN rentals : r \in DOMAIN rentals'
    BY <1>3, <1>4
  <2>2. QED
    BY <1>5, <2>1 DEF NoNewCopy, RentalInv, PendingSavesWhole
<1>9. QED
  BY <1>6, <1>7, <1>8

LEMMA SaveKeepsRows ==
  ASSUME RentalInv, NEW t \in Tasks, SaveRental(t)
  PROVE  RentalRowsWhole' /\ PendingSavesWhole' /\ SafeWrites
<1> DEFINE copy == tasks[t].rentalRow
<1>0. TypeOK /\ tasks \in [Tasks -> Task]
  BY DEF RentalInv, TypeOK
<1>1. /\ RowWhole(copy.row)
      /\ copy.key \in DOMAIN rentals
      /\ copy.row.state = "not_active" \/ copy.row.paymentStatus = "paid"
  BY DEF SaveRental, RentalInv, PendingSavesWhole
<1>2. rentals' = [rentals EXCEPT ![copy.key] = copy.row]
  BY DEF SaveRental
<1> HIDE DEF copy
<1>3. /\ DOMAIN rentals' = DOMAIN rentals
      /\ \A r \in DOMAIN rentals :
           rentals'[r] = rentals[r] \/ rentals'[r] = copy.row
  BY <1>2
<1>4. NoNewCopy
  BY <1>0, ContinueDropsCopy DEF SaveRental, Return
<1>5. RentalRowsWhole'
  <2> SUFFICES ASSUME NEW r \in DOMAIN rentals' PROVE RowWhole(rentals'[r])
    BY DEF RentalRowsWhole, RowWhole
  <2>1. QED
    BY <1>1, <1>3 DEF RentalInv, RentalRowsWhole
<1>6. SafeWrites
  BY <1>1, <1>3 DEF SafeWrites
<1>7. PendingSavesWhole'
  BY <1>3, <1>4 DEF NoNewCopy, RentalInv, PendingSavesWhole
<1>8. QED
  BY <1>5, <1>6, <1>7

-----------------------------------------------------------------------------
(* The invariant and the three properties.                                 *)

LEMMA RentalInvInit == Init => RentalInv
<1> SUFFICES ASSUME Init PROVE RentalInv
  OBVIOUS
<1>1. DOMAIN rentals = {}
  BY DEF Init
<1>2. \A t \in Tasks : tasks[t].rentalRow = None
  BY DEF Init, Idle
<1>3. QED
  BY <1>1, <1>2, TypeInit DEF RentalInv, RentalRowsWhole, PendingSavesWhole

LEMMA RentalInvStep == RentalInv /\ [Next]_vars => RentalInv' /\ SafeWrites
<1> SUFFICES ASSUME RentalInv, [Next]_vars
             PROVE  RentalRowsWhole' /\ PendingSavesWhole' /\ SafeWrites
  BY TypeStep DEF RentalInv
<1>1. ASSUME NEW t \in Tasks, Request(t)
      PROVE  RentalRowsWhole' /\ PendingSavesWhole' /\ SafeWrites
  BY <1>1, RequestKeepsRows
<1>2. ASSUME NEW t \in Tasks, Step(t)
      PROVE  RentalRowsWhole' /\ PendingSavesWhole' /\ SafeWrites
  <2>1. CASE InsertRental(t)
    BY <2>1, InsertKeepsRows
  <2>2. CASE LoadActiveRental(t)
    BY <2>2, LoadKeepsRows
  <2>3. CASE SaveRental(t)
    BY <2>3, SaveKeepsRows
  <2>4. CASE ~(InsertRental(t) \/ LoadActiveRental(t) \/ SaveRental(t))
    BY <1>2, <2>4, QuietCalls, QuietStep DEF Step
  <2>5. QED
    BY <2>1, <2>2, <2>3, <2>4
<1>3. ASSUME NEW t \in Tasks, NEW s \in Sockets, Event(t, s) \/ HandleDisconnect(t, s)
      PROVE  RentalRowsWhole' /\ PendingSavesWhole' /\ SafeWrites
  BY <1>3, QuietEvents, QuietStep
<1>4. ASSUME NEW v \in Vms, AgentNext(v)
      PROVE  RentalRowsWhole' /\ PendingSavesWhole' /\ SafeWrites
  BY <1>4, QuietStep DEF AgentNext, NoNewCopy, tables
<1>5. CASE Restart
  <2>1. NoNewCopy
    BY <1>5 DEF Restart, NoNewCopy, Idle
  <2>2. QED
    BY <1>5, <2>1, QuietStep DEF Restart, tables
<1>6. CASE UNCHANGED vars
  BY <1>6, QuietStep DEF vars, NoNewCopy
<1>7. QED
  BY <1>1, <1>2, <1>3, <1>4, <1>5, <1>6 DEF Next

\* No interleaving of saves of whole rows tears a rental: it is active exactly
\* while it has no end, and costs nothing until it has one; and every copy of a
\* rental that a suspended handler holds ends it or pays it.
THEOREM RentalsStayWhole == Spec => []RentalsAreWhole
<1>1. RentalInv => RentalsAreWhole
  BY DEF RentalInv, RentalsAreWhole
<1>2. QED
  BY <1>1, RentalInvInit, RentalInvStep, PTL DEF Spec

\* endRental is undone by the stale save of a payment and by nothing else.
THEOREM OnlyPaymentRevives == Spec => RevivedOnlyByPayment
<1>1. RentalInv /\ [Next]_vars =>
        [\A r \in DOMAIN rentals :
           rentals[r].state = "not_active" /\ rentals'[r].state = "active"
             => rentals'[r].paymentStatus = "paid"]_vars
  BY RentalInvStep DEF SafeWrites
<1>2. QED
  BY <1>1, RentalInvInit, RentalInvStep, PTL DEF Spec, RevivedOnlyByPayment

\* A payment is undone by a stale save that ends the rental and by nothing else.
THEOREM OnlyEndingUndoesPayment == Spec => UnpaidOnlyByEnding
<1>1. RentalInv /\ [Next]_vars =>
        [\A r \in DOMAIN rentals :
           rentals[r].paymentStatus = "paid" /\ rentals'[r].paymentStatus # "paid"
             => rentals'[r].state = "not_active"]_vars
  BY RentalInvStep DEF SafeWrites
<1>2. QED
  BY <1>1, RentalInvInit, RentalInvStep, PTL DEF Spec, UnpaidOnlyByEnding

-----------------------------------------------------------------------------
(* What is left of the ledger when handlers overlap.  A copy that a        *)
(* handler holds is of the VM and the receiver of the row it will be       *)
(* written over, however often that row was written since.                 *)

SameParties(row, old) == row.vmId = old.vmId /\ row.receiverId = old.receiverId

CopiesKeepParties ==
  \A t \in Tasks : LET copy == tasks[t].rentalRow IN
    copy # None =>
      /\ copy.key = NewKey =>
           \E v \in Vms, u \in Users : copy.row = NewRental(v, u)
      /\ copy.key # NewKey => SameParties(copy.row, rentals[copy.key])

SeenInv == RentalInv /\ CopiesKeepParties

LEMMA CopiesKept ==
  ASSUME SeenInv, NoNewCopy,
         \A r \in DOMAIN rentals : SameParties(rentals'[r], rentals[r])
  PROVE  CopiesKeepParties'
<1>1. ASSUME NEW t \in Tasks, tasks'[t].rentalRow # None
      PROVE  tasks'[t].rentalRow = tasks[t].rentalRow
  BY <1>1 DEF NoNewCopy
<1>2. \A t \in Tasks : LET copy == tasks[t].rentalRow IN
        copy # None /\ copy.key # NewKey => copy.key \in DOMAIN rentals
  BY DEF SeenInv, RentalInv, PendingSavesWhole
<1>3. QED
  BY <1>1, <1>2 DEF SeenInv, CopiesKeepParties, SameParties

LEMMA CopyTaken ==
  ASSUME SeenInv, UNCHANGED rentals, NEW copy,
         \A u \in Tasks : tasks'[u].rentalRow \in {tasks[u].rentalRow, copy},
         copy.key = NewKey => \E v \in Vms, u \in Users : copy.row = NewRental(v, u),
         copy.key # NewKey => SameParties(copy.row, rentals[copy.key])
  PROVE  CopiesKeepParties'
BY DEF SeenInv, CopiesKeepParties, SameParties

LEMMA SameWhenEndedOrPaid ==
  ASSUME NEW row \in RentalRow, NEW cost
  PROVE  SameParties(EndedRental(row, cost), row) /\ SameParties(PaidRental(row), row)
BY DEF SameParties, EndedRental, PaidRental, RentalRow

LEMMA RequestKeepsParties ==
  ASSUME SeenInv, NEW t \in Tasks, Request(t)
  PROVE  CopiesKeepParties'
<1>0. tasks \in [Tasks -> Task] /\ TypeOK
  BY DEF SeenInv, RentalInv, TypeOK
<1>1. ASSUME NEW task, Start(t, task)
      PROVE  \A u \in Tasks : tasks'[u].rentalRow \in {tasks[u].rentalRow, task.rentalRow}
  BY <1>0, <1>1 DEF Start
<1>2. ASSUME NEW r \in DOMAIN rentals, NEW row, SameParties(row, rentals[r]),
             NEW v, NEW calls, UNCHANGED rentals,
             Start(t, [Handler(v, calls) EXCEPT !.rentalRow = [key |-> r, row |-> row]])
      PROVE  CopiesKeepParties'
  <2> DEFINE copy == [key |-> r, row |-> row]
             task == [Handler(v, calls) EXCEPT !.rentalRow = copy]
  <2>1. copy.key = r /\ r # NewKey /\ SameParties(copy.row, rentals[r])
    BY <1>0, <1>2, RowTypes
  <2>2. task.rentalRow = copy
    BY DEF Handler, Idle
  <2>3. Start(t, task)
    BY <1>2
  <2> HIDE DEF task, copy
  <2>4. \A x \in Tasks : tasks'[x].rentalRow \in {tasks[x].rentalRow, copy}
    BY <1>1, <2>2, <2>3
  <2>5. QED
    BY <1>2, <2>1, <2>4, CopyTaken
<1>3. ASSUME NEW u \in Users, NEW v \in Vms, CreateRental(t, u, v)
      PROVE  CopiesKeepParties'
  <2> DEFINE copy == [key |-> NewKey, row |-> NewRental(v, u)]
  <2>1. PICK calls : Start(t, [Handler(v, calls) EXCEPT !.rentalRow = copy])
    BY <1>3 DEF CreateRental
  <2>2. UNCHANGED rentals
    BY <1>3 DEF CreateRental, tables
  <2>3. copy.key = NewKey /\ \E w \in Vms, x \in Users : copy.row = NewRental(w, x)
    OBVIOUS
  <2> DEFINE task == [Handler(v, calls) EXCEPT !.rentalRow = copy]
  <2>4. task.rentalRow = copy
    BY DEF Handler, Idle
  <2>5. Start(t, task)
    BY <2>1
  <2> HIDE DEF task, copy
  <2>6. \A x \in Tasks : tasks'[x].rentalRow \in {tasks[x].rentalRow, copy}
    BY <1>1, <2>4, <2>5
  <2>7. QED
    BY <2>2, <2>3, <2>6, CopyTaken
<1>4. ASSUME NEW u \in Users, NEW r \in DOMAIN rentals, EndRental(t, u, r)
      PROVE  CopiesKeepParties'
  <2> DEFINE row == EndedRental(rentals[r], "usage")
  <2>1. PICK v, calls :
          Start(t, [Handler(v, calls) EXCEPT !.rentalRow = [key |-> r, row |-> row]])
    BY <1>4 DEF EndRental
  <2>2. SameParties(row, rentals[r]) /\ UNCHANGED rentals
    BY <1>0, <1>4, RowTypes, SameWhenEndedOrPaid DEF EndRental, tables
  <2> HIDE DEF row
  <2>3. QED
    BY <1>2, <2>1, <2>2
<1>5. ASSUME NEW u \in Users, NEW r \in DOMAIN rentals, ProcessPayment(t, u, r)
      PROVE  CopiesKeepParties'
  <2> DEFINE row == PaidRental(rentals[r])
  <2>1. PICK v, calls :
          Start(t, [Handler(v, calls) EXCEPT !.rentalRow = [key |-> r, row |-> row]])
    BY <1>5 DEF ProcessPayment
  <2>2. SameParties(row, rentals[r]) /\ UNCHANGED rentals
    BY <1>0, <1>5, RowTypes, SameWhenEndedOrPaid DEF ProcessPayment, tables
  <2> HIDE DEF row
  <2>3. QED
    BY <1>2, <2>1, <2>2
<1>6. ASSUME NEW u \in Users, NEW v \in Vms, NEW status \in PatchTargets,
             PatchVmStatus(t, u, v, status)
      PROVE  CopiesKeepParties'
  <2>1. NoNewCopy /\ UNCHANGED rentals
    BY <1>0, <1>6, HandlerHoldsNothing, StartWithoutCopy DEF PatchVmStatus, tables
  <2>2. QED
    BY <2>1, CopiesKept DEF SameParties
<1>7. QED
  BY <1>3, <1>4, <1>6, <1>5 DEF Request

LEMMA LoadKeepsParties ==
  ASSUME SeenInv, NEW t \in Tasks, LoadActiveRental(t)
  PROVE  CopiesKeepParties'
<1>0. TypeOK /\ tasks \in [Tasks -> Task]
  BY DEF SeenInv, RentalInv, TypeOK
<1>1. PICK r \in DOMAIN rentals : tasks' = [tasks EXCEPT ![t].rentalRow =
        [key |-> r, row |-> EndedRental(rentals[r], "zero")]]
  BY DEF LoadActiveRental
<1> DEFINE copy == [key |-> r, row |-> EndedRental(rentals[r], "zero")]
<1>2. copy.key = r /\ r # NewKey /\ SameParties(copy.row, rentals[r])
  BY <1>0, RowTypes, SameWhenEndedOrPaid
<1> HIDE DEF copy
<1>3. \A u \in Tasks : tasks'[u].rentalRow \in {tasks[u].rentalRow, copy}
  BY <1>0, <1>1 DEF copy, Task
<1>4. UNCHANGED rentals
  BY DEF LoadActiveRental, tables
<1>5. QED
  BY <1>2, <1>3, <1>4, CopyTaken

EntryOf(row) ==
  [vm |-> row.vmId, receiver |-> row.receiverId, open |-> row.state = "active",
   cost |-> row.totalCost, paid |-> row.paymentStatus = "paid"]
Entries == [r \in DOMAIN rentals |-> EntryOf(rentals[r])]

LEMMA EntriesAppended ==
  ASSUME rentals \in Seq(RentalRow), NEW row \in RentalRow, rentals' = Append(rentals, row)
  PROVE  Entries' = Append(Entries, EntryOf(row))
<1> DEFINE S == {EntryOf(x) : x \in RentalRow}
           n == Len(rentals)
           e == EntryOf(row)
<1>1. /\ n \in Nat /\ DOMAIN rentals = 1 .. n /\ \A r \in 1 .. n : rentals[r] \in RentalRow
  BY LenProperties, ElementOfSeq
<1>2. /\ rentals' \in Seq(RentalRow) /\ Len(rentals') = n + 1 /\ DOMAIN rentals' = 1 .. n + 1
      /\ \A r \in 1 .. n : rentals'[r] = rentals[r]
      /\ rentals'[n + 1] = row
  BY AppendProperties, LenProperties
<1> HIDE DEF n
<1>3. /\ Entries \in [1 .. n -> S] /\ \A r \in 1 .. n : Entries[r] = EntryOf(rentals[r])
  BY <1>1 DEF Entries
<1>4. \A r \in 1 .. n + 1 : r \in 1 .. n \/ r = n + 1
  BY <1>1
<1>5. /\ Entries' \in [1 .. n + 1 -> S]
      /\ \A r \in 1 .. n + 1 : Entries'[r] = EntryOf(rentals'[r])
  BY <1>1, <1>2, <1>4 DEF Entries
<1> HIDE DEF S, e
<1>6. e \in S
  BY DEF S, e
<1>7. Entries \in Seq(S) /\ Len(Entries) = n
  BY <1>1, <1>3
<1>8. /\ Append(Entries, e) \in Seq(S) /\ Len(Append(Entries, e)) = n + 1
      /\ \A r \in 1 .. n : Append(Entries, e)[r] = Entries[r]
      /\ Append(Entries, e)[n + 1] = e
  BY <1>6, <1>7, AppendProperties
<1>9. n + 1 \in Nat /\ \A r \in 1 .. n : r \in 1 .. n + 1
  BY <1>1
<1>10. Entries' \in Seq(S) /\ Len(Entries') = n + 1
  BY <1>5, <1>9
<1>11. \A r \in 1 .. n + 1 : Entries'[r] = Append(Entries, e)[r]
  BY <1>2, <1>3, <1>4, <1>5, <1>8, <1>9 DEF e
<1>12. QED
  BY <1>8, <1>10, <1>11, SeqEqual DEF e

\* What the end and the payment of a rental make of its entry.
LEMMA EntryFields ==
  ASSUME NEW x \in RentalRow
  PROVE  /\ EntryOf(x) \in Ledger!Entry
         /\ EntryOf(x).vm = x.vmId /\ EntryOf(x).receiver = x.receiverId
         /\ EntryOf(x).cost = x.totalCost
         /\ EntryOf(x).open = (x.state = "active")
         /\ EntryOf(x).paid = (x.paymentStatus = "paid")
BY DEF EntryOf, RentalRow, Ledger!Entry

\* Only two calls write the table of rentals.
LEMMA WhoWritesRentals ==
  ASSUME [Next]_vars
  PROVE  \/ UNCHANGED rentals
         \/ \E t \in Tasks : InsertRental(t) \/ SaveRental(t)
<1> USE DEF tables
<1>1. ASSUME NEW t \in Tasks, Request(t) PROVE UNCHANGED rentals
  BY <1>1 DEF Request, CreateRental, EndRental, ProcessPayment, PatchVmStatus
<1>2. ASSUME NEW t \in Tasks, NEW s \in Sockets, Event(t, s) \/ HandleDisconnect(t, s)
      PROVE  UNCHANGED rentals
  BY <1>2 DEF Event, HandleClientConnected, HandleVMProvisioningStarted, HandleVMProvisioned,
              HandleVMProvisioningFailed, HandleVMDestroyed, HandleHeartbeat, HandleDisconnect
<1>3. ASSUME NEW t \in Tasks, Step(t), ~InsertRental(t), ~SaveRental(t)
      PROVE  UNCHANGED rentals
  BY <1>3 DEF Step, LoadVm, SaveVm, SetPhysicalComputer, LoadComputer, SaveComputer,
              RegisterKnown, RegisterNew, SetConnectedFalse, SetCurrentVm, LoadActiveRental,
              NoActiveRental, SendProvisionVM, SendDestroyVM, Connect, Forget, OfflineIfBusy,
              ReconcileVm, ReconcileRental
<1>4. QED
  BY <1>1, <1>2, <1>3 DEF Next, vars, AgentNext, Restart

LEMMA InsertedRow ==
  ASSUME SeenInv, NEW t \in Tasks, InsertRental(t)
  PROVE  /\ \E v \in Vms, u \in Users : Ledger!OpenBeside(v, u)
         /\ CopiesKeepParties'
<1>0. /\ TypeOK /\ tasks \in [Tasks -> Task] /\ rentals \in Seq(RentalRow)
      /\ Len(rentals) \in Nat /\ DOMAIN rentals = 1 .. Len(rentals)
  BY RowTypes DEF SeenInv, RentalInv, TypeOK
<1>1. PICK v \in Vms, u \in Users : rentals' = Append(rentals, NewRental(v, u))
  BY DEF InsertRental, SeenInv, CopiesKeepParties
<1>2. NewRental(v, u) \in RentalRow
  BY RentalRowTypes
<1>3. Entries' = Append(Entries, EntryOf(NewRental(v, u)))
  BY <1>0, <1>1, <1>2, EntriesAppended
<1>4. EntryOf(NewRental(v, u)) = [vm |-> v, receiver |-> u, open |-> TRUE, cost |-> "zero",
                                  paid |-> FALSE]
  BY DEF EntryOf, NewRental
<1>5. Ledger!OpenBeside(v, u)
  BY <1>3, <1>4 DEF Ledger!OpenBeside, Entries, EntryOf
<1>6. \A r \in DOMAIN rentals : rentals'[r] = rentals[r]
  BY <1>0, <1>1, <1>2, AppendProperties
<1>7. NoNewCopy
  BY <1>0, ContinueDropsCopy DEF InsertRental, Return
<1>8. CopiesKeepParties'
  BY <1>6, <1>7, CopiesKept DEF SameParties
<1>9. QED
  BY <1>5, <1>8

LEMMA EntryRewritten ==
  ASSUME NEW e \in Ledger!Entry, NEW f \in Ledger!Entry,
         f.vm = e.vm, f.receiver = e.receiver
  PROVE  f = [e EXCEPT !.open = f.open, !.cost = f.cost, !.paid = f.paid]
BY DEF Ledger!Entry

LEMMA SavedRow ==
  ASSUME SeenInv, NEW t \in Tasks, SaveRental(t)
  PROVE  /\ \E r \in DOMAIN rentals : Ledger!WriteAsSeen(r)
         /\ CopiesKeepParties'
<1> DEFINE row == tasks[t].rentalRow.row
<1>0. /\ TypeOK /\ tasks \in [Tasks -> Task]
  BY DEF SeenInv, RentalInv, TypeOK
<1>1. PICK r \in DOMAIN rentals :
        /\ r = tasks[t].rentalRow.key /\ RowWhole(row) /\ SameParties(row, rentals[r])
        /\ row.state = "not_active" \/ row.paymentStatus = "paid"
  BY DEF SaveRental, SeenInv, RentalInv, PendingSavesWhole, CopiesKeepParties
<1>2. row \in RentalRow /\ rentals[r] \in RentalRow
  BY <1>0, <1>1, RowTypes DEF SaveRental, Task, Loaded
<1>3. rentals' = [rentals EXCEPT ![r] = row]
  BY <1>1 DEF SaveRental
<1>4. NoNewCopy
  BY <1>0, ContinueDropsCopy DEF SaveRental, Return
<1> HIDE DEF row
<1>5. CopiesKeepParties'
  BY <1>1, <1>3, <1>4, CopiesKept DEF SameParties
<1> DEFINE e == EntryOf(rentals[r])
           f == EntryOf(row)
<1>6. /\ e \in Ledger!Entry /\ f \in Ledger!Entry /\ f.vm = e.vm /\ f.receiver = e.receiver
      /\ ~f.open \/ f.paid
      /\ f.open => f.cost = "zero"
  BY <1>1, <1>2, EntryFields DEF SameParties, RowWhole
<1>7. f.open \in BOOLEAN /\ f.cost \in {"zero", "usage"} /\ f.paid \in BOOLEAN
  BY <1>6 DEF Ledger!Entry
<1> HIDE DEF e, f
<1>8. f = [e EXCEPT !.open = f.open, !.cost = f.cost, !.paid = f.paid]
  BY <1>6, EntryRewritten
<1>9. Entries' = [Entries EXCEPT ![r] = f]
  BY <1>1, <1>3 DEF Entries, f
<1>10. Entries[r] = e /\ r \in DOMAIN Entries
  BY <1>1 DEF Entries, e
<1>11. Entries' = [Entries EXCEPT ![r].open = f.open, ![r].cost = f.cost, ![r].paid = f.paid]
  BY <1>8, <1>9, <1>10
<1>12. \E open \in BOOLEAN, cost \in {"zero", "usage"}, paid \in BOOLEAN :
         /\ ~open \/ paid
         /\ open => cost = "zero"
         /\ Entries' = [Entries EXCEPT ![r].open = open, ![r].cost = cost, ![r].paid = paid]
  BY <1>6, <1>7, <1>11
<1>13. Ledger!WriteAsSeen(r)
  BY <1>12 DEF Ledger!WriteAsSeen, Entries, EntryOf
<1>14. QED
  BY <1>1, <1>5, <1>13

LEMMA OverlapStep ==
  ASSUME SeenInv, [Next]_vars
  PROVE  CopiesKeepParties' /\ [Ledger!OverlapNext]_Entries
<1>1. ASSUME NEW t \in Tasks, InsertRental(t) PROVE CopiesKeepParties' /\ Ledger!OverlapNext
  BY <1>1, InsertedRow DEF Ledger!OverlapNext
<1>2. ASSUME NEW t \in Tasks, SaveRental(t) PROVE CopiesKeepParties' /\ Ledger!OverlapNext
  <2>1. /\ CopiesKeepParties'
        /\ \E r \in DOMAIN rentals : Ledger!WriteAsSeen(r)
    BY <1>2, SavedRow
  <2>2. QED
    BY <2>1 DEF Ledger!OverlapNext, Entries
<1>3. ASSUME \A t \in Tasks : ~InsertRental(t) /\ ~SaveRental(t)
      PROVE  CopiesKeepParties' /\ UNCHANGED rentals
  <2>1. UNCHANGED rentals
    BY <1>3, WhoWritesRentals
  <2>2. CASE \E t \in Tasks : Request(t)
    BY <2>1, <2>2, RequestKeepsParties
  <2>3. CASE \E t \in Tasks : LoadActiveRental(t)
    BY <2>1, <2>3, LoadKeepsParties
  <2>4. CASE ~ \E t \in Tasks : Request(t) \/ LoadActiveRental(t)
    <3>0. RentalInv
      BY DEF SeenInv
    <3>1. NoNewCopy
      <4>1. ASSUME NEW t \in Tasks, Step(t) PROVE NoNewCopy
        BY <1>3, <2>4, <3>0, <4>1, QuietCalls DEF Step
      <4>2. ASSUME NEW t \in Tasks, NEW s \in Sockets, Event(t, s) \/ HandleDisconnect(t, s)
            PROVE  NoNewCopy
        BY <3>0, <4>2, QuietEvents
      <4>3. ASSUME (\E v \in Vms : AgentNext(v)) \/ UNCHANGED vars PROVE NoNewCopy
        BY <4>3 DEF AgentNext, vars, NoNewCopy
      <4>4. CASE Restart
        BY <4>4 DEF Restart, NoNewCopy, Idle
      <4>5. QED
        BY <2>4, <4>1, <4>2, <4>3, <4>4 DEF Next
    <3>2. QED
      BY <2>1, <3>1, CopiesKept DEF SameParties
  <2>5. QED
    BY <2>2, <2>3, <2>4
<1>4. QED
  BY <1>1, <1>2, <1>3 DEF Entries

\* With any number of handlers, whatever they hold and however late they save it, what is
\* written is one entry at a time, as a handler saw it: no rental is lost or moves to
\* another VM or receiver, one that is open costs nothing, and a write ends or pays it.
THEOREM OverlapKeepsEntries == Spec => Ledger!OverlapSpec
<1>1. Init => SeenInv /\ Ledger!Init
  BY RentalInvInit DEF Init, Ledger!Init, SeenInv, CopiesKeepParties, Idle
<1>2. SeenInv /\ [Next]_vars => SeenInv' /\ [Ledger!OverlapNext]_Entries
  BY RentalInvStep, OverlapStep DEF SeenInv
<1>3. Spec => Ledger!Init /\ [][Ledger!OverlapNext]_Entries
  BY <1>1, <1>2, PTL DEF Spec
<1>4. QED
  BY <1>3, PTL DEF Ledger!OverlapSpec, Entries, EntryOf
=============================================================================
