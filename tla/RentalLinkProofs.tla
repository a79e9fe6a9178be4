-------------------------- MODULE RentalLinkProofs --------------------------
(***************************************************************************)
(* Proofs about RentalBackend, for every set of VMs, users and tasks and   *)
(* every bound: the connector gets no order on a socket before it has been *)
(* acknowledged there, and a machine stays linked to its VM.               *)
(***************************************************************************)
EXTENDS RentalProofs

-----------------------------------------------------------------------------
(* Orders follow the acknowledgment: the invariant.                        *)

Ack == "connection_acknowledged"

\* The socket a connector is on is the one open socket of its machine.
OpenIsCurrent ==
  \A v \in Vms, n \in 1 .. MaxSessions :
    line[<<v, n>>] = "open" <=> agent[v].session = n

\* Nothing is on its way to a connector on a socket that is not open.
OnlyOpenCarriesOrders == \A s \in Sockets : line[s] # "open" => down[s] = <<>>

\* A socket that was never opened is neither registered nor being registered.
UnusedIsUnknown ==
  \A s \in Sockets : line[s] = "unused" =>
    ~Registered(s) /\ \A t \in Tasks : tasks[t].socket # s

\* What an unacknowledged connector is going to read first, if anything, is
\* the acknowledgment; once its socket is registered it is on its way.
AckComesFirst ==
  \A s \in Sockets : line[s] = "open" /\ ~agent[Owner(s)].registered =>
    /\ down[s] # <<>> => Head(down[s]).type = Ack
    /\ Registered(s) => down[s] # <<>>

AckInv == OpenIsCurrent /\ OnlyOpenCarriesOrders /\ UnusedIsUnknown /\ AckComesFirst

LEMMA AckInvInit == Init => AckInv
<1> SUFFICES ASSUME Init PROVE AckInv
  OBVIOUS
<1> USE DEF Init, AgentInit
<1>1. OpenIsCurrent
  BY RecordsAssumption DEF OpenIsCurrent, Sockets
<1>2. OnlyOpenCarriesOrders /\ AckComesFirst
  BY DEF OnlyOpenCarriesOrders, AckComesFirst
<1>3. UnusedIsUnknown
  BY RecordsAssumption DEF UnusedIsUnknown, Registered, Idle
<1>4. QED
  BY <1>1, <1>2, <1>3 DEF AckInv

\* The acknowledgment before the orders is what the property asks for.
LEMMA AckInvSuffices == AgentTypeOK /\ AckInv => OrdersFollowAck
<1> SUFFICES ASSUME AgentTypeOK, AckInv, NEW v \in Vms,
                    Receives(v, "provision_vm") \/ Receives(v, "destroy_vm")
             PROVE  agent[v].registered
  BY DEF OrdersFollowAck
<1>1. SocketOf(v) \in Sockets /\ agent[v].session \in 1 .. MaxSessions
  BY RecordsAssumption, SocketType DEF Receives, Online, AgentTypeOK, AgentState
<1>2. line[SocketOf(v)] = "open"
  BY <1>1 DEF AckInv, OpenIsCurrent, SocketOf
<1>3. Owner(SocketOf(v)) = v
  BY DEF Owner, SocketOf
<1>4. QED
  BY <1>1, <1>2, <1>3 DEF AckInv, AckComesFirst, Receives, Ack, AgentTypeOK, AgentState

-----------------------------------------------------------------------------
(* Steps of the handlers.                                                  *)

\* No handler gets a socket that was never opened.
SocketsKnown ==
  \A t \in Tasks : \/ tasks'[t].socket \in {tasks[t].socket, None}
                   \/ /\ tasks'[t].socket \in Sockets
                      /\ line[tasks'[t].socket] # "unused"

NoneRegistered == \A s \in Sockets : Registered(s)' => Registered(s)

LEMMA QuietAck ==
  ASSUME AckInv, UNCHANGED <<agent, line, down>>, SocketsKnown, NoneRegistered
  PROVE  AckInv'
<1>1. OpenIsCurrent' /\ OnlyOpenCarriesOrders'
  BY DEF AckInv, OpenIsCurrent, OnlyOpenCarriesOrders
<1>2. UnusedIsUnknown'
  BY RecordsAssumption DEF AckInv, UnusedIsUnknown, SocketsKnown, NoneRegistered
<1>3. AckComesFirst'
  BY DEF AckInv, AckComesFirst, NoneRegistered
<1>4. QED
  BY <1>1, <1>2, <1>3 DEF AckInv

LEMMA SameRegistry == UNCHANGED clients => NoneRegistered
BY DEF NoneRegistered, Registered

LEMMA ContinueKeepsSocket ==
  ASSUME tasks \in [Tasks -> Task], NEW t \in Tasks, NEW rest, ContinueWith(t, rest)
  PROVE  SocketsKnown
<1>1. Idle.socket = None
  BY DEF Idle
<1>2. [tasks[t] EXCEPT !.todo = rest, !.vmRow = None, !.computerRow = None,
                       !.rentalRow = None].socket = tasks[t].socket
  BY DEF Task
<1>3. QED
  BY <1>1, <1>2 DEF ContinueWith, SocketsKnown

LEMMA RequestAck ==
  ASSUME TypeOK, AckInv, NEW t \in Tasks, Request(t)
  PROVE  AckInv'
<1>0. tasks \in [Tasks -> Task]
  BY DEF TypeOK
<1>1. /\ UNCHANGED <<clients, agent, line, down>>
      /\ \/ \E v, calls : Start(t, Handler(v, calls))
         \/ \E v, calls, x : Start(t, [Handler(v, calls) EXCEPT !.rentalRow = x])
  BY DEF Request, CreateRental, EndRental, ProcessPayment, PatchVmStatus, agentVars
<1>2. SocketsKnown
  <2>1. ASSUME NEW v, NEW calls, Start(t, Handler(v, calls)) PROVE SocketsKnown
    BY <1>0, <2>1 DEF Start, SocketsKnown, Handler, Idle
  <2>2. ASSUME NEW v, NEW calls, NEW x,
               Start(t, [Handler(v, calls) EXCEPT !.rentalRow = x])
        PROVE  SocketsKnown
    BY <1>0, <2>2 DEF Start, SocketsKnown, Handler, Idle
  <2>3. QED
    BY <1>1, <2>1, <2>2
<1>3. QED
  BY <1>1, <1>2, SameRegistry, QuietAck

LEMMA EventAck ==
  ASSUME TypeOK, AckInv, NEW t \in Tasks, NEW s \in Sockets, Event(t, s)
  PROVE  AckInv'
<1>0. tasks \in [Tasks -> Task] /\ line[s] # "unused"
  BY DEF TypeOK, Event, HandleClientConnected, HandleVMProvisioningStarted,
     HandleVMProvisioned, HandleVMProvisioningFailed, HandleVMDestroyed, HandleHeartbeat,
     Delivers
<1>1. /\ UNCHANGED <<clients, agent, line, down>>
      /\ \/ UNCHANGED tasks
         \/ \E v, calls : Start(t, Handler(v, calls))
         \/ \E v, calls : Start(t, [Handler(v, calls) EXCEPT !.socket = s])
         \/ \E v, calls, x : Start(t, [Handler(v, calls) EXCEPT !.computer = x])
  BY DEF Event, HandleClientConnected, HandleVMProvisioningStarted, HandleVMProvisioned,
     HandleVMProvisioningFailed, HandleVMDestroyed, HandleHeartbeat
<1>2. CASE UNCHANGED tasks
  <2>1. SocketsKnown
    BY <1>2 DEF SocketsKnown
  <2>2. QED
    BY <1>1, <2>1, SameRegistry, QuietAck
<1>3. CASE ~ UNCHANGED tasks
  <2>1. SocketsKnown
    <3>1. ASSUME NEW v, NEW calls, Start(t, Handler(v, calls)) PROVE SocketsKnown
      BY <1>0, <3>1 DEF Start, SocketsKnown, Handler, Idle
    <3>2. ASSUME NEW v, NEW calls, Start(t, [Handler(v, calls) EXCEPT !.socket = s])
          PROVE  SocketsKnown
      BY <1>0, <3>2 DEF Start, SocketsKnown, Handler, Idle
    <3>3. ASSUME NEW v, NEW calls, NEW x,
                 Start(t, [Handler(v, calls) EXCEPT !.computer = x])
          PROVE  SocketsKnown
      BY <1>0, <3>3 DEF Start, SocketsKnown, Handler, Idle
    <3>4. QED
      BY <1>1, <1>3, <3>1, <3>2, <3>3
  <2>2. QED
    BY <1>1, <2>1, SameRegistry, QuietAck
<1>4. QED
  BY <1>2, <1>3

LEMMA DisconnectAck ==
  ASSUME TypeOK, AckInv, NEW t \in Tasks, NEW s \in Sockets, HandleDisconnect(t, s)
  PROVE  AckInv'
<1>1. /\ tasks \in [Tasks -> Task] /\ line \in [Sockets -> LineState]
      /\ line[s] = "lost" /\ line' = [line EXCEPT ![s] = "closed"]
      /\ UNCHANGED <<clients, agent, down>>
  BY DEF TypeOK, AgentTypeOK, HandleDisconnect
<1>2. OpenIsCurrent' /\ OnlyOpenCarriesOrders' /\ AckComesFirst'
  BY <1>1 DEF AckInv, OpenIsCurrent, OnlyOpenCarriesOrders, AckComesFirst, Registered
<1>3. SocketsKnown
  <2>1. CASE UNCHANGED tasks
    BY <2>1 DEF SocketsKnown
  <2>2. CASE ~ UNCHANGED tasks
    <3>1. Start(t, [Handler(Owner(s), Disconnection) EXCEPT !.socket = s])
      BY <2>2 DEF HandleDisconnect
    <3>2. QED
      BY <1>1, <3>1 DEF Start, SocketsKnown, Handler, Idle
  <2>3. QED
    BY <2>1, <2>2
<1>4. UnusedIsUnknown'
  BY <1>1, <1>3, RecordsAssumption DEF AckInv, UnusedIsUnknown, SocketsKnown, Registered
<1>5. QED
  BY <1>2, <1>4 DEF AckInv

\* A list without its i-th element has the other elements and no more.
LEMMA WithoutOne ==
  ASSUME NEW S, NEW q \in Seq(S), NEW i \in 1 .. Len(q)
  PROVE  LET rest == SubSeq(q, 1, i - 1) \o SubSeq(q, i + 1, Len(q))
         IN  /\ \A j \in DOMAIN rest : \E k \in DOMAIN q : rest[j] = q[k]
             /\ \A k \in DOMAIN q : k # i => \E j \in DOMAIN rest : rest[j] = q[k]
<1> DEFINE before == SubSeq(q, 1, i - 1)
           after == SubSeq(q, i + 1, Len(q))
           n == Len(before)
           m == Len(after)
<1>1. Len(q) \in Nat /\ DOMAIN q = 1 .. Len(q)
  BY LenProperties
<1>2. /\ before \in Seq(S) /\ n = i - 1
      /\ \A k \in 1 .. n : before[k] = q[k]
  BY <1>1
<1>3. /\ after \in Seq(S) /\ m = Len(q) - i
      /\ \A k \in 1 .. m : after[k] = q[i + k]
  <2>1. \A k \in i + 1 .. Len(q) : q[k] \in S
    BY <1>1, ElementOfSeq
  <2>2. /\ after \in Seq(S) /\ m = IF i + 1 <= Len(q) THEN Len(q) - (i + 1) + 1 ELSE 0
        /\ \A k \in 1 .. Len(q) - (i + 1) + 1 : after[k] = q[i + 1 + k - 1]
    BY <1>1, <2>1, SubSeqProperties
  <2> HIDE DEF after
  <2>3. m = Len(q) - i
    <3>1. \A l, x \in Int : (x \in 1 .. l) =>
            (IF x + 1 <= l THEN l - (x + 1) + 1 ELSE 0) = l - x
      OBVIOUS
    <3>2. m = IF i + 1 <= Len(q) THEN Len(q) - (i + 1) + 1 ELSE 0
      BY <2>2
    <3>3. Len(q) \in Int /\ i \in Int
      BY <1>1
    <3>4. QED
      BY <3>1, <3>2, <3>3
  <2>4. ASSUME NEW k \in 1 .. m PROVE after[k] = q[i + k]
    <3>1. i + 1 + k - 1 = i + k /\ k \in 1 .. Len(q) - (i + 1) + 1
      BY <1>1, <2>3
    <3>2. QED
      BY <2>2, <3>1
  <2>5. QED
    BY <2>2, <2>3, <2>4
<1> HIDE DEF before, after
<1>4. /\ DOMAIN (before \o after) = 1 .. n + m
      /\ \A k \in 1 .. n + m : (before \o after)[k] = IF k <= n THEN before[k] ELSE after[k - n]
  <2>1. /\ before \o after \in Seq(S) /\ Len(before \o after) = n + m
        /\ \A k \in 1 .. n + m : (before \o after)[k] = IF k <= n THEN before[k] ELSE after[k - n]
    BY <1>2, <1>3, ConcatProperties
  <2>2. QED
    BY <2>1, LenProperties
<1>5. n \in Int /\ m \in Int /\ i \in Int /\ Len(q) \in Int
  BY <1>1, <1>2, <1>3
<1> HIDE DEF n, m
<1>6. ASSUME NEW j \in 1 .. n + m
      PROVE  \E k \in 1 .. Len(q) : (before \o after)[j] = q[k]
  <2>1. CASE j <= n
    <3>1. j \in 1 .. n /\ j \in 1 .. Len(q)
      BY <1>2, <1>5, <2>1
    <3>2. (before \o after)[j] = q[j]
      BY <1>2, <1>4, <2>1, <3>1
    <3>3. QED
      BY <3>1, <3>2
  <2>2. CASE ~(j <= n)
    <3>1. j - n \in 1 .. m /\ i + (j - n) \in 1 .. Len(q)
      BY <1>2, <1>3, <1>5, <2>2
    <3>2. (before \o after)[j] = q[i + (j - n)]
      BY <1>3, <1>4, <2>2, <3>1
    <3>3. QED
      BY <3>1, <3>2
  <2>3. QED
    BY <2>1, <2>2
<1>7. ASSUME NEW k \in 1 .. Len(q), k # i
      PROVE  \E j \in 1 .. n + m : (before \o after)[j] = q[k]
  <2>1. CASE k < i
    <3>1. k \in 1 .. n + m /\ k <= n /\ k \in 1 .. n
      BY <1>2, <1>3, <1>5, <1>7, <2>1
    <3>2. (before \o after)[k] = q[k]
      BY <1>2, <1>4, <3>1
    <3>3. QED
      BY <3>1, <3>2
  <2>2. CASE k > i
    <3>1. /\ k - 1 \in 1 .. n + m /\ ~(k - 1 <= n)
          /\ (k - 1) - n \in 1 .. m /\ i + ((k - 1) - n) = k
      BY <1>2, <1>3, <1>5, <1>7, <2>2
    <3>2. (before \o after)[k - 1] = q[k]
      BY <1>3, <1>4, <3>1
    <3>3. QED
      BY <3>1, <3>2
  <2>3. k < i \/ k > i
    <3>1. k \in Int /\ i \in Int /\ k # i
      BY <1>5, <1>7
    <3>2. QED
      BY <3>1
  <2>4. QED
    BY <2>1, <2>2, <2>3
<1>8. QED
  BY <1>1, <1>4, <1>6, <1>7 DEF before, after

\* The calls that neither write to a socket nor register one.
LEMMA QuietCallsAck ==
  ASSUME TypeOK, AckInv, NEW t \in Tasks,
         \/ LoadVm(t) \/ SaveVm(t) \/ SetPhysicalComputer(t)
         \/ LoadComputer(t) \/ SaveComputer(t) \/ RegisterKnown(t) \/ RegisterNew(t)
         \/ SetConnectedFalse(t) \/ SetCurrentVm(t)
         \/ InsertRental(t) \/ LoadActiveRental(t) \/ NoActiveRental(t) \/ SaveRental(t)
         \/ Forget(t) \/ OfflineIfBusy(t) \/ ReconcileVm(t) \/ ReconcileRental(t)
  PROVE  AckInv'
<1> USE DEF agentVars
<1>0. tasks \in [Tasks -> Task]
  BY DEF TypeOK
<1>1. CASE LoadVm(t) \/ LoadComputer(t) \/ LoadActiveRental(t)
  <2>1. \/ \E x : tasks' = [tasks EXCEPT ![t].vmRow = x]
        \/ \E x : tasks' = [tasks EXCEPT ![t].computerRow = x]
        \/ \E x : tasks' = [tasks EXCEPT ![t].rentalRow = x]
    BY <1>1 DEF LoadVm, LoadComputer, LoadActiveRental
  <2>2. \A u \in Tasks : tasks'[u].socket = tasks[u].socket
    <3>1. CASE \E x : tasks' = [tasks EXCEPT ![t].vmRow = x]
      BY <1>0, <3>1 DEF Task
    <3>2. CASE \E x : tasks' = [tasks EXCEPT ![t].computerRow = x]
      BY <1>0, <3>2 DEF Task
    <3>3. CASE \E x : tasks' = [tasks EXCEPT ![t].rentalRow = x]
      BY <1>0, <3>3 DEF Task
    <3>4. QED
      BY <2>1, <3>1, <3>2, <3>3
  <2>3. SocketsKnown
    BY <2>2 DEF SocketsKnown
  <2>4. QED
    BY <1>1, <2>3, SameRegistry, QuietAck DEF LoadVm, LoadComputer, LoadActiveRental
<1>2. CASE \/ SaveVm(t) \/ SetPhysicalComputer(t) \/ SaveComputer(t)
           \/ RegisterKnown(t) \/ RegisterNew(t)
           \/ SetConnectedFalse(t) \/ SetCurrentVm(t)
           \/ InsertRental(t) \/ NoActiveRental(t) \/ SaveRental(t)
           \/ OfflineIfBusy(t) \/ ReconcileVm(t) \/ ReconcileRental(t)
  <2>1. \E rest : ContinueWith(t, rest)
    BY <1>2 DEF SaveVm, SetPhysicalComputer, SaveComputer, RegisterKnown, RegisterNew,
       SetConnectedFalse, SetCurrentVm, InsertRental, NoActiveRental, SaveRental,
       OfflineIfBusy, ReconcileVm, ReconcileRental, Return
  <2>2. UNCHANGED <<clients, agent, line, down>>
    BY <1>2 DEF SaveVm, SetPhysicalComputer, SaveComputer, RegisterKnown, RegisterNew,
       SetConnectedFalse, SetCurrentVm, InsertRental, NoActiveRental, SaveRental,
       OfflineIfBusy, ReconcileVm, ReconcileRental
  <2>3. SocketsKnown
    BY <1>0, <2>1, ContinueKeepsSocket
  <2>4. QED
    BY <2>2, <2>3, SameRegistry, QuietAck
<1>3. CASE Forget(t)
  <2>1. PICK i \in DOMAIN clients :
          clients' = SubSeq(clients, 1, i - 1) \o SubSeq(clients, i + 1, Len(clients))
    BY <1>3 DEF Forget
  <2>2. clients \in Seq(Sockets)
    BY DEF TypeOK
  <2>3. i \in 1 .. Len(clients)
    BY <2>1, <2>2, LenProperties
  <2>4. \A j \in DOMAIN clients' : \E k \in DOMAIN clients : clients'[j] = clients[k]
    BY <2>1, <2>2, <2>3, WithoutOne
  <2>5. NoneRegistered
    BY <2>4 DEF NoneRegistered, Registered
  <2>6. SocketsKnown
    BY <1>0, <1>3, ContinueKeepsSocket DEF Forget, Return
  <2>7. QED
    BY <1>3, <2>5, <2>6, QuietAck DEF Forget
<1>4. QED
  BY <1>1, <1>2, <1>3

LEMMA AppendKeepsHead ==
  ASSUME NEW S, NEW q \in Seq(S), NEW m \in S
  PROVE  /\ Append(q, m) # <<>>
         /\ Head(Append(q, m)) = IF q = <<>> THEN m ELSE Head(q)
<1>1. /\ Append(q, m) \in Seq(S) /\ Append(q, m) # <<>>
      /\ Len(Append(q, m)) = Len(q) + 1 /\ Append(q, m)[Len(q) + 1] = m
      /\ \A i \in 1 .. Len(q) : Append(q, m)[i] = q[i]
  BY AppendProperties
<1>2. CASE q = <<>>
  BY <1>1, <1>2, HeadTailProperties
<1>3. CASE q # <<>>
  <2>1. 1 \in 1 .. Len(q)
    BY <1>3, EmptySeq, LenProperties
  <2>2. QED
    BY <1>1, <1>3, <2>1, HeadTailProperties
<1>4. QED
  BY <1>2, <1>3

\* An order is written behind what is on its way on the socket of an entry.
LEMMA OrderAck ==
  ASSUME TypeOK, AckInv, NEW t \in Tasks, SendProvisionVM(t) \/ SendDestroyVM(t)
  PROVE  AckInv'
<1>0. tasks \in [Tasks -> Task] /\ AgentTypeOK /\ tasks[t].vm \in Vms \cup {None}
  BY DEF TypeOK, Task
<1>1. /\ UNCHANGED <<clients, agent, line>>
      /\ \E rest : ContinueWith(t, rest)
      /\ \/ UNCHANGED down
         \/ \E s \in Sockets, type \in DownType :
              Registered(s) /\ Emit(s, Message(type, tasks[t].vm))
  BY DEF SendProvisionVM, SendDestroyVM, Return, FirstSocket, Registered, DownType
<1>2. SocketsKnown /\ NoneRegistered
  BY <1>0, <1>1, ContinueKeepsSocket, SameRegistry
<1>3. CASE UNCHANGED down
  BY <1>1, <1>2, <1>3, QuietAck
<1>4. ASSUME NEW s \in Sockets, NEW m \in DownMessage, Registered(s), Emit(s, m),
             line[s] = "open"
      PROVE  AckInv'
  <2>1. down' = [down EXCEPT ![s] = Append(@, m)]
    BY <1>4 DEF Emit
  <2>2. down[s] \in Seq(DownMessage)
    BY <1>0 DEF AgentTypeOK
  <2>3. down'[s] # <<>> /\ (down[s] # <<>> => Head(down'[s]) = Head(down[s]))
    BY <1>0, <2>1, <2>2, AppendKeepsHead DEF AgentTypeOK
  <2>4. AckComesFirst'
    BY <1>0, <1>1, <1>2, <1>4, <2>1, <2>3
    DEF AckInv, AckComesFirst, NoneRegistered, AgentTypeOK
  <2>5. OpenIsCurrent' /\ OnlyOpenCarriesOrders'
    BY <1>0, <1>1, <1>4, <2>1 DEF AckInv, OpenIsCurrent, OnlyOpenCarriesOrders, AgentTypeOK
  <2>6. UnusedIsUnknown'
    BY <1>1, <1>2, RecordsAssumption
    DEF AckInv, UnusedIsUnknown, SocketsKnown, NoneRegistered
  <2>7. QED
    BY <2>4, <2>5, <2>6 DEF AckInv
<1>5. CASE ~ UNCHANGED down
  <2>1. PICK s \in Sockets, type \in DownType :
          Registered(s) /\ Emit(s, Message(type, tasks[t].vm))
    BY <1>1, <1>5
  <2>2. line[s] = "open"
    BY <1>5, <2>1 DEF Emit
  <2>3. QED
    BY <1>0, <1>4, <2>1, <2>2, DownTypes
<1>6. QED
  BY <1>3, <1>5

\* The entry and the acknowledgment come in one step.
LEMMA ConnectAck ==
  ASSUME TypeOK, AckInv, NEW t \in Tasks, Connect(t)
  PROVE  AckInv'
<1>1. PICK s \in Sockets :
        /\ tasks[t].socket = s
        /\ clients' = Append(clients, s)
        /\ Emit(s, Message(Ack, tasks[t].vm))
  BY DEF Connect, Ack
<1>2. /\ tasks \in [Tasks -> Task] /\ AgentTypeOK /\ clients \in Seq(Sockets)
      /\ UNCHANGED <<agent, line>>
      /\ line[s] # "unused"
  BY <1>1 DEF TypeOK, Connect, AckInv, UnusedIsUnknown
<1>3. SocketsKnown
  BY <1>2, ContinueKeepsSocket DEF Connect, Return
<1>4. \A r \in Sockets : Registered(r)' => Registered(r) \/ r = s
  BY <1>1, <1>2 DEF Registered
<1>5. UnusedIsUnknown'
  BY <1>2, <1>3, <1>4, RecordsAssumption DEF AckInv, UnusedIsUnknown, SocketsKnown
<1>6. OpenIsCurrent'
  BY <1>2 DEF AckInv, OpenIsCurrent
<1>7. CASE line[s] # "open"
  <2>1. UNCHANGED down
    BY <1>1, <1>7 DEF Emit
  <2>2. QED
    BY <1>2, <1>4, <1>5, <1>6, <1>7, <2>1 DEF AckInv, OnlyOpenCarriesOrders, AckComesFirst
<1>8. CASE line[s] = "open"
  <2> DEFINE m == Message(Ack, tasks[t].vm)
  <2>1. down' = [down EXCEPT ![s] = Append(@, m)] /\ m.type = Ack
    BY <1>1, <1>8 DEF Emit, Message
  <2>2. down[s] \in Seq(DownMessage) /\ m \in DownMessage
    BY <1>2, DownTypes DEF AgentTypeOK, Ack, DownType, Task
  <2> HIDE DEF m
  <2>3. /\ down'[s] # <<>>
        /\ down[s] # <<>> => Head(down'[s]) = Head(down[s])
        /\ down[s] = <<>> => Head(down'[s]) = m
    BY ZenonT(30), <1>2, <2>1, <2>2, AppendKeepsHead DEF AgentTypeOK
  <2>4. AckComesFirst'
    BY <1>2, <1>4, <2>1, <2>3 DEF AckInv, AckComesFirst, AgentTypeOK
  <2>5. OnlyOpenCarriesOrders'
    BY <1>2, <1>8, <2>1 DEF AckInv, OnlyOpenCarriesOrders, AgentTypeOK
  <2>6. QED
    BY <1>5, <1>6, <2>4, <2>5 DEF AckInv
<1>9. QED
  BY <1>7, <1>8

-----------------------------------------------------------------------------
(* Steps of the connectors, and the restart.                               *)

LEMMA SocketNames ==
  /\ \A s \in Sockets : /\ Owner(s) \in Vms /\ s[2] \in 1 .. MaxSessions
                        /\ s = <<Owner(s), s[2]>>
  /\ \A v \in Vms, n \in 1 .. MaxSessions : <<v, n>> \in Sockets /\ Owner(<<v, n>>) = v
BY DEF Owner, Sockets

\* What the three parts about sockets need to know of a step of a connector.
LEMMA SameHandlers ==
  ASSUME AckInv, UNCHANGED <<clients, tasks>>,
         \A s \in Sockets : line'[s] = "unused" => line[s] = "unused"
  PROVE  UnusedIsUnknown' /\ \A s \in Sockets : Registered(s)' <=> Registered(s)
BY DEF AckInv, UnusedIsUnknown, Registered

LEMMA ConnectorConnects ==
  ASSUME TypeOK, AckInv, NEW v \in Vms, AgentConnect(v), UNCHANGED <<clients, tasks>>
  PROVE  AckInv'
<1>0. AgentTypeOK
  BY DEF TypeOK
<1>1. PICK n \in 1 .. MaxSessions :
        /\ ~Online(v) /\ line[<<v, n>>] = "unused"
        /\ line' = [line EXCEPT ![<<v, n>>] = "open"]
        /\ agent' = [agent EXCEPT ![v].session = n, ![v].registered = FALSE]
        /\ UNCHANGED down
  BY DEF AgentConnect
<1> DEFINE new == <<v, n>>
<1>2. new \in Sockets /\ down[new] = <<>> /\ ~Registered(new)
  BY <1>1, SocketNames DEF AckInv, OnlyOpenCarriesOrders, UnusedIsUnknown
<1>3. UnusedIsUnknown' /\ \A s \in Sockets : Registered(s)' <=> Registered(s)
  BY <1>0, <1>1, SameHandlers DEF AgentTypeOK
<1>4. OpenIsCurrent'
  <2> SUFFICES ASSUME NEW w \in Vms, NEW k \in 1 .. MaxSessions
               PROVE  line'[<<w, k>>] = "open" <=> agent'[w].session = k
    BY DEF OpenIsCurrent
  <2>1. <<w, k>> \in Sockets /\ (line[<<w, k>>] = "open" <=> agent[w].session = k)
    BY SocketNames DEF AckInv, OpenIsCurrent
  <2>2. CASE w # v
    BY <1>0, <1>1, <2>1, <2>2 DEF AgentTypeOK
  <2>3. CASE w = v
    <3>1. agent'[v].session = n /\ agent[v].session = 0
      BY <1>0, <1>1 DEF AgentTypeOK, AgentState, Online
    <3>2. line'[<<w, k>>] = IF k = n THEN "open" ELSE line[<<w, k>>]
      BY <1>0, <1>1, <2>1, <2>3 DEF AgentTypeOK
    <3>3. k # 0
      BY RecordsAssumption
    <3>4. QED
      BY <2>1, <2>3, <3>1, <3>2, <3>3
  <2>4. QED
    BY <2>2, <2>3
<1>5. OnlyOpenCarriesOrders'
  BY <1>0, <1>1, <1>2 DEF AckInv, OnlyOpenCarriesOrders, AgentTypeOK
<1>6. AckComesFirst'
  <2> SUFFICES ASSUME NEW s \in Sockets, line'[s] = "open", ~agent'[Owner(s)].registered
               PROVE  /\ down[s] # <<>> => Head(down[s]).type = Ack
                      /\ Registered(s) => down[s] # <<>>
    BY <1>1, <1>3 DEF AckComesFirst
  <2>1. CASE s = new
    BY <1>2, <2>1
  <2>2. CASE s # new
    <3>1. line[s] = "open"
      BY <1>0, <1>1, <2>2 DEF AgentTypeOK
    <3>2. Owner(s) # v
      BY <1>1, <3>1, SocketNames DEF AckInv, OpenIsCurrent, Online
    <3>3. ~agent[Owner(s)].registered
      BY <1>0, <1>1, <3>2, SocketNames DEF AgentTypeOK
    <3>4. QED
      BY <3>1, <3>3 DEF AckInv, AckComesFirst
  <2>3. QED
    BY <2>1, <2>2
<1>7. QED
  BY <1>3, <1>4, <1>5, <1>6 DEF AckInv

LEMMA ConnectorLoses ==
  ASSUME TypeOK, AckInv, NEW v \in Vms, LoseConnection(v), UNCHANGED <<clients, tasks>>
  PROVE  AckInv'
<1> DEFINE old == SocketOf(v)
<1>0. AgentTypeOK /\ old \in Sockets /\ Owner(old) = v
  BY SocketType DEF TypeOK, LoseConnection, SocketOf, Owner
<1>1. /\ line' = [line EXCEPT ![old] = "lost"]
      /\ down' = [down EXCEPT ![old] = <<>>]
      /\ agent' = [agent EXCEPT ![v].session = 0, ![v].registered = FALSE]
  BY DEF LoseConnection
<1>2. UnusedIsUnknown' /\ \A s \in Sockets : Registered(s)' <=> Registered(s)
  BY <1>0, <1>1, SameHandlers DEF AgentTypeOK
<1>3. OpenIsCurrent'
  <2> SUFFICES ASSUME NEW w \in Vms, NEW k \in 1 .. MaxSessions
               PROVE  line'[<<w, k>>] = "open" <=> agent'[w].session = k
    BY DEF OpenIsCurrent
  <2>1. <<w, k>> \in Sockets /\ (line[<<w, k>>] = "open" <=> agent[w].session = k)
    BY SocketNames DEF AckInv, OpenIsCurrent
  <2>2. k # 0
    BY RecordsAssumption
  <2>3. CASE w # v
    BY <1>0, <1>1, <2>1, <2>3 DEF AgentTypeOK, SocketOf
  <2>4. CASE w = v
    <3>1. agent'[v].session = 0
      BY <1>0, <1>1 DEF AgentTypeOK, AgentState
    <3>2. line'[<<v, k>>] = IF k = agent[v].session THEN "lost" ELSE line[<<v, k>>]
      BY <1>0, <1>1, <2>1, <2>4 DEF AgentTypeOK, SocketOf
    <3>3. QED
      BY <2>1, <2>2, <2>4, <3>1, <3>2
  <2>5. QED
    BY <2>3, <2>4
<1>4. OnlyOpenCarriesOrders'
  BY <1>0, <1>1 DEF AckInv, OnlyOpenCarriesOrders, AgentTypeOK
<1>5. AckComesFirst'
  <2> SUFFICES ASSUME NEW s \in Sockets, line'[s] = "open", ~agent'[Owner(s)].registered
               PROVE  /\ down'[s] # <<>> => Head(down'[s]).type = Ack
                      /\ Registered(s) => down'[s] # <<>>
    BY <1>2 DEF AckComesFirst
  <2>1. s # old /\ line[s] = "open"
    BY <1>0, <1>1 DEF AgentTypeOK
  <2>2. Owner(s) # v
    BY <2>1, SocketNames DEF AckInv, OpenIsCurrent, SocketOf
  <2>3. ~agent[Owner(s)].registered
    BY <1>0, <1>1, <2>2, SocketNames DEF AgentTypeOK
  <2>4. QED
    BY <1>0, <1>1, <2>1, <2>3 DEF AckInv, AckComesFirst, AgentTypeOK
<1>6. QED
  BY <1>2, <1>3, <1>4, <1>5 DEF AckInv

\* The other steps of a connector: it stays on its socket, and what it reads
\* off its queue is the acknowledgment or comes after it.
LEMMA ConnectorReads ==
  ASSUME TypeOK, AckInv, NEW v \in Vms, UNCHANGED <<clients, tasks, line>>,
         AgentStep(v) \/ AgentHeartbeat(v)
  PROVE  AckInv'
<1>0. AgentTypeOK /\ OrdersFollowAck
  BY AckInvSuffices DEF TypeOK
<1>1. /\ \A w \in Vms : agent'[w].session = agent[w].session
      /\ \A w \in Vms : agent[w].registered => agent'[w].registered
  <2>0. agent \in [Vms -> AgentState]
    BY <1>0 DEF AgentTypeOK
  <2>1. CASE AgentAcknowledged(v)
    BY <2>0, <2>1 DEF AgentAcknowledged, AgentState
  <2>2. CASE AgentProvision(v)
    BY <2>0, <2>2 DEF AgentProvision, AgentState
  <2>3. ASSUME NEW result, AgentProvisionDone(v, result)
        PROVE  /\ \A w \in Vms : agent'[w].session = agent[w].session
               /\ \A w \in Vms : agent[w].registered => agent'[w].registered
    BY <2>0, <2>3 DEF AgentProvisionDone, AgentState
  <2>4. CASE AgentDestroy(v)
    BY <2>0, <2>4 DEF AgentDestroy, AgentState
  <2>5. CASE AgentHeartbeat(v)
    BY <2>5 DEF AgentHeartbeat
  <2>6. QED
    BY <2>1, <2>2, <2>3, <2>4, <2>5 DEF AgentStep
<1>2. \/ UNCHANGED down
      \/ /\ Online(v) /\ Consume(v) /\ down[SocketOf(v)] # <<>>
         /\ agent'[v].registered
  <2>1. CASE AgentAcknowledged(v)
    BY <1>0, <2>1 DEF AgentAcknowledged, Receives, AgentTypeOK, AgentState
  <2>2. CASE AgentProvision(v) \/ AgentDestroy(v)
    BY <1>0, <1>1, <2>2 DEF AgentProvision, AgentDestroy, Receives, OrdersFollowAck
  <2>3. CASE ~(AgentAcknowledged(v) \/ AgentProvision(v) \/ AgentDestroy(v))
    BY <2>3 DEF AgentStep, AgentProvisionDone, AgentHeartbeat
  <2>4. QED
    BY <2>1, <2>2, <2>3
<1>3. UnusedIsUnknown' /\ \A s \in Sockets : Registered(s)' <=> Registered(s)
  <2>1. UnusedIsUnknown'
    BY DEF AckInv, UnusedIsUnknown, Registered
  <2>2. QED
    BY <2>1 DEF Registered
<1>4. OpenIsCurrent'
  <2>1. line' = line
    OBVIOUS
  <2>2. ASSUME NEW w \in Vms, NEW n \in 1 .. MaxSessions
        PROVE  line'[<<w, n>>] = "open" <=> agent'[w].session = n
    <3>1. line[<<w, n>>] = "open" <=> agent[w].session = n
      BY DEF AckInv, OpenIsCurrent
    <3>2. QED
      BY <1>1, <2>1, <3>1
  <2>3. QED
    BY <2>2 DEF OpenIsCurrent
<1>5. CASE UNCHANGED down
  BY <1>1, <1>3, <1>4, <1>5, SocketNames
  DEF AckInv, OnlyOpenCarriesOrders, AckComesFirst
<1>6. CASE ~ UNCHANGED down
  <2>1. SocketOf(v) \in Sockets /\ Owner(SocketOf(v)) = v /\ agent'[v].registered
    BY <1>0, <1>2, <1>6, SocketType DEF SocketOf, Owner
  <2>2. /\ down' = [down EXCEPT ![SocketOf(v)] = Tail(@)]
        /\ down[SocketOf(v)] # <<>>
    BY <1>2, <1>6 DEF Consume
  <2>3. line[SocketOf(v)] = "open"
    BY <2>1, <2>2 DEF AckInv, OnlyOpenCarriesOrders
  <2>4. OnlyOpenCarriesOrders'
    BY <1>0, <2>1, <2>2, <2>3 DEF AckInv, OnlyOpenCarriesOrders, AgentTypeOK
  <2>5. AckComesFirst'
    <3> SUFFICES ASSUME NEW s \in Sockets, line[s] = "open", ~agent'[Owner(s)].registered
                 PROVE  /\ down'[s] # <<>> => Head(down'[s]).type = Ack
                        /\ Registered(s) => down'[s] # <<>>
      BY <1>3 DEF AckComesFirst
    <3>1. s # SocketOf(v) /\ ~agent[Owner(s)].registered
      BY <1>1, <2>1, SocketNames
    <3>2. QED
      BY <1>0, <2>1, <2>2, <3>1 DEF AckInv, AckComesFirst, AgentTypeOK
  <2>6. QED
    BY <1>3, <1>4, <2>4, <2>5 DEF AckInv
<1>7. QED
  BY <1>5, <1>6

LEMMA RestartAck ==
  ASSUME TypeOK, AckInv, Restart
  PROVE  AckInv'
<1>1. OpenIsCurrent'
  <2> SUFFICES ASSUME NEW w \in Vms, NEW k \in 1 .. MaxSessions
               PROVE  line'[<<w, k>>] # "open" /\ agent'[w].session # k
    BY DEF OpenIsCurrent
  <2>1. <<w, k>> \in Sockets /\ k # 0
    BY SocketNames, RecordsAssumption
  <2>2. agent'[w].session = 0
    BY DEF Restart, TypeOK, AgentTypeOK, AgentState
  <2>3. QED
    BY <2>1, <2>2 DEF Restart
<1>2. OnlyOpenCarriesOrders' /\ AckComesFirst'
  BY DEF Restart, OnlyOpenCarriesOrders, AckComesFirst
<1>3. UnusedIsUnknown'
  <2>1. \A t \in Tasks : tasks'[t].socket = None
    BY DEF Restart, Idle
  <2>2. \A s \in Sockets : ~Registered(s)'
    <3>1. clients' = <<>>
      BY DEF Restart
    <3>2. QED
      BY <3>1 DEF Registered
  <2>3. QED
    BY <2>1, <2>2, RecordsAssumption DEF UnusedIsUnknown
<1>4. QED
  BY <1>1, <1>2, <1>3 DEF AckInv

LEMMA AckInvStep == TypeOK /\ AckInv /\ [Next]_vars => AckInv'
<1> SUFFICES ASSUME TypeOK, AckInv, [Next]_vars PROVE AckInv'
  OBVIOUS
<1>1. ASSUME NEW t \in Tasks, Request(t) PROVE AckInv'
  BY <1>1, RequestAck
<1>2. ASSUME NEW t \in Tasks, Step(t) PROVE AckInv'
  BY <1>2, QuietCallsAck, OrderAck, ConnectAck DEF Step
<1>3. ASSUME NEW t \in Tasks, NEW s \in Sockets, Event(t, s) PROVE AckInv'
  BY <1>3, EventAck
<1>4. ASSUME NEW t \in Tasks, NEW s \in Sockets, HandleDisconnect(t, s) PROVE AckInv'
  BY <1>4, DisconnectAck
<1>5. ASSUME NEW v \in Vms, AgentNext(v) PROVE AckInv'
  <2>1. CASE AgentConnect(v)
    BY <1>5, <2>1, ConnectorConnects DEF AgentNext
  <2>2. CASE LoseConnection(v)
    BY <1>5, <2>2, ConnectorLoses DEF AgentNext
  <2>3. CASE AgentStep(v) \/ AgentHeartbeat(v)
    <3>1. UNCHANGED line
      BY <2>3 DEF AgentStep, AgentAcknowledged, AgentProvision, AgentProvisionDone,
         AgentDestroy, AgentHeartbeat
    <3>2. QED
      BY <1>5, <2>3, <3>1, ConnectorReads DEF AgentNext
  <2>4. QED
    BY <1>5, <2>1, <2>2, <2>3 DEF AgentNext
<1>6. CASE Restart
  BY <1>6, RestartAck
<1>7. CASE UNCHANGED vars
  BY <1>7 DEF vars, AckInv, OpenIsCurrent, OnlyOpenCarriesOrders, UnusedIsUnknown,
     AckComesFirst, Registered
<1>8. QED
  BY <1>1, <1>2, <1>3, <1>4, <1>5, <1>6, <1>7 DEF Next

\* However handlers interleave, connections fail and the backend restarts, a
\* connector gets no order on a socket before the acknowledgment.
THEOREM AckPrecedesOrders == Spec => []OrdersFollowAck
<1>1. Spec => []AckInv
  BY TypeCorrect, AckInvInit, AckInvStep, PTL DEF Spec
<1>2. TypeOK => AgentTypeOK
  BY DEF TypeOK
<1>3. QED
  BY <1>1, <1>2, TypeCorrect, AckInvSuffices, PTL

-----------------------------------------------------------------------------
(* A machine stays linked to its VM.                                       *)
(*                                                                         *)
(* It does unless a handler saves a copy of the VM that it loaded before   *)
(* the link was made.  Two handlers may: a PATCH the provider sends before *)
(* the machine has connected for the first time, and the handler of a      *)
(* failure reported with no VM, for which the query finds any row.  They   *)
(* are excluded by name; nothing else is.                                  *)

PatchesFindLinked ==
  \A t \in Tasks, u \in Users, v \in Vms, status \in PatchTargets :
    PatchVmStatus(t, u, v, status) => vms[v].linked

NullReportsFindLinked ==
  \A t \in Tasks : tasks[t].todo # <<>> /\ tasks[t].vm = None =>
    \A v \in Vms : vms[v].linked

LinkedVms == {v \in Vms : vms[v].linked}

\* The first registration of a machine: it reads no VM before it links it.
Registering(calls) ==
  \/ Head(calls).op = "setPhysicalComputer"
  \/ /\ Head(calls).op = "register"
     /\ Tail(calls) # <<>> /\ Head(Tail(calls)).op = "setPhysicalComputer"

\* What a handler is about is linked, or the handler is going to link it;
\* what it is going to save was loaded linked.
HandlesLinked(task, linked) ==
  task.todo # <<>> =>
    /\ task.vm = None => linked # {}
    /\ task.vm # None => task.computer = task.vm
    /\ task.vm # None => task.vm \in linked \/ Registering(task.todo)
    /\ task.socket # None => task.vm = Owner(task.socket)
    /\ task.vmRow # None => task.vmRow.row.linked
    /\ task.computerRow # None /\ Head(task.todo).op = "computerStatus"
         => task.computerRow.hostsVm
    /\ task.rentalRow # None => task.rentalRow.row.vmId \in linked

\* Only the first messages of a connector come from one that no VM is linked to.
UpAboutLinked ==
  {m \in UpMessage :
     /\ m.vm # None => m.vm \in LinkedVms
     /\ m.type \notin {"client_connected", "heartbeat"} => LinkedVms # {}}
DownAboutLinked == {m \in DownMessage : m.vm \in LinkedVms}

FreeAreLinked == \A v \in Vms : vms[v].status = "available" => v \in LinkedVms
RentalsOfLinked == rentals \in Seq({row \in RentalRow : row.vmId \in LinkedVms})
ClientsOfLinked == clients \in Seq({s \in Sockets : Owner(s) \in LinkedVms})
ConnectorsOfLinked ==
  \A v \in Vms : /\ agent[v].currentVm # None => agent[v].currentVm \in LinkedVms
                 /\ agent[v].builds > 0 => LinkedVms # {}
UpOfLinked == up \in [Sockets -> Seq(UpAboutLinked)]
DownOfLinked == down \in [Sockets -> Seq(DownAboutLinked)]
HandlersOfLinked == \A t \in Tasks : HandlesLinked(tasks[t], LinkedVms)

LinkInv ==
  /\ FreeAreLinked /\ RentalsOfLinked /\ ClientsOfLinked /\ ConnectorsOfLinked
  /\ UpOfLinked /\ DownOfLinked /\ HandlersOfLinked

LEMMA LinkInvInit == Init => LinkInv
<1> SUFFICES ASSUME Init PROVE LinkInv
  OBVIOUS
<1> USE DEF Init, AgentInit
<1>1. FreeAreLinked /\ ConnectorsOfLinked
  BY DEF FreeAreLinked, ConnectorsOfLinked
<1>2. RentalsOfLinked /\ ClientsOfLinked /\ UpOfLinked /\ DownOfLinked
  BY EmptySeq DEF RentalsOfLinked, ClientsOfLinked, UpOfLinked, DownOfLinked
<1>3. HandlersOfLinked
  BY DEF HandlersOfLinked, HandlesLinked, Idle
<1>4. QED
  BY <1>1, <1>2, <1>3 DEF LinkInv

\* What a step leaves alone stays linked when no link is lost.
LEMMA LinksStay ==
  ASSUME LinkInv, LinkedVms \subseteq LinkedVms'
  PROVE  /\ (\A v \in Vms : vms'[v].status = "available" =>
               vms[v].status = "available" \/ v \in LinkedVms') => FreeAreLinked'
         /\ UNCHANGED rentals => RentalsOfLinked'
         /\ UNCHANGED clients => ClientsOfLinked'
         /\ UNCHANGED agent => ConnectorsOfLinked'
         /\ UNCHANGED up => UpOfLinked'
         /\ UNCHANGED down => DownOfLinked'
<1>1. /\ UpAboutLinked \subseteq UpAboutLinked' /\ DownAboutLinked \subseteq DownAboutLinked'
  BY DEF UpAboutLinked, DownAboutLinked
<1>2. (\A v \in Vms : vms'[v].status = "available" =>
         vms[v].status = "available" \/ v \in LinkedVms') => FreeAreLinked'
  BY DEF LinkInv, FreeAreLinked
<1>3. UNCHANGED rentals => RentalsOfLinked'
  <2>1. {row \in RentalRow : row.vmId \in LinkedVms}
          \subseteq {row \in RentalRow : row.vmId \in LinkedVms'}
    OBVIOUS
  <2>2. QED
    BY <2>1, SeqMonotonic DEF LinkInv, RentalsOfLinked
<1>4. UNCHANGED clients => ClientsOfLinked'
  <2>1. {s \in Sockets : Owner(s) \in LinkedVms}
          \subseteq {s \in Sockets : Owner(s) \in LinkedVms'}
    OBVIOUS
  <2>2. QED
    BY <2>1, SeqMonotonic DEF LinkInv, ClientsOfLinked
<1>5. UNCHANGED agent => ConnectorsOfLinked'
  BY DEF LinkInv, ConnectorsOfLinked
<1>6. UNCHANGED up => UpOfLinked'
  BY <1>1, SeqMonotonic DEF LinkInv, UpOfLinked
<1>7. UNCHANGED down => DownOfLinked'
  BY <1>1, SeqMonotonic DEF LinkInv, DownOfLinked
<1>8. QED
  BY <1>2, <1>3, <1>4, <1>5, <1>6, <1>7

LEMMA HandlesMore ==
  ASSUME NEW task, NEW L, NEW M, L \subseteq M, HandlesLinked(task, L)
  PROVE  HandlesLinked(task, M)
BY DEF HandlesLinked

LEMMA ContinueLinked ==
  ASSUME TypeOK, LinkInv, LinkedVms \subseteq LinkedVms', NEW t \in Tasks, NEW rest,
         ContinueWith(t, rest), tasks[t].todo # <<>>,
         tasks[t].vm # None => tasks[t].vm \in LinkedVms' \/ Registering(rest)
  PROVE  HandlersOfLinked'
<1> DEFINE left == [tasks[t] EXCEPT !.todo = rest, !.vmRow = None,
                                    !.computerRow = None, !.rentalRow = None]
<1>0. tasks \in [Tasks -> Task]
  BY DEF TypeOK
<1>1. HandlesLinked(Idle, LinkedVms')
  BY DEF HandlesLinked, Idle
<1>2. HandlesLinked(left, LinkedVms')
  BY <1>0 DEF LinkInv, HandlersOfLinked, HandlesLinked, Task
<1>3. tasks'[t] \in {Idle, left}
  BY <1>0 DEF ContinueWith
<1> HIDE DEF left
<1>4. HandlesLinked(tasks'[t], LinkedVms')
  BY <1>1, <1>2, <1>3
<1>5. ASSUME NEW u \in Tasks, u # t PROVE HandlesLinked(tasks'[u], LinkedVms')
  <2>1. tasks'[u] = tasks[u]
    BY <1>0, <1>5 DEF ContinueWith
  <2>2. QED
    BY <2>1, HandlesMore DEF LinkInv, HandlersOfLinked
<1>6. QED
  BY <1>4, <1>5 DEF HandlersOfLinked

LEMMA StartLinked ==
  ASSUME TypeOK, LinkInv, LinkedVms \subseteq LinkedVms', NEW t \in Tasks, NEW task,
         Start(t, task), HandlesLinked(task, LinkedVms')
  PROVE  HandlersOfLinked'
<1>0. tasks \in [Tasks -> Task]
  BY DEF TypeOK
<1>1. ASSUME NEW u \in Tasks PROVE HandlesLinked(tasks'[u], LinkedVms')
  <2>1. CASE u = t
    BY <1>0, <2>1 DEF Start
  <2>2. CASE u # t
    <3>1. tasks'[u] = tasks[u]
      BY <1>0, <2>2 DEF Start
    <3>2. QED
      BY <3>1, HandlesMore DEF LinkInv, HandlersOfLinked
  <2>3. QED
    BY <2>1, <2>2
<1>2. QED
  BY <1>1 DEF HandlersOfLinked

\* A handler that is past the link, or never links, is about a linked VM.
LEMMA CallerIsLinked ==
  ASSUME LinkInv, NEW t \in Tasks, NEW op, Calling(t, op),
         op \notin {"register", "setPhysicalComputer"}, tasks[t].vm # None
  PROVE  tasks[t].vm \in LinkedVms
BY DEF LinkInv, HandlersOfLinked, HandlesLinked, Calling, Registering

-----------------------------------------------------------------------------
(* Calls of the services.                                                  *)

LinkStep == LinkInv' /\ LinkedVms \subseteq LinkedVms'

\* A step that changes no row of a VM keeps the links.
LEMMA SameVms ==
  UNCHANGED vms => LinkedVms' = LinkedVms /\ (LinkInv => FreeAreLinked')
BY DEF LinkedVms, LinkInv, FreeAreLinked

\* The calls about the VM and the computer.
LEMMA LoadLinked ==
  ASSUME TypeOK, LinkInv, NullReportsFindLinked, NEW t \in Tasks,
         LoadVm(t) \/ LoadComputer(t)
  PROVE  LinkStep
<1> USE DEF tables, agentVars
<1>0. /\ tasks \in [Tasks -> Task] /\ vms \in [Vms -> VmRow]
      /\ HandlesLinked(tasks[t], LinkedVms)
  BY DEF TypeOK, LinkInv, HandlersOfLinked
<1>1. /\ UNCHANGED <<vms, rentals, clients, agent, line, up, down>>
      /\ tasks[t].todo # <<>>
  BY DEF LoadVm, LoadComputer, Calling
<1>2. HandlesLinked(tasks'[t], LinkedVms)
  <2>1. CASE LoadVm(t)
    <3>1. PICK v \in FoundBy(tasks[t].vm) :
            tasks' = [tasks EXCEPT ![t].vmRow = [key |-> v, row |-> vms[v]]]
      BY <2>1 DEF LoadVm
    <3>2. v \in Vms /\ vms[v].linked
      <4>1. CASE tasks[t].vm = None
        BY <1>1, <3>1, <4>1 DEF NullReportsFindLinked, FoundBy
      <4>2. CASE tasks[t].vm # None
        <5>1. tasks[t].vm \in LinkedVms
          BY <2>1, <4>2, CallerIsLinked DEF LoadVm
        <5>2. QED
          BY <3>1, <4>2, <5>1 DEF FoundBy, LinkedVms
      <4>3. QED
        BY <4>1, <4>2
    <3>3. tasks'[t] = [tasks[t] EXCEPT !.vmRow = [key |-> v, row |-> vms[v]]]
      BY <1>0, <3>1
    <3>4. QED
      BY <1>0, <3>2, <3>3 DEF HandlesLinked, Task
  <2>2. CASE LoadComputer(t)
    <3>1. PICK c \in Vms :
            /\ tasks[t].computer = c
            /\ tasks' = [tasks EXCEPT ![t].computerRow =
                 [key |-> c, row |-> computers[c], hostsVm |-> vms[c].linked]]
      BY <2>2 DEF LoadComputer
    <3>2. Head(tasks[t].todo).op = "computerStatus" => vms[c].linked
      <4>1. CASE tasks[t].vm = None
        BY <1>1, <4>1 DEF NullReportsFindLinked
      <4>2. CASE tasks[t].vm # None
        BY <1>0, <1>1, <3>1, <4>2 DEF HandlesLinked, Registering, LinkedVms
      <4>3. QED
        BY <4>1, <4>2
    <3>3. tasks'[t] = [tasks[t] EXCEPT !.computerRow =
                         [key |-> c, row |-> computers[c], hostsVm |-> vms[c].linked]]
      BY <1>0, <3>1
    <3>4. QED
      BY <1>0, <3>2, <3>3 DEF HandlesLinked, Task
  <2>3. QED
    BY <2>1, <2>2
<1>3. \A u \in Tasks : u # t => tasks'[u] = tasks[u]
  <2>1. CASE LoadVm(t)
    BY <1>0, <2>1 DEF LoadVm
  <2>2. CASE LoadComputer(t)
    BY <1>0, <2>2 DEF LoadComputer
  <2>3. QED
    BY <2>1, <2>2
<1>4. LinkedVms' = LinkedVms /\ FreeAreLinked'
  BY <1>1, SameVms
<1>5. HandlersOfLinked'
  BY <1>2, <1>3, <1>4 DEF HandlersOfLinked, LinkInv
<1>6. QED
  BY <1>1, <1>4, <1>5, LinksStay DEF LinkStep, LinkInv

LEMMA SaveLinked ==
  ASSUME TypeOK, LinkInv, NullReportsFindLinked, NEW t \in Tasks,
         SaveVm(t) \/ SetPhysicalComputer(t) \/ SaveComputer(t)
  PROVE  LinkStep
<1> USE DEF tables, agentVars
<1>0. /\ tasks \in [Tasks -> Task] /\ vms \in [Vms -> VmRow]
      /\ HandlesLinked(tasks[t], LinkedVms)
  BY DEF TypeOK, LinkInv, HandlersOfLinked
<1>1. /\ UNCHANGED <<rentals, clients, agent, line, up, down>>
      /\ tasks[t].todo # <<>> /\ ContinueWith(t, Later(t))
  BY DEF SaveVm, SetPhysicalComputer, SaveComputer, Calling, Return
<1>2. /\ LinkedVms \subseteq LinkedVms'
      /\ \A v \in Vms : vms'[v].status = "available" =>
           vms[v].status = "available" \/ v \in LinkedVms'
      /\ tasks[t].vm # None => tasks[t].vm \in LinkedVms'
  <2>1. CASE SaveVm(t)
    <3> DEFINE found == tasks[t].vmRow
    <3>1. /\ found \in [key : Vms, row : VmRow] /\ found.row.linked
          /\ vms' = [vms EXCEPT ![found.key] = [found.row EXCEPT !.status = Argument(t)]]
          /\ Calling(t, "vmStatus")
      BY <1>0, <1>1, <2>1 DEF SaveVm, Task, Loaded, HandlesLinked
    <3>2. tasks[t].vm # None => tasks[t].vm \in LinkedVms
      BY <3>1, CallerIsLinked
    <3> HIDE DEF found
    <3>3. \A v \in Vms : IF v = found.key THEN vms'[v].linked ELSE vms'[v] = vms[v]
      BY <1>0, <3>1 DEF VmRow
    <3>4. QED
      BY <3>2, <3>3 DEF LinkedVms
  <2>2. CASE SetPhysicalComputer(t)
    <3> DEFINE w == tasks[t].vm
    <3>1. vms' = [vms EXCEPT ![w].linked = TRUE]
      BY <2>2 DEF SetPhysicalComputer
    <3>2. w # None => w \in Vms
      BY <1>0 DEF Task
    <3> HIDE DEF w
    <3>3. \A v \in Vms : /\ vms'[v].status = vms[v].status
                         /\ vms[v].linked \/ v = w => vms'[v].linked
      BY <1>0, <3>1 DEF VmRow
    <3>4. QED
      BY <3>2, <3>3 DEF LinkedVms, w
  <2>3. CASE SaveComputer(t)
    <3> DEFINE found == tasks[t].computerRow
    <3>1. /\ found.key \in Vms /\ found.hostsVm
          /\ vms' = [vms EXCEPT ![found.key].linked = found.hostsVm]
          /\ Calling(t, "computerStatus")
      BY <1>0, <1>1, <2>3 DEF SaveComputer, Task, LoadedComputer, HandlesLinked, Calling
    <3>2. tasks[t].vm # None => tasks[t].vm \in LinkedVms
      BY <3>1, CallerIsLinked
    <3> HIDE DEF found
    <3>3. \A v \in Vms : /\ vms'[v].status = vms[v].status
                         /\ vms[v].linked => vms'[v].linked
      BY <1>0, <3>1 DEF VmRow
    <3>4. QED
      BY <3>2, <3>3 DEF LinkedVms
  <2>4. QED
    BY <2>1, <2>2, <2>3
<1>3. HandlersOfLinked'
  BY <1>1, <1>2, ContinueLinked
<1>4. QED
  BY <1>1, <1>2, <1>3, LinksStay DEF LinkStep, LinkInv

\* The calls that change neither a VM nor the rentals, clients and sockets.
LEMMA QuietLinked ==
  ASSUME TypeOK, LinkInv, NEW t \in Tasks,
         \/ RegisterKnown(t) \/ RegisterNew(t) \/ SetConnectedFalse(t) \/ SetCurrentVm(t)
         \/ NoActiveRental(t) \/ OfflineIfBusy(t) \/ ReconcileVm(t) \/ ReconcileRental(t)
  PROVE  LinkStep
<1> USE DEF tables, agentVars
<1>0. /\ tasks \in [Tasks -> Task] /\ tasks[t].todo # <<>>
      /\ HandlesLinked(tasks[t], LinkedVms)
      /\ UNCHANGED <<vms, rentals, clients, agent, line, up, down>>
  BY DEF TypeOK, LinkInv, HandlersOfLinked, RegisterKnown, RegisterNew, SetConnectedFalse,
     SetCurrentVm, NoActiveRental, OfflineIfBusy, ReconcileVm, ReconcileRental, Calling
<1>1. LinkedVms' = LinkedVms /\ FreeAreLinked'
  BY <1>0, SameVms
<1>2. HandlersOfLinked'
  <2>1. CASE RegisterKnown(t) \/ RegisterNew(t)
    <3>1. ContinueWith(t, Later(t)) \/ ContinueWith(t, <<>>)
      BY <2>1 DEF RegisterKnown, RegisterNew, Return
    <3>2. tasks[t].vm # None => tasks[t].vm \in LinkedVms \/ Registering(Later(t))
      BY <1>0, <2>1 DEF RegisterKnown, RegisterNew, Calling, HandlesLinked, Registering, Later
    <3>3. CASE ContinueWith(t, Later(t))
      BY <1>0, <1>1, <3>2, <3>3, ContinueLinked
    <3>4. CASE ContinueWith(t, <<>>)
      <4>1. tasks' = [tasks EXCEPT ![t] = Idle]
        BY <3>4 DEF ContinueWith
      <4>2. QED
        BY <1>0, <1>1, <4>1 DEF LinkInv, HandlersOfLinked, HandlesLinked, Idle
    <3>5. QED
      BY <3>1, <3>3, <3>4
  <2>2. CASE ~(RegisterKnown(t) \/ RegisterNew(t))
    <3>1. \E rest : ContinueWith(t, rest)
      BY <2>2 DEF SetConnectedFalse, SetCurrentVm, NoActiveRental, OfflineIfBusy,
         ReconcileVm, ReconcileRental, Return
    <3>2. tasks[t].vm # None => tasks[t].vm \in LinkedVms
      BY <2>2, CallerIsLinked DEF SetConnectedFalse, SetCurrentVm, NoActiveRental,
         OfflineIfBusy, ReconcileVm, ReconcileRental
    <3>3. QED
      BY <1>0, <1>1, <3>1, <3>2, ContinueLinked
  <2>3. QED
    BY <2>1, <2>2
<1>3. QED
  BY <1>0, <1>1, <1>2, LinksStay DEF LinkStep, LinkInv

\* The calls on the rental table: a row keeps its VM.
LEMMA RentalCallLinked ==
  ASSUME TypeOK, LinkInv, NEW t \in Tasks,
         InsertRental(t) \/ LoadActiveRental(t) \/ SaveRental(t)
  PROVE  LinkStep
<1> USE DEF tables, agentVars
<1> DEFINE OfLinked == {row \in RentalRow : row.vmId \in LinkedVms}
<1>0. /\ tasks \in [Tasks -> Task] /\ tasks[t].todo # <<>>
      /\ HandlesLinked(tasks[t], LinkedVms) /\ rentals \in Seq(OfLinked)
      /\ UNCHANGED <<vms, clients, agent, line, up, down>>
  BY DEF TypeOK, LinkInv, HandlersOfLinked, RentalsOfLinked, InsertRental,
     LoadActiveRental, SaveRental, Calling
<1>1. LinkedVms' = LinkedVms /\ FreeAreLinked'
  BY <1>0, SameVms
<1>2. tasks[t].vm # None => tasks[t].vm \in LinkedVms
  BY CallerIsLinked DEF InsertRental, LoadActiveRental, SaveRental
<1>3. tasks[t].rentalRow # None =>
        tasks[t].rentalRow.row \in OfLinked /\ tasks[t].rentalRow.key \in Nat
  BY <1>0 DEF HandlesLinked, Task, Loaded
<1>4. CASE InsertRental(t)
  <2>1. rentals' \in Seq(OfLinked)
    BY <1>0, <1>3, <1>4, AppendProperties DEF InsertRental
  <2>2. RentalsOfLinked' /\ HandlersOfLinked'
    BY <1>0, <1>1, <1>2, <1>4, <2>1, ContinueLinked DEF InsertRental, RentalsOfLinked, Return
  <2>3. QED
    BY <1>0, <1>1, <2>2, LinksStay DEF LinkStep, LinkInv
<1>5. CASE SaveRental(t)
  <2>1. tasks[t].rentalRow # None
    BY <1>5 DEF SaveRental
  <2>2. rentals' = [rentals EXCEPT ![tasks[t].rentalRow.key] = tasks[t].rentalRow.row]
    BY <1>5 DEF SaveRental
  <2>3. rentals' \in Seq(OfLinked)
    <3>1. CASE tasks[t].rentalRow.key \in 1 .. Len(rentals)
      BY <1>0, <1>3, <2>1, <2>2, <3>1, ExceptSeq
    <3>2. CASE tasks[t].rentalRow.key \notin 1 .. Len(rentals)
      <4>1. DOMAIN rentals = 1 .. Len(rentals) /\ rentals \in [1 .. Len(rentals) -> OfLinked]
        BY <1>0, LenProperties
      <4>2. rentals' = rentals
        BY <2>2, <3>2, <4>1
      <4>3. QED
        BY <1>0, <4>2
    <3>3. QED
      BY <3>1, <3>2
  <2>4. RentalsOfLinked' /\ HandlersOfLinked'
    BY <1>0, <1>1, <1>2, <1>5, <2>3, ContinueLinked DEF SaveRental, RentalsOfLinked, Return
  <2>5. QED
    BY <1>0, <1>1, <2>4, LinksStay DEF LinkStep, LinkInv
<1>6. CASE LoadActiveRental(t)
  <2>1. PICK r \in DOMAIN rentals :
          /\ tasks' = [tasks EXCEPT ![t].rentalRow =
                         [key |-> r, row |-> EndedRental(rentals[r], "zero")]]
          /\ UNCHANGED rentals
    BY <1>6 DEF LoadActiveRental
  <2> DEFINE row == EndedRental(rentals[r], "zero")
  <2>2. row.vmId \in LinkedVms
    <3>1. rentals[r] \in OfLinked
      BY <1>0, <2>1, LenProperties, ElementOfSeq
    <3>2. QED
      BY <3>1 DEF EndedRental, RentalRow
  <2> HIDE DEF row
  <2>3. tasks' = [tasks EXCEPT ![t].rentalRow = [key |-> r, row |-> row]]
    BY <2>1 DEF row
  <2>4. HandlesLinked(tasks'[t], LinkedVms)
    BY <1>0, <2>2, <2>3 DEF HandlesLinked, Task
  <2>5. \A u \in Tasks : u # t => tasks'[u] = tasks[u]
    BY <1>0, <2>3
  <2>6. HandlersOfLinked'
    BY <1>1, <2>4, <2>5 DEF HandlersOfLinked, LinkInv
  <2>7. QED
    BY <1>0, <1>1, <2>1, <2>6, LinksStay DEF LinkStep, LinkInv
<1>7. QED
  BY <1>4, <1>5, <1>6

\* The calls of the gateway name the VM of the handler.
LEMMA GatewayCallLinked ==
  ASSUME TypeOK, LinkInv, NEW t \in Tasks,
         SendProvisionVM(t) \/ SendDestroyVM(t) \/ Connect(t) \/ Forget(t)
  PROVE  LinkStep
<1> USE DEF tables, agentVars
<1>0. /\ tasks \in [Tasks -> Task] /\ tasks[t].todo # <<>>
      /\ HandlesLinked(tasks[t], LinkedVms)
      /\ UNCHANGED <<vms, rentals, agent, line, up>>
      /\ \E rest : ContinueWith(t, rest)
  BY DEF TypeOK, LinkInv, HandlersOfLinked, SendProvisionVM, SendDestroyVM, Connect, Forget,
     Calling, Return
<1>1. LinkedVms' = LinkedVms /\ FreeAreLinked'
  BY <1>0, SameVms
<1>2. tasks[t].vm # None => tasks[t].vm \in LinkedVms
  BY CallerIsLinked DEF SendProvisionVM, SendDestroyVM, Connect, Forget
<1>3. HandlersOfLinked'
  BY <1>0, <1>1, <1>2, ContinueLinked
<1>4. ASSUME NEW s \in Sockets, NEW type \in DownType, tasks[t].vm # None,
             Emit(s, Message(type, tasks[t].vm))
      PROVE  DownOfLinked'
  <2> DEFINE m == Message(type, tasks[t].vm)
  <2>1. m \in DownAboutLinked
    BY <1>0, <1>2, <1>4, DownTypes DEF DownAboutLinked, Message, Task
  <2> HIDE DEF m
  <2>2. down' \in [Sockets -> Seq(DownAboutLinked)]
    <3>1. down \in [Sockets -> Seq(DownAboutLinked)]
      BY DEF LinkInv, DownOfLinked
    <3>2. Append(down[s], m) \in Seq(DownAboutLinked)
      BY <2>1, <3>1, AppendProperties
    <3>3. down' = IF line[s] = "open" THEN [down EXCEPT ![s] = Append(@, m)] ELSE down
      BY <1>4 DEF Emit, m
    <3>4. QED
      BY <3>1, <3>2, <3>3
  <2>3. DownAboutLinked' = DownAboutLinked
    BY <1>1 DEF DownAboutLinked
  <2>4. QED
    BY <2>2, <2>3 DEF DownOfLinked
<1>5. CASE SendProvisionVM(t) \/ SendDestroyVM(t)
  <2>1. UNCHANGED clients
    BY <1>5 DEF SendProvisionVM, SendDestroyVM
  <2>2. \/ UNCHANGED down
        \/ \E s \in Sockets, type \in DownType :
             FirstSocket(tasks[t].vm, s) /\ Emit(s, Message(type, tasks[t].vm))
    BY <1>5 DEF SendProvisionVM, SendDestroyVM, DownType
  <2>3. \A s \in Sockets : FirstSocket(tasks[t].vm, s) => tasks[t].vm # None
    BY RecordsAssumption DEF FirstSocket, Sockets, Owner
  <2>4. DownOfLinked'
    BY <1>1, <1>4, <2>2, <2>3, LinksStay
  <2>5. QED
    BY <1>0, <1>1, <1>3, <2>1, <2>4, LinksStay DEF LinkStep, LinkInv
<1>6. CASE Connect(t)
  <2>1. PICK s \in Sockets :
          /\ tasks[t].socket = s /\ clients' = Append(clients, s)
          /\ Emit(s, Message("connection_acknowledged", tasks[t].vm))
    BY <1>6 DEF Connect
  <2>2. tasks[t].vm = Owner(s) /\ tasks[t].vm # None
    BY <1>0, <2>1, RecordsAssumption DEF HandlesLinked, Sockets, Owner
  <2>3. DownOfLinked'
    BY <1>4, <2>1, <2>2 DEF DownType
  <2>4. ClientsOfLinked'
    <3> DEFINE Good == {r \in Sockets : Owner(r) \in LinkedVms}
    <3>1. clients \in Seq(Good) /\ s \in Good
      BY <1>2, <2>1, <2>2 DEF LinkInv, ClientsOfLinked
    <3>2. clients' \in Seq(Good)
      BY <2>1, <3>1, AppendProperties
    <3>3. QED
      BY <1>1, <3>2 DEF ClientsOfLinked
  <2>5. QED
    BY <1>0, <1>1, <1>3, <2>3, <2>4, LinksStay DEF LinkStep, LinkInv
<1>7. CASE Forget(t)
  <2>1. PICK i \in DOMAIN clients :
          clients' = SubSeq(clients, 1, i - 1) \o SubSeq(clients, i + 1, Len(clients))
    BY <1>7 DEF Forget
  <2>2. ClientsOfLinked'
    <3> DEFINE Good == {r \in Sockets : Owner(r) \in LinkedVms}
    <3>1. clients \in Seq(Good)
      BY DEF LinkInv, ClientsOfLinked
    <3> HIDE DEF Good
    <3>2. i \in 1 .. Len(clients) /\ Len(clients) \in Nat
      BY <2>1, <3>1, LenProperties
    <3>3. SubSeq(clients, 1, i - 1) \in Seq(Good) /\ SubSeq(clients, i + 1, Len(clients)) \in Seq(Good)
      BY <3>1, <3>2, SubSeqProperties, ElementOfSeq
    <3>4. clients' \in Seq(Good)
      BY <2>1, <3>3, ConcatProperties
    <3>5. QED
      BY <1>1, <3>4 DEF ClientsOfLinked, Good
  <2>3. UNCHANGED down
    BY <1>7 DEF Forget
  <2>4. QED
    BY <1>0, <1>1, <1>3, <2>2, <2>3, LinksStay DEF LinkStep, LinkInv
<1>8. QED
  BY <1>5, <1>6, <1>7

-----------------------------------------------------------------------------
(* Handlers that start.                                                    *)

\* A handler about a linked VM, with nothing loaded yet.
LEMMA HandlerLinked ==
  ASSUME NEW L, NEW v, v \in L, NEW calls
  PROVE  /\ HandlesLinked(Handler(v, calls), L)
         /\ \A row : row.row.vmId \in L =>
              HandlesLinked([Handler(v, calls) EXCEPT !.rentalRow = row], L)
         /\ HandlesLinked([Handler(v, calls) EXCEPT !.computer = v], L)
         /\ \A s : v = Owner(s) => HandlesLinked([Handler(v, calls) EXCEPT !.socket = s], L)
BY DEF HandlesLinked, Handler, Idle

\* One about no VM, once some VM is linked.
LEMMA NullHandlerLinked ==
  ASSUME NEW L, L # {}, NEW calls
  PROVE  /\ HandlesLinked(Handler(None, calls), L)
         /\ \A v : HandlesLinked([Handler(None, calls) EXCEPT !.computer = v], L)
BY DEF HandlesLinked, Handler, Idle

LEMMA RequestLinked ==
  ASSUME TypeOK, LinkInv, PatchesFindLinked, NEW t \in Tasks, Request(t)
  PROVE  LinkStep
<1> USE DEF tables, agentVars
<1> DEFINE OfLinked == {row \in RentalRow : row.vmId \in LinkedVms}
<1>1. UNCHANGED <<vms, rentals, clients, agent, line, up, down>>
  BY DEF Request, CreateRental, EndRental, ProcessPayment, PatchVmStatus
<1>2. LinkedVms' = LinkedVms /\ FreeAreLinked'
  BY <1>1, SameVms
<1>3. \A r \in DOMAIN rentals : rentals[r] \in RentalRow /\ rentals[r].vmId \in LinkedVms
  <2>1. rentals \in Seq(OfLinked)
    BY DEF LinkInv, RentalsOfLinked
  <2>2. \A r \in DOMAIN rentals : rentals[r] \in OfLinked
    BY <2>1, LenProperties, ElementOfSeq
  <2>3. QED
    BY <2>2
<1>4. PICK task : Start(t, task) /\ HandlesLinked(task, LinkedVms)
  <2>1. ASSUME NEW u \in Users, NEW v \in Vms, CreateRental(t, u, v)
        PROVE  \E task : Start(t, task) /\ HandlesLinked(task, LinkedVms)
    <3>1. v \in LinkedVms
      BY <2>1 DEF CreateRental, Rentable, LinkInv, FreeAreLinked
    <3>2. PICK calls : Start(t, [Handler(v, calls) EXCEPT !.rentalRow =
                                   [key |-> NewKey, row |-> NewRental(v, u)]])
      BY <2>1 DEF CreateRental
    <3>3. [key |-> NewKey, row |-> NewRental(v, u)].row.vmId = v
      BY DEF NewRental
    <3>4. QED
      BY <3>1, <3>2, <3>3, HandlerLinked
  <2>2. ASSUME NEW u \in Users, NEW r \in DOMAIN rentals,
               EndRental(t, u, r) \/ ProcessPayment(t, u, r)
        PROVE  \E task : Start(t, task) /\ HandlesLinked(task, LinkedVms)
    <3> DEFINE v == rentals[r].vmId
    <3>1. v \in LinkedVms
      BY <1>3
    <3>2. PICK calls, row : /\ Start(t, [Handler(v, calls) EXCEPT !.rentalRow =
                                          [key |-> r, row |-> row]])
                            /\ row.vmId = v
      <4>1. /\ EndedRental(rentals[r], "usage").vmId = v
            /\ PaidRental(rentals[r]).vmId = v
        BY <1>3 DEF EndedRental, PaidRental, RentalRow
      <4>2. QED
        BY <2>2, <4>1 DEF EndRental, ProcessPayment
    <3>3. [key |-> r, row |-> row].row.vmId = v
      BY <3>2
    <3>4. QED
      BY <3>1, <3>2, <3>3, HandlerLinked
  <2>3. ASSUME NEW u \in Users, NEW v \in Vms, NEW status \in PatchTargets,
               PatchVmStatus(t, u, v, status)
        PROVE  \E task : Start(t, task) /\ HandlesLinked(task, LinkedVms)
    <3>1. v \in LinkedVms
      BY <2>3 DEF PatchesFindLinked, LinkedVms
    <3>2. QED
      BY <2>3, <3>1, HandlerLinked DEF PatchVmStatus
  <2>4. QED
    BY <2>1, <2>2, <2>3 DEF Request
<1>5. HandlersOfLinked'
  BY <1>2, <1>4, StartLinked
<1>6. QED
  BY <1>1, <1>2, <1>5, LinksStay DEF LinkStep, LinkInv

\* Before a machine's first registration reads its VM, it links it.
LEMMA RegistrationRegisters ==
  \A v : Registration(v) # <<>> /\ Registering(Registration(v))
<1> SUFFICES ASSUME NEW v
             PROVE  Registration(v) # <<>> /\ Registering(Registration(v))
  OBVIOUS
<1> DEFINE first == <<Do("register"), Do("setPhysicalComputer"), SetCurrentVM("vm")>>
           rest == Revival(v) \o <<Do("connect")>>
           all == first \o rest
<1>1. /\ first \in Seq(Call) /\ Revival(v) \in Seq(Call) /\ <<Do("connect")>> \in Seq(Call)
  BY CallLists, ShortLists DEF PlainOp, VMStatus, Revival
<1>2. rest \in Seq(Call)
  BY <1>1, Concatenation
<1>3. Registration(v) = all
  BY <1>1, ConcatAssociative DEF Registration
<1>4. Len(first) = 3 /\ first[1] = Do("register") /\ first[2] = Do("setPhysicalComputer")
  OBVIOUS
<1> HIDE DEF first, rest
<1>5. /\ all \in Seq(Call) /\ Len(all) = 3 + Len(rest)
      /\ \A i \in 1 .. 3 + Len(rest) : all[i] = IF i <= 3 THEN first[i] ELSE rest[i - 3]
  <2>1. /\ all \in Seq(Call) /\ Len(all) = Len(first) + Len(rest)
        /\ \A i \in 1 .. Len(first) + Len(rest) :
             all[i] = IF i <= Len(first) THEN first[i] ELSE rest[i - Len(first)]
    BY <1>1, <1>2, ConcatProperties
  <2>2. QED
    BY <1>4, <2>1
<1>6. Len(rest) \in Nat
  BY <1>2, LenProperties
<1> HIDE DEF all
<1>7. all[1] = Do("register") /\ all[2] = Do("setPhysicalComputer") /\ Len(all) >= 3
  BY <1>4, <1>5, <1>6
<1>8. all # <<>> /\ Head(all) = Do("register")
  BY <1>5, <1>7, EmptySeq
<1>9. Tail(all) # <<>> /\ Head(Tail(all)) = Do("setPhysicalComputer")
  <2>1. Tail(all) \in Seq(Call) /\ Len(Tail(all)) = Len(all) - 1
    BY <1>5, <1>8, HeadTailProperties
  <2>2. 1 \in 1 .. Len(Tail(all)) /\ Tail(all) # <<>>
    BY <1>5, <1>6, <2>1, EmptySeq
  <2>3. Tail(all)[1] = all[2]
    BY <1>5, <1>8, <2>2, HeadTailProperties
  <2>4. QED
    BY <1>7, <2>1, <2>2, <2>3
<1>10. QED
  BY <1>3, <1>8, <1>9 DEF Registering, Do

\* What the backend reads off a socket is about a linked VM, or about none.
LEMMA DeliversLinked ==
  ASSUME LinkInv, NEW s \in Sockets, NEW type, Delivers(s, type),
         UNCHANGED vms
  PROVE  /\ UpOfLinked'
         /\ EventVm(s) # None => EventVm(s) \in LinkedVms
         /\ type \notin {"client_connected", "heartbeat"} => LinkedVms # {}
<1>1. up \in [Sockets -> Seq(UpAboutLinked)]
  BY DEF LinkInv, UpOfLinked
<1>2. up[s] \in Seq(UpAboutLinked) /\ up[s] # <<>>
  BY <1>1 DEF Delivers
<1>3. Head(up[s]) \in UpAboutLinked /\ Tail(up[s]) \in Seq(UpAboutLinked)
  BY <1>2, HeadTailProperties
<1>4. UpAboutLinked' = UpAboutLinked
  BY SameVms DEF UpAboutLinked
<1>5. up' \in [Sockets -> Seq(UpAboutLinked)]
  BY <1>1, <1>3 DEF Delivers
<1>6. QED
  BY <1>3, <1>4, <1>5 DEF UpOfLinked, UpAboutLinked, EventVm, Delivers

\* The socket of a registered connector is the one of a linked VM.
LEMMA RegisteredIsLinked ==
  ASSUME LinkInv, NEW s \in Sockets, Registered(s)
  PROVE  Owner(s) \in LinkedVms
<1>1. PICK i \in DOMAIN clients : clients[i] = s
  BY DEF Registered
<1>2. clients[i] \in {r \in Sockets : Owner(r) \in LinkedVms}
  BY <1>1, LenProperties, ElementOfSeq DEF LinkInv, ClientsOfLinked
<1>3. QED
  BY <1>1, <1>2

LEMMA EventLinked ==
  ASSUME TypeOK, LinkInv, NEW t \in Tasks, NEW s \in Sockets, Event(t, s)
  PROVE  LinkStep
<1> USE DEF tables, agentVars
<1> DEFINE v == EventVm(s)
<1>1. UNCHANGED <<vms, rentals, clients, agent, line, down>>
  BY DEF Event, HandleClientConnected, HandleVMProvisioningStarted, HandleVMProvisioned,
     HandleVMProvisioningFailed, HandleVMDestroyed, HandleHeartbeat
<1>2. LinkedVms' = LinkedVms /\ FreeAreLinked'
  BY <1>1, SameVms
<1>3. PICK type : Delivers(s, type)
  BY DEF Event, HandleClientConnected, HandleVMProvisioningStarted, HandleVMProvisioned,
     HandleVMProvisioningFailed, HandleVMDestroyed, HandleHeartbeat
<1>4. UpOfLinked'
  BY <1>1, <1>3, DeliversLinked
<1>5. UNCHANGED tasks \/ \E task : Start(t, task) /\ HandlesLinked(task, LinkedVms)
  <2>1. CASE HandleClientConnected(t, s)
    <3> DEFINE task == [Handler(Owner(s), Registration(Owner(s))) EXCEPT !.socket = s]
    <3>1. Start(t, task)
      BY <2>1 DEF HandleClientConnected
    <3>2. Owner(s) # None
      BY RecordsAssumption, SocketNames
    <3>3. HandlesLinked(task, LinkedVms)
      BY <3>2, RegistrationRegisters DEF HandlesLinked, Handler, Idle
    <3>4. QED
      BY <3>1, <3>3
  <2>2. CASE HandleVMProvisioningStarted(t, s)
    <3>1. /\ v # None => v \in LinkedVms
          /\ LinkedVms # {}
      BY <1>1, <2>2, DeliversLinked DEF HandleVMProvisioningStarted
    <3>2. Start(t, Handler(v, <<SetVm("building")>>))
      BY <2>2 DEF HandleVMProvisioningStarted
    <3>3. QED
      BY <3>1, <3>2, HandlerLinked, NullHandlerLinked
  <2>3. CASE HandleVMProvisioned(t, s)
    <3>1. /\ v # None => v \in LinkedVms
          /\ LinkedVms # {}
      BY <1>1, <2>3, DeliversLinked DEF HandleVMProvisioned
    <3>2. UNCHANGED tasks \/ \E calls : Start(t, Handler(v, calls))
      BY <2>3 DEF HandleVMProvisioned
    <3>3. QED
      BY <3>1, <3>2, HandlerLinked, NullHandlerLinked
  <2>4. CASE HandleVMProvisioningFailed(t, s)
    <3>1. /\ v # None => v \in LinkedVms
          /\ LinkedVms # {}
      BY <1>1, <2>4, DeliversLinked DEF HandleVMProvisioningFailed
    <3>2. PICK w \in FoundBy(v) :
            \E calls : Start(t, [Handler(v, calls) EXCEPT !.computer = w])
      BY <2>4 DEF HandleVMProvisioningFailed
    <3>3. v # None => w = v
      BY <3>2 DEF FoundBy
    <3>4. QED
      BY <3>1, <3>2, <3>3, HandlerLinked, NullHandlerLinked
  <2>5. CASE HandleVMDestroyed(t, s)
    <3>1. /\ v # None => v \in LinkedVms
          /\ LinkedVms # {}
      BY <1>1, <2>5, DeliversLinked DEF HandleVMDestroyed
    <3>2. \E calls : Start(t, Handler(v, calls))
      BY <2>5 DEF HandleVMDestroyed
    <3>3. QED
      BY <3>1, <3>2, HandlerLinked, NullHandlerLinked
  <2>6. CASE HandleHeartbeat(t, s)
    <3>1. \/ UNCHANGED tasks
          \/ Registered(s) /\ Start(t, Handler(Owner(s), <<Do("reconcileVm")>>))
      BY <2>6 DEF HandleHeartbeat
    <3>2. QED
      BY <3>1, RegisteredIsLinked, HandlerLinked
  <2>7. QED
    BY <2>1, <2>2, <2>3, <2>4, <2>5, <2>6 DEF Event
<1>6. HandlersOfLinked'
  <2>1. CASE UNCHANGED tasks
    BY <1>2, <2>1 DEF LinkInv, HandlersOfLinked
  <2>2. QED
    BY <1>2, <1>5, <2>1, StartLinked
<1>7. QED
  BY <1>1, <1>2, <1>4, <1>6, LinksStay DEF LinkStep, LinkInv

LEMMA DisconnectLinked ==
  ASSUME TypeOK, LinkInv, NEW t \in Tasks, NEW s \in Sockets, HandleDisconnect(t, s)
  PROVE  LinkStep
<1> USE DEF tables, agentVars
<1>1. UNCHANGED <<vms, rentals, clients, agent, down>> /\ up' = [up EXCEPT ![s] = <<>>]
  BY DEF HandleDisconnect
<1>2. LinkedVms' = LinkedVms /\ FreeAreLinked'
  BY <1>1, SameVms
<1>3. UpOfLinked'
  <2>1. up' \in [Sockets -> Seq(UpAboutLinked)]
    BY <1>1, EmptySeq DEF LinkInv, UpOfLinked
  <2>2. UpAboutLinked' = UpAboutLinked
    BY <1>2 DEF UpAboutLinked
  <2>3. QED
    BY <2>1, <2>2 DEF UpOfLinked
<1>4. HandlersOfLinked'
  <2>1. CASE Registered(s)
    <3>1. Start(t, [Handler(Owner(s), Disconnection) EXCEPT !.socket = s])
      BY <2>1 DEF HandleDisconnect
    <3>2. QED
      BY <1>2, <2>1, <3>1, RegisteredIsLinked, HandlerLinked, StartLinked
  <2>2. CASE ~Registered(s)
    BY <1>2, <2>2 DEF HandleDisconnect, LinkInv, HandlersOfLinked
  <2>3. QED
    BY <2>1, <2>2
<1>5. QED
  BY <1>1, <1>2, <1>3, <1>4, LinksStay DEF LinkStep, LinkInv

-----------------------------------------------------------------------------
(* The connectors, the restart, and the theorems.                          *)

LEMMA SendUpLinked ==
  ASSUME TypeOK, LinkInv, UNCHANGED vms, NEW v \in Vms, NEW m \in UpAboutLinked,
         SendUp(v, <<m>>)
  PROVE  UpOfLinked'
<1>1. up \in [Sockets -> Seq(UpAboutLinked)]
  BY DEF LinkInv, UpOfLinked
<1>2. <<m>> \in Seq(UpAboutLinked)
  OBVIOUS
<1>3. \A s \in Sockets : up[s] \o <<m>> \in Seq(UpAboutLinked)
  BY <1>1, <1>2, ConcatProperties
<1>4. up' \in [Sockets -> Seq(UpAboutLinked)]
  BY <1>1, <1>3 DEF SendUp
<1>5. UpAboutLinked' = UpAboutLinked
  BY SameVms DEF UpAboutLinked
<1>6. QED
  BY <1>4, <1>5 DEF UpOfLinked

\* What a connector reads names a linked VM.
LEMMA ReceivesLinked ==
  ASSUME TypeOK, LinkInv, UNCHANGED vms, NEW v \in Vms, NEW type, Receives(v, type),
         Consume(v)
  PROVE  Received(v).vm \in LinkedVms /\ DownOfLinked'
<1>1. SocketOf(v) \in Sockets
  BY SocketType DEF Receives, TypeOK
<1>2. down \in [Sockets -> Seq(DownAboutLinked)]
  BY DEF LinkInv, DownOfLinked
<1>3. down[SocketOf(v)] \in Seq(DownAboutLinked) /\ down[SocketOf(v)] # <<>>
  BY <1>1, <1>2 DEF Receives
<1>4. Received(v) \in DownAboutLinked /\ Tail(down[SocketOf(v)]) \in Seq(DownAboutLinked)
  BY <1>3, HeadTailProperties DEF Received
<1>5. down' \in [Sockets -> Seq(DownAboutLinked)]
  BY <1>2, <1>4 DEF Consume
<1>6. DownAboutLinked' = DownAboutLinked
  BY SameVms DEF DownAboutLinked
<1>7. QED
  BY <1>4, <1>5, <1>6 DEF DownOfLinked, DownAboutLinked

LEMMA ConnectorLinked ==
  ASSUME TypeOK, LinkInv, NEW v \in Vms, AgentNext(v)
  PROVE  LinkStep
<1>1. UNCHANGED <<vms, rentals, clients, tasks>>
  BY DEF AgentNext, tables
<1>2. LinkedVms' = LinkedVms /\ FreeAreLinked' /\ UNCHANGED vms
  BY <1>1, SameVms
<1>3. HandlersOfLinked'
  BY <1>1, <1>2 DEF LinkInv, HandlersOfLinked
<1>4. SUFFICES ConnectorsOfLinked' /\ UpOfLinked' /\ DownOfLinked'
  BY <1>1, <1>2, <1>3, LinksStay DEF LinkStep, LinkInv
<1>5. /\ agent \in [Vms -> AgentState]
      /\ up \in [Sockets -> Seq(UpAboutLinked)] /\ down \in [Sockets -> Seq(DownAboutLinked)]
      /\ UpAboutLinked' = UpAboutLinked /\ DownAboutLinked' = DownAboutLinked
  BY <1>2 DEF TypeOK, AgentTypeOK, LinkInv, UpOfLinked, DownOfLinked, UpAboutLinked,
     DownAboutLinked
<1>6. \A w \in Vms : /\ agent[w].currentVm # None => agent[w].currentVm \in LinkedVms
                     /\ agent[w].builds > 0 => LinkedVms # {}
  BY DEF LinkInv, ConnectorsOfLinked
<1>7. CASE AgentConnect(v)
  <2>1. PICK n \in 1 .. MaxSessions :
          /\ agent' = [agent EXCEPT ![v].session = n, ![v].registered = FALSE]
          /\ up' = [up EXCEPT ![<<v, n>>] = <<Message("client_connected", None)>>]
          /\ UNCHANGED down
    BY <1>7 DEF AgentConnect
  <2>2. Message("client_connected", None) \in UpAboutLinked
    BY UpTypes DEF UpAboutLinked, Message, UpType
  <2>3. <<Message("client_connected", None)>> \in Seq(UpAboutLinked)
    BY <2>2
  <2>4. UpOfLinked'
    BY <1>5, <2>1, <2>3 DEF UpOfLinked
  <2>5. \A w \in Vms : /\ agent'[w].currentVm = agent[w].currentVm
                       /\ agent'[w].builds = agent[w].builds
    BY <1>5, <2>1 DEF AgentState
  <2>6. QED
    BY <1>2, <1>5, <1>6, <2>1, <2>4, <2>5 DEF ConnectorsOfLinked, DownOfLinked
<1>8. CASE LoseConnection(v)
  <2>1. \A w \in Vms : /\ agent'[w].currentVm = agent[w].currentVm
                       /\ agent'[w].builds = agent[w].builds
    BY <1>5, <1>8 DEF LoseConnection, AgentState
  <2>2. UpOfLinked' /\ DownOfLinked'
    BY <1>5, <1>8, EmptySeq DEF LoseConnection, UpOfLinked, DownOfLinked
  <2>3. QED
    BY <1>2, <1>6, <2>1, <2>2 DEF ConnectorsOfLinked
<1>9. CASE AgentAcknowledged(v)
  <2>1. Received(v).vm \in LinkedVms /\ DownOfLinked'
    BY <1>2, <1>9, ReceivesLinked DEF AgentAcknowledged
  <2>2. \A w \in Vms : /\ agent'[w].currentVm \in {agent[w].currentVm, Received(v).vm}
                       /\ agent'[w].builds = agent[w].builds
    BY <1>5, <1>9 DEF AgentAcknowledged, AgentState
  <2>3. UpOfLinked'
    BY <1>5, <1>9 DEF AgentAcknowledged, UpOfLinked
  <2>4. QED
    BY <1>2, <1>6, <2>1, <2>2, <2>3 DEF ConnectorsOfLinked
<1>10. CASE AgentProvision(v)
  <2>1. Received(v).vm \in LinkedVms /\ DownOfLinked'
    BY <1>2, <1>10, ReceivesLinked DEF AgentProvision
  <2>2. \A w \in Vms : agent'[w].currentVm \in {agent[w].currentVm, Received(v).vm}
    BY <1>5, <1>10 DEF AgentProvision, AgentState
  <2>3. Message("vm_provisioning_started", Received(v).vm) \in UpAboutLinked
    BY <2>1, UpTypes DEF UpAboutLinked, Message, UpType, LinkedVms
  <2>4. UpOfLinked'
    BY <1>2, <1>10, <2>3, SendUpLinked DEF AgentProvision
  <2>5. QED
    BY <1>2, <1>6, <2>1, <2>2, <2>4 DEF ConnectorsOfLinked
<1>11. ASSUME NEW result \in {"vm_provisioned", "vm_provisioning_failed"},
              AgentProvisionDone(v, result)
       PROVE  ConnectorsOfLinked' /\ UpOfLinked' /\ DownOfLinked'
  <2>1. \A w \in Vms : agent'[w].currentVm = agent[w].currentVm
    BY <1>5, <1>11 DEF AgentProvisionDone, AgentState
  <2>2. LinkedVms # {} /\ UNCHANGED down
    BY <1>6, <1>11 DEF AgentProvisionDone
  <2>3. Message(result, agent[v].currentVm) \in UpAboutLinked
    BY <1>5, <1>6, <2>2, UpTypes DEF UpAboutLinked, Message, UpType, AgentState
  <2>4. UpOfLinked'
    BY <1>2, <1>11, <2>3, SendUpLinked DEF AgentProvisionDone
  <2>5. QED
    BY <1>2, <1>5, <1>6, <2>1, <2>2, <2>4 DEF ConnectorsOfLinked, DownOfLinked
<1>12. CASE AgentDestroy(v)
  <2>1. Received(v).vm \in LinkedVms /\ DownOfLinked'
    BY <1>2, <1>12, ReceivesLinked DEF AgentDestroy
  <2>2. \A w \in Vms : agent'[w].currentVm \in {agent[w].currentVm, None}
    BY <1>5, <1>12 DEF AgentDestroy, AgentState
  <2>3. Message("vm_destroyed", Received(v).vm) \in UpAboutLinked
    BY <2>1, UpTypes DEF UpAboutLinked, Message, UpType, LinkedVms
  <2>4. UpOfLinked'
    BY <1>2, <1>12, <2>3, SendUpLinked DEF AgentDestroy
  <2>5. QED
    BY <1>2, <1>6, <2>1, <2>2, <2>4 DEF ConnectorsOfLinked
<1>13. CASE AgentHeartbeat(v)
  <2>1. Message("heartbeat", None) \in UpAboutLinked
    BY UpTypes DEF UpAboutLinked, Message, UpType
  <2>2. UpOfLinked'
    BY <1>2, <1>13, <2>1, SendUpLinked DEF AgentHeartbeat
  <2>3. QED
    BY <1>2, <1>5, <1>6, <1>13, <2>2 DEF AgentHeartbeat, ConnectorsOfLinked, DownOfLinked
<1>14. QED
  BY <1>7, <1>8, <1>9, <1>10, <1>11, <1>12, <1>13 DEF AgentNext, AgentStep

LEMMA RestartLinked ==
  ASSUME TypeOK, LinkInv, Restart
  PROVE  LinkStep
<1>1. UNCHANGED <<vms, rentals>>
  BY DEF Restart, tables
<1>2. LinkedVms' = LinkedVms /\ FreeAreLinked'
  BY <1>1, SameVms
<1>3. HandlersOfLinked'
  BY DEF Restart, HandlersOfLinked, HandlesLinked, Idle
<1>4. ClientsOfLinked' /\ UpOfLinked' /\ DownOfLinked'
  BY EmptySeq DEF Restart, ClientsOfLinked, UpOfLinked, DownOfLinked
<1>5. ConnectorsOfLinked'
  <2>1. \A w \in Vms : /\ agent'[w].currentVm = agent[w].currentVm
                       /\ agent'[w].builds = agent[w].builds
    BY DEF Restart, TypeOK, AgentTypeOK, AgentState
  <2>2. QED
    BY <1>2, <2>1 DEF LinkInv, ConnectorsOfLinked
<1>6. QED
  BY <1>1, <1>2, <1>3, <1>4, <1>5, LinksStay DEF LinkStep, LinkInv

LEMMA LinkInvStep ==
  TypeOK /\ LinkInv /\ NullReportsFindLinked /\ [Next]_vars /\ [PatchesFindLinked]_vars
    => LinkStep
<1> SUFFICES ASSUME TypeOK, LinkInv, NullReportsFindLinked, [Next]_vars,
                    [PatchesFindLinked]_vars
             PROVE  LinkStep
  OBVIOUS
<1>1. CASE UNCHANGED vars
  <2>1. UNCHANGED <<vms, rentals, clients, tasks, agent, up, down>>
    BY <1>1 DEF vars
  <2>2. LinkedVms' = LinkedVms /\ FreeAreLinked'
    BY <2>1, SameVms
  <2>3. HandlersOfLinked'
    BY <2>1, <2>2 DEF LinkInv, HandlersOfLinked
  <2>4. QED
    BY <2>1, <2>2, <2>3, LinksStay DEF LinkStep, LinkInv
<1>2. CASE Next /\ PatchesFindLinked
  <2>1. ASSUME NEW t \in Tasks, Request(t) PROVE LinkStep
    BY <1>2, <2>1, RequestLinked
  <2>2. ASSUME NEW t \in Tasks, Step(t) PROVE LinkStep
    BY <2>2, LoadLinked, SaveLinked, QuietLinked, RentalCallLinked, GatewayCallLinked DEF Step
  <2>3. ASSUME NEW t \in Tasks, NEW s \in Sockets, Event(t, s) PROVE LinkStep
    BY <2>3, EventLinked
  <2>4. ASSUME NEW t \in Tasks, NEW s \in Sockets, HandleDisconnect(t, s) PROVE LinkStep
    BY <2>4, DisconnectLinked
  <2>5. ASSUME NEW v \in Vms, AgentNext(v) PROVE LinkStep
    BY <2>5, ConnectorLinked
  <2>6. CASE Restart
    BY <2>6, RestartLinked
  <2>7. QED
    BY <1>2, <2>1, <2>2, <2>3, <2>4, <2>5, <2>6 DEF Next
<1>3. QED
  BY <1>1, <1>2

\* Once a VM is linked to its computer it stays linked, whatever entities
\* loaded before the link are saved after it; else rentals of it would fail.
KeepsLinks == \A v \in Vms : vms[v].linked => vms'[v].linked
LinkIsKept == [][KeepsLinks]_vars

\* A VM once linked stays linked under every interleaving, unless a provider
\* PATCHes a VM whose machine has not connected yet, or a failure without a
\* VM is handled while such a VM is listed: each saves the copy it loaded.
THEOREM LinksLast ==
  Spec /\ []NullReportsFindLinked /\ [][PatchesFindLinked]_vars => LinkIsKept
<1>1. LinkStep => LinkInv' /\ [KeepsLinks]_vars
  BY DEF LinkStep, LinkedVms, KeepsLinks
<1>2. Spec /\ []NullReportsFindLinked /\ [][PatchesFindLinked]_vars => [][KeepsLinks]_vars
  BY <1>1, TypeCorrect, LinkInvInit, LinkInvStep, PTL DEF Spec
<1>3. QED
  BY <1>2 DEF LinkIsKept
=============================================================================
