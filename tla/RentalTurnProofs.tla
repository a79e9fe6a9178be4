-------------------------- MODULE RentalTurnProofs --------------------------
(***************************************************************************)
(* Proofs about RentalBackend when its handlers take turns: one handler is *)
(* in flight at a time, a connector is back only after the server has      *)
(* given its previous socket up, the process is not restarted and no PATCH *)
(* takes a VM from its renter.  Then a VM is let once and is busy while it *)
(* is let, the computer table agrees with the registry, and the backend    *)
(* implements RentalLedger; for every set of VMs and users and every bound *)
(* on connections, builds and rentals.                                     *)
(***************************************************************************)
EXTENDS RentalLinkProofs

Busy == {"building", "running"}

TakeTurns ==
  /\ \A t, u \in Tasks : t = u
  /\ ~Lingering /\ ~Restarts
  /\ PatchTargets \subseteq Busy

\* A failure reported after a destroy names no VM, and its handler works on
\* whichever VM and rental its queries find: the right ones if there is one VM.
\* With two it may fail a VM that is let and close the rental of the other; the
\* next registration of its machine makes that VM AVAILABLE, and it is let again.
NullReportsFindOne ==
  \A t \in Tasks : tasks[t].todo # <<>> /\ tasks[t].vm = None => \A v, w \in Vms : v = w

-----------------------------------------------------------------------------
(* Lists of calls and queues of messages.                                  *)

Among(q) == {q[i] : i \in DOMAIN q}

\* The types of the messages in a queue: there is one of a type, at most one,
\* and none but the first.
Carries(q, type) == \E i \in DOMAIN q : q[i].type = type
Single(q, type) == \A i, j \in DOMAIN q : q[i].type = type /\ q[j].type = type => i = j
Leads(q, type) == \A i \in DOMAIN q : q[i].type = type => i = 1

LEMMA TailIndices ==
  ASSUME NEW S, NEW q \in Seq(S), q # <<>>
  PROVE  /\ DOMAIN q = 1 .. Len(q) /\ Len(q) \in Nat /\ 1 \in DOMAIN q
         /\ q[1] = Head(q)
         /\ DOMAIN Tail(q) = 1 .. Len(q) - 1
         /\ \A i \in DOMAIN Tail(q) : i + 1 \in DOMAIN q /\ Tail(q)[i] = q[i + 1]
         /\ \A i \in DOMAIN q : i # 1 => i - 1 \in DOMAIN Tail(q)
<1>1. Len(q) \in Nat \ {0} /\ DOMAIN q = 1 .. Len(q)
  BY EmptySeq, LenProperties
<1>2. /\ Tail(q) \in Seq(S) /\ Len(Tail(q)) = Len(q) - 1
      /\ \A i \in 1 .. Len(Tail(q)) : Tail(q)[i] = q[i + 1]
  BY HeadTailProperties
<1>3. DOMAIN Tail(q) = 1 .. Len(q) - 1
  BY <1>2, LenProperties
<1>4. q[1] = Head(q)
  OBVIOUS
<1> DEFINE n == Len(q)
<1> HIDE DEF n
<1>5. n \in Nat \ {0} => /\ 1 \in 1 .. n
                         /\ \A i \in 1 .. n - 1 : i + 1 \in 1 .. n
                         /\ \A i \in 1 .. n : i # 1 => i - 1 \in 1 .. n - 1
  OBVIOUS
<1>6. QED
  BY <1>1, <1>2, <1>3, <1>4, <1>5 DEF n

LEMMA AppendIndices ==
  ASSUME NEW S, NEW q \in Seq(S), NEW m \in S
  PROVE  /\ DOMAIN q = 1 .. Len(q) /\ Len(q) \in Nat
         /\ DOMAIN Append(q, m) = 1 .. Len(q) + 1
         /\ \A i \in DOMAIN q : i \in DOMAIN Append(q, m) /\ Append(q, m)[i] = q[i]
         /\ Append(q, m)[Len(q) + 1] = m
         /\ \A i \in DOMAIN Append(q, m) : i \in DOMAIN q \/ i = Len(q) + 1
<1>1. Len(q) \in Nat /\ DOMAIN q = 1 .. Len(q)
  BY LenProperties
<1>2. /\ Append(q, m) \in Seq(S) /\ Len(Append(q, m)) = Len(q) + 1
      /\ \A i \in 1 .. Len(q) : Append(q, m)[i] = q[i]
      /\ Append(q, m)[Len(q) + 1] = m
  BY AppendProperties
<1>3. DOMAIN Append(q, m) = 1 .. Len(q) + 1
  BY <1>2, LenProperties
<1> DEFINE n == Len(q)
<1> HIDE DEF n
<1>4. n \in Nat => /\ \A i \in 1 .. n : i \in 1 .. n + 1
                   /\ \A i \in 1 .. n + 1 : i \in 1 .. n \/ i = n + 1
  OBVIOUS
<1>5. QED
  BY <1>1, <1>2, <1>3, <1>4 DEF n

\* Reading the first message.
LEMMA ReadFirst ==
  ASSUME NEW S, NEW q \in Seq(S), q # <<>>, NEW type
  PROVE  /\ Head(q).type = type => Carries(q, type)
         /\ Carries(Tail(q), type) => Carries(q, type)
         /\ Single(q, type) => Single(Tail(q), type)
         /\ Single(q, type) /\ Head(q).type = type => ~Carries(Tail(q), type)
         /\ Leads(q, type) => Leads(Tail(q), type) /\ ~Carries(Tail(q), type)
<1> DEFINE r == Tail(q)
<1>1. /\ 1 \in DOMAIN q /\ q[1] = Head(q) /\ DOMAIN r \subseteq Nat
      /\ \A i \in DOMAIN r : i + 1 \in DOMAIN q /\ r[i] = q[i + 1]
  BY TailIndices
<1>2. \A i \in DOMAIN r : i + 1 # 1 /\ i \in Nat
  <2>1. DOMAIN r = 1 .. Len(q) - 1 /\ Len(q) \in Nat
    BY TailIndices
  <2>2. QED
    BY <2>1
<1> HIDE DEF r
<1>3. Head(q).type = type => Carries(q, type)
  BY <1>1 DEF Carries
<1>4. Carries(r, type) => Carries(q, type)
  BY <1>1 DEF Carries
<1>5. Single(q, type) => Single(r, type)
  <2> SUFFICES ASSUME Single(q, type), NEW i \in DOMAIN r, NEW j \in DOMAIN r,
                      r[i].type = type, r[j].type = type
               PROVE  i = j
    BY DEF Single
  <2>1. i + 1 = j + 1
    BY <1>1 DEF Single
  <2>2. QED
    BY <2>1, <1>2
<1>6. Single(q, type) /\ Head(q).type = type => ~Carries(r, type)
  BY <1>1, <1>2 DEF Single, Carries
<1>7. Leads(q, type) => ~Carries(r, type)
  BY <1>1, <1>2 DEF Leads, Carries
<1>8. ~Carries(r, type) => Leads(r, type)
  BY DEF Leads, Carries
<1>9. QED
  BY <1>3, <1>4, <1>5, <1>6, <1>7, <1>8 DEF r

\* Adding a message at the end.
LEMMA AddLast ==
  ASSUME NEW S, NEW q \in Seq(S), NEW m \in S, NEW type
  PROVE  /\ Carries(Append(q, m), type) <=> Carries(q, type) \/ m.type = type
         /\ Single(q, type) /\ (m.type = type => ~Carries(q, type)) =>
              Single(Append(q, m), type)
         /\ Leads(q, type) /\ m.type # type => Leads(Append(q, m), type)
<1> DEFINE r == Append(q, m)
           n == Len(q) + 1
<1>1. /\ DOMAIN r = 1 .. n /\ n \in Nat /\ n \in DOMAIN r
      /\ \A i \in DOMAIN q : i \in DOMAIN r /\ r[i] = q[i]
      /\ r[n] = m
      /\ \A i \in DOMAIN r : i \in DOMAIN q \/ i = n
  <2>1. Len(q) \in Nat
    BY LenProperties
  <2>2. n \in 1 .. n
    BY <2>1
  <2>3. QED
    BY <2>1, <2>2, AppendIndices
<1> HIDE DEF r, n
<1>2. Carries(r, type) <=> Carries(q, type) \/ m.type = type
  BY <1>1 DEF Carries
<1>3. Single(q, type) /\ (m.type = type => ~Carries(q, type)) => Single(r, type)
  BY <1>1 DEF Carries, Single
<1>4. Leads(q, type) /\ m.type # type => Leads(r, type)
  BY <1>1 DEF Leads
<1>5. QED
  BY <1>2, <1>3, <1>4 DEF r

LEMMA AddOneIsAppend ==
  ASSUME NEW S, NEW q \in Seq(S), NEW m \in S
  PROVE  q \o <<m>> = Append(q, m)
<1>1. <<m>> \in Seq(S) /\ Len(<<m>>) = 1 /\ <<m>>[1] = m
  OBVIOUS
<1>2. /\ q \o <<m>> \in Seq(S) /\ Len(q \o <<m>>) = Len(q) + 1
      /\ \A i \in 1 .. Len(q) + 1 : (q \o <<m>>)[i] =
           IF i <= Len(q) THEN q[i] ELSE <<m>>[i - Len(q)]
  BY <1>1, ConcatProperties
<1>3. /\ Append(q, m) \in Seq(S) /\ Len(Append(q, m)) = Len(q) + 1
      /\ \A i \in 1 .. Len(q) : Append(q, m)[i] = q[i]
      /\ Append(q, m)[Len(q) + 1] = m
  BY AppendProperties
<1>4. \A i \in 1 .. Len(q) + 1 : (q \o <<m>>)[i] = Append(q, m)[i]
  <2> SUFFICES ASSUME NEW i \in 1 .. Len(q) + 1
               PROVE  (q \o <<m>>)[i] = Append(q, m)[i]
    OBVIOUS
  <2>0. Len(q) \in Nat
    BY LenProperties
  <2>1. CASE i <= Len(q)
    <3>1. i \in 1 .. Len(q)
      BY <2>0, <2>1
    <3>2. QED
      BY <1>2, <1>3, <2>1, <3>1
  <2>2. CASE ~(i <= Len(q))
    <3>1. i = Len(q) + 1 /\ i - Len(q) = 1
      BY <2>0, <2>2
    <3>2. QED
      BY <1>1, <1>2, <1>3, <2>2, <3>1
  <2>3. QED
    BY <2>1, <2>2
<1>5. QED
  BY <1>2, <1>3, <1>4, SeqEqual

LEMMA ReadCall ==
  ASSUME NEW S, NEW q \in Seq(S), q # <<>>
  PROVE  Among(q) = {Head(q)} \cup Among(Tail(q))
<1> DEFINE r == Tail(q)
<1>1. /\ 1 \in DOMAIN q /\ q[1] = Head(q) /\ DOMAIN q \subseteq Nat
      /\ \A i \in DOMAIN r : i + 1 \in DOMAIN q /\ r[i] = q[i + 1]
      /\ \A i \in DOMAIN q : i # 1 => i - 1 \in DOMAIN r
  BY TailIndices
<1>2. \A i \in DOMAIN q : i # 1 => r[i - 1] = q[i]
  BY <1>1
<1> HIDE DEF r
<1>3. Among(r) \subseteq Among(q) /\ Head(q) \in Among(q)
  BY <1>1 DEF Among
<1>4. Among(q) \subseteq {Head(q)} \cup Among(r)
  BY <1>1, <1>2 DEF Among
<1>5. QED
  BY <1>3, <1>4 DEF r

LEMMA ListsOfCalls ==
  /\ Among(<<>>) = {}
  /\ \A a : Among(<<a>>) = {a}
  /\ \A a, b : Among(<<a, b>>) = {a, b}
  /\ \A a, b, c : Among(<<a, b, c>>) = {a, b, c}
  /\ \A a, b, c, d : Among(<<a, b, c, d>>) = {a, b, c, d}
<1>1. /\ DOMAIN <<>> = {}
      /\ \A a : DOMAIN <<a>> = {1}
      /\ \A a, b : DOMAIN <<a, b>> = {1, 2}
      /\ \A a, b, c : DOMAIN <<a, b, c>> = {1, 2, 3}
      /\ \A a, b, c, d : DOMAIN <<a, b, c, d>> = {1, 2, 3, 4}
  OBVIOUS
<1>2. QED
  BY <1>1 DEF Among

LEMMA JoinedCalls ==
  ASSUME NEW S, NEW p \in Seq(S), NEW q \in Seq(S)
  PROVE  Among(p \o q) = Among(p) \cup Among(q)
<1> DEFINE r == p \o q
           m == Len(p)
           n == Len(q)
<1>1. m \in Nat /\ n \in Nat /\ DOMAIN p = 1 .. m /\ DOMAIN q = 1 .. n
  BY LenProperties
<1>2. /\ r \in Seq(S) /\ Len(r) = m + n
      /\ \A i \in 1 .. m + n : r[i] = IF i <= m THEN p[i] ELSE q[i - m]
  BY ConcatProperties
<1>3. DOMAIN r = 1 .. m + n
  BY <1>2, LenProperties
<1> HIDE DEF r, m, n
<1>4. \A i \in 1 .. m : i \in 1 .. m + n /\ r[i] = p[i]
  BY <1>1, <1>2
<1>5. \A i \in 1 .. n : i + m \in 1 .. m + n /\ r[i + m] = q[i]
  BY <1>1, <1>2
<1>6. \A i \in 1 .. m + n : \/ i \in 1 .. m
                            \/ i - m \in 1 .. n /\ r[i] = q[i - m]
  BY <1>1, <1>2
<1>7. Among(p) \cup Among(q) \subseteq Among(r)
  BY <1>1, <1>3, <1>4, <1>5 DEF Among
<1>8. Among(r) \subseteq Among(p) \cup Among(q)
  BY <1>1, <1>3, <1>4, <1>6 DEF Among
<1>9. QED
  BY <1>7, <1>8 DEF r

-----------------------------------------------------------------------------
(* The sockets of a connector: the invariant.                              *)

Hello == "client_connected"
Calls(t) == Among(tasks[t].todo)

\* The machine of s has been told to destroy its VM, and the backend has not
\* taken the answer up.
DestroyPending(s) == Carries(down[s], "destroy_vm") \/ Carries(up[s], "vm_destroyed")

\* A connector opens its sockets in turn, one after the other is given up.
OneConnection ==
  \A v \in Vms, m, n \in 1 .. MaxSessions :
    m < n /\ line[<<v, n>>] # "unused" => line[<<v, m>>] = "closed"

DeadAreEmpty == \A s \in Sockets : line[s] \in {"unused", "closed"} => up[s] = <<>>

\* Orders and answers are about the VM of the machine, or about none when a
\* build outlived a destroy.
UpOf(v) == {m \in UpMessage : /\ m.vm \in {v, None}
                              /\ m.type = "vm_destroyed" => m.vm = v}
DownOf(v) == {m \in DownMessage : m.vm = v}
OwnMessages ==
  /\ \A s \in Sockets : up[s] \in Seq(UpOf(Owner(s))) /\ down[s] \in Seq(DownOf(Owner(s)))
  /\ \A v \in Vms : agent[v].currentVm \in {v, None}

\* A machine introduces itself first, and is asked to destroy once.
QueuesInOrder ==
  \A s \in Sockets :
    /\ Leads(up[s], Hello)
    /\ Single(down[s], "destroy_vm") /\ Single(up[s], "vm_destroyed")
    /\ ~(Carries(down[s], "destroy_vm") /\ Carries(up[s], "vm_destroyed"))

\* Until the backend has read the introduction it knows nothing of the socket.
HelloIsNews ==
  \A s \in Sockets : Carries(up[s], Hello) =>
    /\ ~Registered(s) /\ ~DestroyPending(s)
    /\ \A t \in Tasks : Do("connect") \in Calls(t) => tasks[t].socket # s

LineInv == OneConnection /\ DeadAreEmpty /\ OwnMessages /\ QueuesInOrder /\ HelloIsNews

NoNewDestroys == \A s \in Sockets : DestroyPending(s)' => DestroyPending(s)

LEMMA LineInvInit == Init => LineInv
<1> SUFFICES ASSUME Init PROVE LineInv
  OBVIOUS
<1> USE DEF Init, AgentInit
<1>1. \A s \in Sockets : up[s] = <<>> /\ down[s] = <<>> /\ line[s] = "unused"
  OBVIOUS
<1>2. \A type : ~Carries(<<>>, type) /\ Single(<<>>, type) /\ Leads(<<>>, type)
  BY DEF Carries, Single, Leads
<1>3. OneConnection
  BY <1>1, SocketNames DEF OneConnection
<1>4. OwnMessages
  <2>1. \A S : <<>> \in Seq(S)
    BY EmptySeq
  <2>2. QED
    BY <1>1, <2>1 DEF OwnMessages
<1>5. DeadAreEmpty /\ QueuesInOrder /\ HelloIsNews
  BY <1>1, <1>2 DEF DeadAreEmpty, QueuesInOrder, HelloIsNews
<1>6. QED
  BY <1>3, <1>4, <1>5 DEF LineInv

\* Two sockets of a machine are not both in use.
LEMMA OneInUse ==
  ASSUME AgentTypeOK, LineInv, NEW r \in Sockets, NEW s \in Sockets, Owner(r) = Owner(s),
         line[r] \notin {"unused", "closed"}, line[s] \notin {"unused", "closed"}
  PROVE  r = s
<1>1. /\ r = <<Owner(s), r[2]>> /\ s = <<Owner(s), s[2]>> /\ Owner(s) \in Vms
      /\ r[2] \in 1 .. MaxSessions /\ s[2] \in 1 .. MaxSessions
  BY SocketNames
<1>2. ~(r[2] < s[2]) /\ ~(s[2] < r[2])
  BY <1>1 DEF LineInv, OneConnection
<1>3. r[2] = s[2]
  <2>1. r[2] \in Int /\ s[2] \in Int
    BY <1>1, RecordsAssumption
  <2>2. QED
    BY <1>2, <2>1
<1>4. QED
  BY <1>1, <1>3

\* A pending destroy is on the one socket in use.
LEMMA PendingIsInUse ==
  ASSUME AckInv, LineInv, NEW s \in Sockets, DestroyPending(s)
  PROVE  line[s] \notin {"unused", "closed"}
<1>1. \A type : ~Carries(<<>>, type)
  BY DEF Carries
<1>2. QED
  BY <1>1 DEF AckInv, OnlyOpenCarriesOrders, LineInv, DeadAreEmpty, DestroyPending

-----------------------------------------------------------------------------
(* The sockets of a connector: its steps.                                  *)

\* An answer goes up on the open socket, behind what is on its way there.
LEMMA SendUpKeepsOrder ==
  ASSUME TypeOK, AckInv, LineInv, NEW v \in Vms, NEW m \in UpOf(v), SendUp(v, <<m>>),
         m.type # Hello
  PROVE  /\ DeadAreEmpty' \/ line' # line
         /\ \A s \in Sockets :
              /\ up'[s] \in Seq(UpOf(Owner(s)))
              /\ Leads(up'[s], Hello)
              /\ Carries(up'[s], Hello) => Carries(up[s], Hello)
              /\ Single(up'[s], "vm_destroyed") \/
                   (m.type = "vm_destroyed" /\ Carries(up[SocketOf(v)], "vm_destroyed"))
              /\ Carries(up'[s], "vm_destroyed") =>
                   \/ Carries(up[s], "vm_destroyed")
                   \/ m.type = "vm_destroyed" /\ s = SocketOf(v)
<1> DEFINE t == SocketOf(v)
<1>0. /\ AgentTypeOK /\ up \in [Sockets -> Seq(UpMessage)]
      /\ \A s \in Sockets : up[s] \in Seq(UpOf(Owner(s)))
  BY DEF TypeOK, AgentTypeOK, LineInv, OwnMessages
<1>1. CASE ~Online(v)
  <2>1. up' = up
    BY <1>1 DEF SendUp
  <2>2. \A s \in Sockets : Leads(up[s], Hello) /\ Single(up[s], "vm_destroyed")
    BY DEF LineInv, QueuesInOrder
  <2>3. DeadAreEmpty' \/ line' # line
    BY <2>1 DEF LineInv, DeadAreEmpty
  <2>4. QED
    BY <1>0, <2>1, <2>2, <2>3
<1>2. CASE Online(v)
  <2>1. t \in Sockets /\ Owner(t) = v
    BY <1>0, <1>2, SocketType DEF SocketOf, Owner
  <2>2. line[t] = "open"
    BY <1>0, <1>2, SocketNames, RecordsAssumption
       DEF AckInv, OpenIsCurrent, SocketOf, Online, AgentTypeOK, AgentState
  <2>3. /\ up'[t] = Append(up[t], m) /\ up[t] \in Seq(UpOf(v))
        /\ \A s \in Sockets : s # t => up'[s] = up[s]
    <3>1. up[t] \in Seq(UpOf(v))
      BY <1>0, <2>1
    <3>2. up' = [up EXCEPT ![t] = @ \o <<m>>]
      BY <1>2 DEF SendUp
    <3>3. up[t] \o <<m>> = Append(up[t], m)
      BY <3>1, AddOneIsAppend
    <3>4. QED
      BY <1>0, <2>1, <3>1, <3>2, <3>3
  <2>4. up'[t] \in Seq(UpOf(v))
    BY <2>3, AppendProperties
  <2>5. /\ Leads(up'[t], Hello)
        /\ Carries(up'[t], Hello) => Carries(up[t], Hello)
        /\ Single(up'[t], "vm_destroyed") \/
             (m.type = "vm_destroyed" /\ Carries(up[t], "vm_destroyed"))
        /\ Carries(up'[t], "vm_destroyed") =>
             Carries(up[t], "vm_destroyed") \/ m.type = "vm_destroyed"
    <3>1. Leads(up[t], Hello) /\ Single(up[t], "vm_destroyed")
      BY <2>1 DEF LineInv, QueuesInOrder
    <3>2. /\ Leads(Append(up[t], m), Hello)
          /\ Carries(Append(up[t], m), Hello) => Carries(up[t], Hello)
      BY <2>3, <3>1, AddLast
    <3>3. /\ Single(Append(up[t], m), "vm_destroyed") \/
               (m.type = "vm_destroyed" /\ Carries(up[t], "vm_destroyed"))
          /\ Carries(Append(up[t], m), "vm_destroyed") =>
               Carries(up[t], "vm_destroyed") \/ m.type = "vm_destroyed"
      BY <2>3, <3>1, AddLast
    <3>4. QED
      BY <2>3, <3>2, <3>3
  <2>6. DeadAreEmpty' \/ line' # line
    BY <2>2, <2>3 DEF LineInv, DeadAreEmpty
  <2>7. \A s \in Sockets : s # t => /\ up'[s] \in Seq(UpOf(Owner(s)))
                                    /\ Leads(up'[s], Hello) /\ Single(up'[s], "vm_destroyed")
    BY <1>0, <2>3 DEF LineInv, QueuesInOrder
  <2>8. QED
    BY <2>1, <2>3, <2>4, <2>5, <2>6, <2>7
<1>3. QED
  BY <1>1, <1>2

\* An order is read off the open socket.
LEMMA ReceivesKeepsOrder ==
  ASSUME TypeOK, LineInv, NEW v \in Vms, NEW type, Receives(v, type), Consume(v)
  PROVE  /\ SocketOf(v) \in Sockets /\ Owner(SocketOf(v)) = v
         /\ Received(v) \in DownOf(v) /\ Received(v).type = type
         /\ Carries(down[SocketOf(v)], type)
         /\ Single(down[SocketOf(v)], type) => ~Carries(down'[SocketOf(v)], type)
         /\ \A s \in Sockets :
              /\ s # SocketOf(v) => down'[s] = down[s]
              /\ down'[s] \in Seq(DownOf(Owner(s)))
              /\ Single(down'[s], "destroy_vm")
              /\ Carries(down'[s], "destroy_vm") => Carries(down[s], "destroy_vm")
<1> DEFINE t == SocketOf(v)
<1>0. /\ AgentTypeOK /\ down \in [Sockets -> Seq(DownMessage)]
      /\ \A s \in Sockets : down[s] \in Seq(DownOf(Owner(s)))
  BY DEF TypeOK, AgentTypeOK, LineInv, OwnMessages
<1>1. t \in Sockets /\ Owner(t) = v /\ down[t] # <<>> /\ down[t] \in Seq(DownOf(v))
  BY <1>0, SocketType DEF Receives, SocketOf, Owner
<1>2. down'[t] = Tail(down[t]) /\ \A s \in Sockets : s # t => down'[s] = down[s]
  BY <1>0, <1>1 DEF Consume
<1>3. Received(v) \in DownOf(v) /\ Received(v).type = type /\ down'[t] \in Seq(DownOf(v))
  BY <1>1, <1>2, HeadTailProperties DEF Received, Receives
<1>4. /\ Carries(down[t], type)
      /\ Single(down[t], type) => ~Carries(down'[t], type)
      /\ Single(down'[t], "destroy_vm")
      /\ Carries(down'[t], "destroy_vm") => Carries(down[t], "destroy_vm")
  <2>1. Head(down[t]).type = type
    BY DEF Receives
  <2>2. Single(down[t], "destroy_vm")
    BY <1>1 DEF LineInv, QueuesInOrder
  <2>3. QED
    BY <1>1, <1>2, <2>1, <2>2, ReadFirst
<1>5. QED
  BY <1>0, <1>1, <1>2, <1>3, <1>4 DEF LineInv, QueuesInOrder

\* What is left to show when a machine sends or reads: its own VM, and that no
\* destroy is under way that was not.
LEMMA QueuesSuffice ==
  ASSUME LineInv, UNCHANGED <<line, clients, tasks>>, NoNewDestroys, DeadAreEmpty',
         OwnMessages', QueuesInOrder',
         \A s \in Sockets : Carries(up'[s], Hello) => Carries(up[s], Hello)
  PROVE  LineInv'
<1>1. OneConnection'
  BY DEF LineInv, OneConnection
<1>2. \A s \in Sockets : Registered(s)' <=> Registered(s)
  BY DEF Registered
<1>3. HelloIsNews'
  BY <1>2 DEF LineInv, HelloIsNews, NoNewDestroys, Calls
<1>4. QED
  BY <1>1, <1>3 DEF LineInv

LEMMA ConnectTurn ==
  ASSUME TypeOK, AckInv, LineInv, TakeTurns, NEW v \in Vms, AgentConnect(v),
         UNCHANGED <<clients, tasks>>
  PROVE  LineInv' /\ NoNewDestroys
<1>0. AgentTypeOK
  BY DEF TypeOK
<1> DEFINE hello == Message("client_connected", None)
<1>1. PICK n \in 1 .. MaxSessions :
        /\ line[<<v, n>>] = "unused"
        /\ \A m \in 1 .. n - 1 : line[<<v, m>>] = "closed"
        /\ line' = [line EXCEPT ![<<v, n>>] = "open"]
        /\ agent' = [agent EXCEPT ![v].session = n, ![v].registered = FALSE]
        /\ up' = [up EXCEPT ![<<v, n>>] = <<hello>>]
        /\ UNCHANGED down
  BY DEF AgentConnect, TakeTurns
<1> DEFINE new == <<v, n>>
<1>2. new \in Sockets /\ Owner(new) = v /\ down[new] = <<>> /\ ~Registered(new)
      /\ \A t \in Tasks : tasks[t].socket # new
  BY <1>1, SocketNames DEF AckInv, OnlyOpenCarriesOrders, UnusedIsUnknown
<1>3. /\ up'[new] = <<hello>> /\ line'[new] = "open"
      /\ \A s \in Sockets : s # new => up'[s] = up[s] /\ line'[s] = line[s]
  BY <1>0, <1>1, <1>2 DEF AgentTypeOK
<1>4. hello \in UpOf(v) /\ hello.type = Hello
  BY UpTypes DEF Message, UpOf, UpType, Hello
<1>5. /\ <<hello>> \in Seq(UpOf(v))
      /\ Leads(<<hello>>, Hello) /\ Single(<<hello>>, "vm_destroyed")
      /\ ~Carries(<<hello>>, "vm_destroyed")
  <2>1. DOMAIN <<hello>> = {1} /\ <<hello>>[1] = hello /\ hello.type # "vm_destroyed"
    BY <1>4 DEF Hello
  <2>2. <<hello>> \in Seq(UpOf(v))
    BY <1>4
  <2> HIDE DEF hello
  <2>3. QED
    BY <2>1, <2>2 DEF Leads, Single, Carries
<1> HIDE DEF hello, new
<1>6. NoNewDestroys
  BY <1>1, <1>3, <1>5 DEF NoNewDestroys, DestroyPending
<1>7. OneConnection'
  <2> SUFFICES ASSUME NEW w \in Vms, NEW l \in 1 .. MaxSessions, NEW k \in 1 .. MaxSessions,
                      l < k, line'[<<w, k>>] # "unused"
               PROVE  line'[<<w, l>>] = "closed"
    BY DEF OneConnection
  <2>1. <<w, k>> \in Sockets /\ <<w, l>> \in Sockets
    BY SocketNames
  <2>2. CASE <<w, k>> = new
    <3>1. w = v /\ k = n /\ <<w, l>> # new
      BY <2>2, RecordsAssumption DEF new
    <3>2. l \in 1 .. n - 1
      BY <3>1, RecordsAssumption
    <3>3. QED
      BY <1>1, <1>3, <2>1, <3>1, <3>2
  <2>3. CASE <<w, k>> # new
    <3>1. line[<<w, l>>] = "closed"
      BY <1>3, <2>1, <2>3 DEF LineInv, OneConnection
    <3>2. QED
      BY <1>1, <1>3, <2>1, <3>1 DEF new
  <2>4. QED
    BY <2>2, <2>3
<1>8. DeadAreEmpty'
  BY <1>3 DEF LineInv, DeadAreEmpty
<1>9. OwnMessages'
  <2>1. \A w \in Vms : agent'[w].currentVm = agent[w].currentVm
    BY <1>0, <1>1 DEF AgentTypeOK, AgentState
  <2>2. QED
    BY <1>1, <1>2, <1>3, <1>5, <2>1 DEF LineInv, OwnMessages
<1>10. QueuesInOrder'
  <2>1. ~Carries(down[new], "destroy_vm")
    BY <1>2 DEF Carries
  <2>2. QED
    BY <1>1, <1>2, <1>3, <1>5, <2>1 DEF LineInv, QueuesInOrder
<1>11. HelloIsNews'
  <2>1. \A s \in Sockets : Registered(s)' <=> Registered(s)
    BY DEF Registered
  <2>2. ~DestroyPending(new)'
    BY <1>1, <1>2, <1>3, <1>5 DEF DestroyPending, Carries
  <2>3. QED
    BY <1>2, <1>3, <1>6, <2>1, <2>2 DEF LineInv, HelloIsNews, NoNewDestroys, Calls
<1>12. QED
  BY <1>6, <1>7, <1>8, <1>9, <1>10, <1>11 DEF LineInv

LEMMA LoseTurn ==
  ASSUME TypeOK, AckInv, LineInv, NEW v \in Vms, LoseConnection(v),
         UNCHANGED <<clients, tasks>>
  PROVE  LineInv' /\ NoNewDestroys
<1> DEFINE old == SocketOf(v)
<1>0. AgentTypeOK /\ old \in Sockets /\ Owner(old) = v
  BY SocketType DEF TypeOK, LoseConnection, SocketOf, Owner
<1>1. /\ line' = [line EXCEPT ![old] = "lost"]
      /\ down' = [down EXCEPT ![old] = <<>>]
      /\ agent' = [agent EXCEPT ![v].session = 0, ![v].registered = FALSE]
      /\ up' = up
  BY DEF LoseConnection
<1>2. line[old] = "open"
  BY <1>0, SocketNames, RecordsAssumption
     DEF AckInv, OpenIsCurrent, SocketOf, Online, AgentTypeOK, AgentState, LoseConnection
<1> HIDE DEF old
<1>3. /\ line'[old] = "lost" /\ down'[old] = <<>>
      /\ \A s \in Sockets : s # old => line'[s] = line[s] /\ down'[s] = down[s]
  BY <1>0, <1>1 DEF AgentTypeOK
<1>4. <<>> \in Seq(DownOf(v)) /\ Single(<<>>, "destroy_vm") /\ ~Carries(<<>>, "destroy_vm")
  BY EmptySeq DEF Single, Carries
<1>5. NoNewDestroys
  BY <1>1, <1>3, <1>4 DEF NoNewDestroys, DestroyPending
<1>6. OneConnection'
  <2>1. \A s \in Sockets : /\ line'[s] # "unused" => line[s] # "unused"
                           /\ line[s] = "closed" => line'[s] = "closed"
    BY <1>2, <1>3
  <2>2. QED
    BY <2>1, SocketNames DEF LineInv, OneConnection
<1>7. DeadAreEmpty'
  BY <1>1, <1>3 DEF LineInv, DeadAreEmpty
<1>8. OwnMessages'
  <2>1. \A w \in Vms : agent'[w].currentVm = agent[w].currentVm
    BY <1>0, <1>1 DEF AgentTypeOK, AgentState
  <2>2. QED
    BY <1>0, <1>1, <1>3, <1>4, <2>1 DEF LineInv, OwnMessages
<1>9. QueuesInOrder'
  BY <1>1, <1>3, <1>4 DEF LineInv, QueuesInOrder
<1>10. HelloIsNews'
  <2>1. \A s \in Sockets : Registered(s)' <=> Registered(s)
    BY DEF Registered
  <2>2. QED
    BY <1>1, <1>5, <2>1 DEF LineInv, HelloIsNews, NoNewDestroys, Calls
<1>11. QED
  BY <1>5, <1>6, <1>7, <1>8, <1>9, <1>10 DEF LineInv

LEMMA ReadTurn ==
  ASSUME TypeOK, AckInv, LineInv, NEW v \in Vms,
         AgentAcknowledged(v) \/ AgentProvision(v),
         UNCHANGED <<clients, tasks>>
  PROVE  LineInv' /\ NoNewDestroys
<1>0. AgentTypeOK
  BY DEF TypeOK
<1>1. PICK type : /\ Receives(v, type) /\ Consume(v) /\ UNCHANGED line
                  /\ type # "destroy_vm"
  BY DEF AgentAcknowledged, AgentProvision
<1>2. /\ Received(v) \in DownOf(v)
      /\ \A s \in Sockets :
           /\ down'[s] \in Seq(DownOf(Owner(s)))
           /\ Single(down'[s], "destroy_vm")
           /\ Carries(down'[s], "destroy_vm") => Carries(down[s], "destroy_vm")
  BY <1>1, ReceivesKeepsOrder
<1>3. \A w \in Vms : agent'[w].currentVm \in {w, None}
  <2>1. Received(v).vm = v
    BY <1>2 DEF DownOf
  <2>2. \A w \in Vms : agent'[w].currentVm = IF w = v THEN v ELSE agent[w].currentVm
    BY <1>0, <2>1 DEF AgentAcknowledged, AgentProvision, AgentTypeOK, AgentState
  <2>3. QED
    BY <2>2 DEF LineInv, OwnMessages
<1>4. /\ DeadAreEmpty'
      /\ \A s \in Sockets :
              /\ up'[s] \in Seq(UpOf(Owner(s)))
              /\ Leads(up'[s], Hello)
              /\ Carries(up'[s], Hello) => Carries(up[s], Hello)
              /\ Single(up'[s], "vm_destroyed")
              /\ Carries(up'[s], "vm_destroyed") => Carries(up[s], "vm_destroyed")
  <2>1. CASE AgentAcknowledged(v)
    BY <2>1 DEF AgentAcknowledged, LineInv, DeadAreEmpty, QueuesInOrder, OwnMessages
  <2>2. CASE AgentProvision(v)
    <3> DEFINE m == Message("vm_provisioning_started", Received(v).vm)
    <3>1. m \in UpOf(v) /\ m.type # Hello /\ m.type # "vm_destroyed"
      BY <1>2, UpTypes DEF Message, UpOf, UpType, Hello, DownOf
    <3>2. SendUp(v, <<m>>)
      BY <2>2 DEF AgentProvision
    <3> HIDE DEF m
    <3>3. QED
      BY <1>1, <3>1, <3>2, SendUpKeepsOrder
  <2>3. QED
    BY <2>1, <2>2
<1>5. NoNewDestroys
  BY <1>2, <1>4 DEF NoNewDestroys, DestroyPending
<1>6. OwnMessages' /\ QueuesInOrder'
  BY <1>2, <1>3, <1>4 DEF OwnMessages, QueuesInOrder, LineInv
<1>7. QED
  BY <1>1, <1>4, <1>5, <1>6, QueuesSuffice

LEMMA ReportTurn ==
  ASSUME TypeOK, AckInv, LineInv, NEW v \in Vms, UNCHANGED <<clients, tasks>>,
         \/ \E result \in {"vm_provisioned", "vm_provisioning_failed"} :
              AgentProvisionDone(v, result)
         \/ AgentHeartbeat(v)
  PROVE  LineInv' /\ NoNewDestroys
<1>0. AgentTypeOK
  BY DEF TypeOK
<1>1. PICK m \in UpOf(v) : m.type # Hello /\ m.type # "vm_destroyed" /\ SendUp(v, <<m>>)
  <2>1. ASSUME NEW type \in {"vm_provisioned", "vm_provisioning_failed", "heartbeat"},
               NEW w \in {v, None}
        PROVE  /\ Message(type, w) \in UpOf(v)
               /\ Message(type, w).type # Hello /\ Message(type, w).type # "vm_destroyed"
    BY UpTypes DEF Message, UpOf, UpType, Hello
  <2>2. agent[v].currentVm \in {v, None}
    BY DEF LineInv, OwnMessages
  <2>3. CASE AgentHeartbeat(v)
    BY <2>1, <2>3 DEF AgentHeartbeat
  <2>4. CASE \E result \in {"vm_provisioned", "vm_provisioning_failed"} :
               AgentProvisionDone(v, result)
    BY <2>1, <2>2, <2>4 DEF AgentProvisionDone
  <2>5. QED
    BY <2>3, <2>4
<1>2. UNCHANGED <<line, down>>
  BY DEF AgentProvisionDone, AgentHeartbeat
<1>3. /\ DeadAreEmpty'
      /\ \A s \in Sockets :
              /\ up'[s] \in Seq(UpOf(Owner(s)))
              /\ Leads(up'[s], Hello)
              /\ Carries(up'[s], Hello) => Carries(up[s], Hello)
              /\ Single(up'[s], "vm_destroyed")
              /\ Carries(up'[s], "vm_destroyed") => Carries(up[s], "vm_destroyed")
  BY <1>1, <1>2, SendUpKeepsOrder
<1>4. \A w \in Vms : agent'[w].currentVm = agent[w].currentVm
  <2>1. agent' = agent \/ agent' = [agent EXCEPT ![v].builds = @ - 1]
    BY DEF AgentProvisionDone, AgentHeartbeat
  <2>2. agent \in [Vms -> AgentState]
    BY <1>0 DEF AgentTypeOK
  <2>3. QED
    BY <2>1, <2>2 DEF AgentState
<1>5. NoNewDestroys
  BY <1>2, <1>3 DEF NoNewDestroys, DestroyPending
<1>6. OwnMessages' /\ QueuesInOrder'
  BY <1>2, <1>3, <1>4 DEF OwnMessages, QueuesInOrder, LineInv
<1>7. QED
  BY <1>2, <1>3, <1>5, <1>6, QueuesSuffice

\* The order to destroy becomes its answer, on the same socket.
LEMMA DestroyTurn ==
  ASSUME TypeOK, AckInv, LineInv, NEW v \in Vms, AgentDestroy(v),
         UNCHANGED <<clients, tasks>>
  PROVE  LineInv' /\ NoNewDestroys
<1> DEFINE t == SocketOf(v)
           m == Message("vm_destroyed", Received(v).vm)
<1>0. AgentTypeOK
  BY DEF TypeOK
<1>1. /\ Receives(v, "destroy_vm") /\ Consume(v) /\ UNCHANGED line
      /\ SendUp(v, <<m>>)
  BY DEF AgentDestroy
<1>2. /\ Received(v) \in DownOf(v) /\ t \in Sockets /\ Owner(t) = v
      /\ Carries(down[t], "destroy_vm")
      /\ Single(down[t], "destroy_vm") => ~Carries(down'[t], "destroy_vm")
      /\ \A s \in Sockets :
           /\ down'[s] \in Seq(DownOf(Owner(s)))
           /\ Single(down'[s], "destroy_vm")
           /\ Carries(down'[s], "destroy_vm") => Carries(down[s], "destroy_vm")
  BY <1>1, ReceivesKeepsOrder
<1>3. Single(down[t], "destroy_vm") /\ ~Carries(up[t], "vm_destroyed")
  BY <1>2 DEF LineInv, QueuesInOrder
<1>4. \A w \in Vms : agent'[w].currentVm \in {w, None}
  <2>1. \A w \in Vms : agent'[w].currentVm = IF w = v THEN None ELSE agent[w].currentVm
    BY <1>0 DEF AgentDestroy, AgentTypeOK, AgentState
  <2>2. QED
    BY <2>1 DEF LineInv, OwnMessages
<1>5. m \in UpOf(v) /\ m.type = "vm_destroyed" /\ m.type # Hello
  BY <1>2, UpTypes DEF Message, UpOf, UpType, Hello, DownOf
<1> HIDE DEF m, t
<1>6. /\ DeadAreEmpty'
      /\ \A s \in Sockets :
              /\ up'[s] \in Seq(UpOf(Owner(s)))
              /\ Leads(up'[s], Hello)
              /\ Carries(up'[s], Hello) => Carries(up[s], Hello)
              /\ Single(up'[s], "vm_destroyed")
              /\ Carries(up'[s], "vm_destroyed") => Carries(up[s], "vm_destroyed") \/ s = t
  BY <1>1, <1>3, <1>5, SendUpKeepsOrder DEF t
<1>7. NoNewDestroys
  BY <1>2, <1>6 DEF NoNewDestroys, DestroyPending
<1>8. OwnMessages' /\ QueuesInOrder'
  BY <1>2, <1>3, <1>4, <1>6 DEF OwnMessages, QueuesInOrder, LineInv
<1>9. QED
  BY <1>1, <1>6, <1>7, <1>8, QueuesSuffice

LEMMA ConnectorTurn ==
  ASSUME TypeOK, AckInv, LineInv, TakeTurns, NEW v \in Vms, AgentNext(v)
  PROVE  LineInv' /\ NoNewDestroys
<1>1. UNCHANGED <<clients, tasks>>
  BY DEF AgentNext
<1>2. CASE AgentConnect(v)
  BY <1>1, <1>2, ConnectTurn
<1>3. CASE LoseConnection(v)
  BY <1>1, <1>3, LoseTurn
<1>4. CASE AgentHeartbeat(v)
  BY <1>1, <1>4, ReportTurn
<1>5. CASE AgentStep(v)
  BY <1>1, <1>5, ReadTurn, ReportTurn, DestroyTurn DEF AgentStep
<1>6. QED
  BY <1>2, <1>3, <1>4, <1>5 DEF AgentNext

-----------------------------------------------------------------------------
(* The sockets of a connector: what handlers do to them.                   *)

\* Handlers that are about to register a socket were so before.
NoNewEntries ==
  /\ \A s \in Sockets : Registered(s)' => Registered(s)
  /\ \A t \in Tasks : Do("connect") \in Calls(t)' =>
       Do("connect") \in Calls(t) /\ tasks'[t].socket = tasks[t].socket

LEMMA SameLines ==
  ASSUME LineInv, UNCHANGED <<agent, line, up, down>>, NoNewEntries
  PROVE  LineInv' /\ \A s \in Sockets : DestroyPending(s)' <=> DestroyPending(s)
<1>1. \A s \in Sockets : DestroyPending(s)' <=> DestroyPending(s)
  BY DEF DestroyPending
<1>2. OneConnection' /\ DeadAreEmpty' /\ OwnMessages' /\ QueuesInOrder'
  BY DEF LineInv, OneConnection, DeadAreEmpty, OwnMessages, QueuesInOrder
<1>3. HelloIsNews'
  BY <1>1 DEF LineInv, HelloIsNews, NoNewEntries
<1>4. QED
  BY <1>1, <1>2, <1>3 DEF LineInv

\* Taking up an event; only an introduction leads to an entry.
LEMMA DeliverTurn ==
  ASSUME TypeOK, AckInv, LineInv, NEW s \in Sockets, NEW type, Delivers(s, type),
         UNCHANGED <<agent, line, down, clients>>,
         \A t \in Tasks : Do("connect") \in Calls(t)' =>
           \/ Do("connect") \in Calls(t) /\ tasks'[t].socket = tasks[t].socket
           \/ type = Hello /\ tasks'[t].socket = s
  PROVE  /\ LineInv' /\ NoNewDestroys
         /\ EventVm(s) \in {Owner(s), None}
         /\ type = "vm_destroyed" => /\ EventVm(s) = Owner(s) /\ DestroyPending(s)
                                     /\ \A r \in Sockets : Owner(r) = Owner(s) =>
                                          ~DestroyPending(r)'
         /\ type = Hello => /\ ~Registered(s)
                            /\ \A r \in Sockets : Owner(r) = Owner(s) => ~DestroyPending(r)
<1>0. AgentTypeOK /\ up \in [Sockets -> Seq(UpMessage)]
  BY DEF TypeOK, AgentTypeOK
<1>1. /\ up[s] \in Seq(UpOf(Owner(s))) /\ up[s] # <<>> /\ Head(up[s]).type = type
      /\ up'[s] = Tail(up[s]) /\ \A r \in Sockets : r # s => up'[r] = up[r]
      /\ line[s] \notin {"unused", "closed"}
  BY <1>0 DEF LineInv, OwnMessages, Delivers
<1>2. Head(up[s]) \in UpOf(Owner(s)) /\ up'[s] \in Seq(UpOf(Owner(s)))
  BY <1>1, HeadTailProperties
<1>3. /\ Carries(up[s], type)
      /\ ~Carries(up'[s], Hello) /\ Leads(up'[s], Hello)
      /\ Single(up'[s], "vm_destroyed")
      /\ Carries(up'[s], "vm_destroyed") => Carries(up[s], "vm_destroyed")
      /\ type = "vm_destroyed" => ~Carries(up'[s], "vm_destroyed")
  BY <1>1, ReadFirst DEF LineInv, QueuesInOrder
<1>4. NoNewDestroys
  BY <1>1, <1>3 DEF NoNewDestroys, DestroyPending
<1>5. OneConnection' /\ DeadAreEmpty'
  BY <1>1 DEF LineInv, OneConnection, DeadAreEmpty
<1>6. OwnMessages' /\ QueuesInOrder'
  BY <1>1, <1>2, <1>3 DEF LineInv, OwnMessages, QueuesInOrder
<1>7. HelloIsNews'
  <2>1. \A r \in Sockets : Registered(r)' <=> Registered(r)
    BY DEF Registered
  <2>2. QED
    BY <1>1, <1>3, <1>4, <2>1 DEF LineInv, HelloIsNews, NoNewDestroys
<1>8. \A r \in Sockets : Owner(r) = Owner(s) /\ r # s => ~DestroyPending(r)
  BY <1>0, <1>1, OneInUse, PendingIsInUse
<1>9. EventVm(s) \in {Owner(s), None} /\ (type = "vm_destroyed" => EventVm(s) = Owner(s))
  BY <1>1, <1>2 DEF UpOf, EventVm
<1>10. type = "vm_destroyed" => DestroyPending(s) /\ ~DestroyPending(s)'
  BY <1>3 DEF LineInv, QueuesInOrder, DestroyPending
<1>11. type = Hello => ~Registered(s) /\ ~DestroyPending(s)
  BY <1>3 DEF LineInv, HelloIsNews
<1>12. QED
  BY <1>4, <1>5, <1>6, <1>7, <1>8, <1>9, <1>10, <1>11 DEF LineInv, NoNewDestroys

LEMMA GiveUpTurn ==
  ASSUME TypeOK, AckInv, LineInv, NEW t \in Tasks, NEW s \in Sockets, HandleDisconnect(t, s),
         NoNewEntries
  PROVE  /\ LineInv' /\ NoNewDestroys
         /\ \A r \in Sockets : Owner(r) = Owner(s) => ~DestroyPending(r)'
<1>0. AgentTypeOK
  BY DEF TypeOK
<1>1. /\ line[s] = "lost" /\ line'[s] = "closed" /\ up'[s] = <<>>
      /\ \A r \in Sockets : r # s => line'[r] = line[r] /\ up'[r] = up[r]
      /\ UNCHANGED <<agent, down, clients>>
  BY <1>0 DEF HandleDisconnect, AgentTypeOK
<1>2. <<>> \in Seq(UpOf(Owner(s))) /\ Single(<<>>, "vm_destroyed") /\ Leads(<<>>, Hello)
      /\ \A type : ~Carries(<<>>, type)
  BY EmptySeq DEF Single, Carries, Leads
<1>3. down[s] = <<>>
  BY <1>1 DEF AckInv, OnlyOpenCarriesOrders
<1>4. NoNewDestroys /\ ~DestroyPending(s)'
  BY <1>1, <1>2, <1>3 DEF NoNewDestroys, DestroyPending
<1>5. OneConnection'
  <2>1. \A r \in Sockets : /\ line'[r] # "unused" => line[r] # "unused"
                           /\ line[r] = "closed" => line'[r] = "closed"
    BY <1>1
  <2>2. QED
    BY <2>1, SocketNames DEF LineInv, OneConnection
<1>6. DeadAreEmpty'
  BY <1>1 DEF LineInv, DeadAreEmpty
<1>7. OwnMessages' /\ QueuesInOrder'
  BY <1>1, <1>2 DEF LineInv, OwnMessages, QueuesInOrder
<1>8. HelloIsNews'
  BY <1>1, <1>2, <1>4 DEF LineInv, HelloIsNews, NoNewDestroys, NoNewEntries
<1>9. \A r \in Sockets : Owner(r) = Owner(s) /\ r # s => ~DestroyPending(r)
  BY <1>0, <1>1, OneInUse, PendingIsInUse
<1>10. QED
  BY <1>4, <1>5, <1>6, <1>7, <1>8, <1>9 DEF LineInv, NoNewDestroys

-----------------------------------------------------------------------------
(* The handler in flight: the invariant.                                   *)

\* Calls made first, which what the handler has found or made is for, and
\* calls nothing follows.
FirstOnly == {"insertRental", "saveRental", "register", "setConnected"}
LastOnly == {"provision_vm", "destroy_vm", "reconcileVm", "reconcileRental"}
Ordered(calls) ==
  \A i \in DOMAIN calls : /\ calls[i].op \in FirstOnly => i = 1
                          /\ calls[i].op \in LastOnly => i = Len(calls)

\* Calls that take the VM from its renter, and calls a handler does not make
\* while a destroy of the VM is under way.
Vacating == {SetVm(status) : status \in VMStatus \ Busy} \cup {Do("offlineIfBusy")}
Unsettling == {SetVm("available"), SetVm("offline")} \cup
              {Do(op) : op \in {"insertRental", "destroy_vm", "reconcileRental", "offlineIfBusy"}}

\* What a handler is about, by the calls it has still to make.
AboutSocket(h) ==
  LET calls == Among(h.todo)
  IN  /\ {Do("connect"), Do("forget")} \cap calls # {} =>
           h.socket \in Sockets /\ h.vm = Owner(h.socket)
      /\ Do("register") \in calls => Do("connect") \in calls /\ Do("forget") \notin calls
      /\ {Do("register"), Do("setConnected")} \cap calls # {} => h.computer = h.vm
      /\ h.computerRow # None => h.computerRow.key = h.computer

AboutVm(h) ==
  LET calls == Among(h.todo)
  IN  /\ {Do("insertRental"), Do("destroy_vm"), Do("reconcileVm"), Do("reconcileRental")}
           \cap calls # {} => h.vm \in Vms
      /\ h.vmRow # None => h.vmRow.key \in FoundBy(h.vm)
      /\ Do("insertRental") \in calls =>
           /\ SetVm("building") \in calls
           /\ Vacating \cap calls # {} => Do("closeRental") \in calls
           /\ \E u \in Users : h.rentalRow = [key |-> NewKey, row |-> NewRental(h.vm, u)]
      /\ Do("destroy_vm") \in calls =>
           /\ Do("offlineIfBusy") \notin calls
           /\ \A status \in VMStatus : SetVm(status) \in calls => status = "shutting_down"

\* What the handler has loaded is as it is in the table, but for its change.
ComputerIsFresh(t) ==
  LET found == tasks[t].computerRow
  IN  found # None => /\ found.row.isConnected = computers[found.key].isConnected
                      /\ found.row.exists = computers[found.key].exists

EndsRental(t, r, row) ==
  /\ rentals[r].state = "active"
  /\ \E cost \in {"zero", "usage"} : row = EndedRental(rentals[r], cost)
PaysRental(t, r, row) ==
  /\ rentals[r].paymentStatus = "pending"
  /\ row = PaidRental(rentals[r])
  /\ Calls(t) = {Do("saveRental")}

RentalIsFresh(t) ==
  LET found == tasks[t].rentalRow
  IN  found # None /\ found.key # NewKey =>
        /\ found.key \in DOMAIN rentals
        /\ rentals[found.key].vmId \in FoundBy(tasks[t].vm)
        /\ EndsRental(t, found.key, found.row) \/ PaysRental(t, found.key, found.row)

\* A handler that takes the VM away closes its rental too, now or later.
Ending(t) ==
  /\ Do("saveRental") \in Calls(t)
  /\ tasks[t].rentalRow.key # NewKey
  /\ tasks[t].rentalRow.row.state = "not_active"

TakesNoLet(t) ==
  \A v \in FoundBy(tasks[t].vm) :
    /\ Vacating \cap Calls(t) # {} =>
         ActiveOn(v) = {} \/ Do("closeRental") \in Calls(t) \/ Ending(t)
    /\ Do("destroy_vm") \in Calls(t) =>
         /\ ActiveOn(v) = {} \/ Ending(t)
         /\ vms[v].status = "shutting_down" \/ SetVm("shutting_down") \in Calls(t)
    /\ Do("insertRental") \in Calls(t) => ActiveOn(v) = {}

SparesPending(t) ==
  \A s \in Sockets : DestroyPending(s) /\ Owner(s) \in FoundBy(tasks[t].vm) =>
    Unsettling \cap Calls(t) = {}

ForgetsDisconnected(t) ==
  Do("forget") \in Calls(t) =>
    Do("setConnected") \in Calls(t) \/ ~computers[tasks[t].vm].isConnected

HandlerInv(t) ==
  /\ Ordered(tasks[t].todo) /\ AboutSocket(tasks[t]) /\ AboutVm(tasks[t])
  /\ ComputerIsFresh(t) /\ RentalIsFresh(t)
  /\ TakesNoLet(t) /\ SparesPending(t) /\ ForgetsDisconnected(t)

-----------------------------------------------------------------------------
(* The tables: the invariant.                                              *)

\* A VM with an active rental is busy, or a handler is about to make it so or
\* to close the rental.
Secures(t, v) ==
  \/ tasks[t].vm = v /\ SetVm("building") \in Calls(t)
  \/ v \in FoundBy(tasks[t].vm) /\ Do("closeRental") \in Calls(t)
LetIsBusy ==
  \A v \in Vms : ActiveOn(v) # {} =>
    vms[v].status \in Busy \/ \E t \in Tasks : Secures(t, v)

\* A VM that is being destroyed is not let and will not be until it is gone.
PendingIsNotLet ==
  \A s \in Sockets : DestroyPending(s) =>
    ActiveOn(Owner(s)) = {} /\ vms[Owner(s)].status \notin {"available", "offline"}

\* A computer stored as connected has an entry, or is about to get one.
ConnectedHasEntry ==
  \A v \in Vms : computers[v].isConnected =>
    \/ IsComputerConnected(v)
    \/ \E t \in Tasks : tasks[t].vm = v /\ Do("connect") \in Calls(t)

TableInv == AtMostOneActiveRental /\ LetIsBusy /\ PendingIsNotLet /\ ConnectedHasEntry

TurnInv == LineInv /\ (\A t \in Tasks : HandlerInv(t)) /\ TableInv

-----------------------------------------------------------------------------
(* What a handler keeps when it goes on.                                   *)

LEMMA CallKinds ==
  ASSUME NEW c \in Call
  PROVE  /\ c.op = "vmStatus" => c.to \in VMStatus /\ c = SetVm(c.to)
         /\ \A op \in PlainOp : c.op = op => c = Do(op)
         /\ c \in Vacating \cup Unsettling =>
              c.op \in {"vmStatus", "insertRental", "destroy_vm", "reconcileRental",
                        "offlineIfBusy"}
BY DEF Call, PlainOp, Do, SetVm, Vacating, Unsettling

LEMMA HeadCall ==
  ASSUME TypeOK, NEW t \in Tasks, tasks[t].todo # <<>>
  PROVE  /\ tasks[t] \in Task /\ tasks[t].todo \in Seq(Call) /\ Later(t) \in Seq(Call)
         /\ Head(tasks[t].todo) \in Call
         /\ Calls(t) = {Head(tasks[t].todo)} \cup Among(Later(t))
         /\ Calls(t) \subseteq Call
<1>1. tasks[t] \in Task /\ tasks[t].todo \in Seq(Call)
  BY DEF TypeOK, Task
<1>2. Later(t) \in Seq(Call) /\ Head(tasks[t].todo) \in Call
  BY <1>1, HeadTailProperties DEF Later
<1>3. Calls(t) = {Head(tasks[t].todo)} \cup Among(Later(t))
  BY <1>1, ReadCall DEF Calls, Later
<1>4. Calls(t) \subseteq Call
  BY <1>1, LenProperties, ElementOfSeq DEF Calls, Among
<1>5. QED
  BY <1>1, <1>2, <1>3, <1>4

\* The handler that continues is about what it was about, with nothing loaded.
LEMMA Continues ==
  ASSUME TypeOK, NEW t \in Tasks, NEW rest \in Seq(Call), ContinueWith(t, rest)
  PROVE  /\ tasks'[t].todo = rest /\ Calls(t)' = Among(rest)
         /\ Calls(t)' # {} => /\ tasks'[t].vm = tasks[t].vm
                              /\ tasks'[t].computer = tasks[t].computer
                              /\ tasks'[t].socket = tasks[t].socket
         /\ tasks'[t].vmRow = None /\ tasks'[t].computerRow = None
         /\ tasks'[t].rentalRow = None
<1>1. tasks \in [Tasks -> Task] /\ tasks[t] \in Task
  BY DEF TypeOK
<1>2. CASE rest = <<>>
  <2>1. tasks'[t] = Idle
    BY <1>1, <1>2 DEF ContinueWith
  <2>2. QED
    BY <1>2, <2>1, ListsOfCalls DEF Idle, Calls
<1>3. CASE rest # <<>>
  <2>1. tasks'[t] = [tasks[t] EXCEPT !.todo = rest, !.vmRow = None, !.computerRow = None,
                                     !.rentalRow = None]
    BY <1>1, <1>3 DEF ContinueWith
  <2>2. QED
    BY <1>1, <2>1 DEF Task, Calls
<1>4. QED
  BY <1>2, <1>3

LEMMA OrderedTail ==
  ASSUME NEW q \in Seq(Call), q # <<>>, Ordered(q)
  PROVE  /\ Ordered(Tail(q))
         /\ \A c \in Among(Tail(q)) : c.op \notin FirstOnly
         /\ Head(q).op \in LastOnly => Tail(q) = <<>>
<1> DEFINE r == Tail(q)
           n == Len(q)
<1>1. /\ DOMAIN q = 1 .. n /\ n \in Nat /\ 1 \in DOMAIN q /\ q[1] = Head(q)
      /\ DOMAIN r = 1 .. n - 1
      /\ \A i \in DOMAIN r : i + 1 \in DOMAIN q /\ r[i] = q[i + 1]
  BY TailIndices
<1>2. r \in Seq(Call) /\ Len(r) = n - 1
  BY HeadTailProperties
<1>3. n - 1 = 0 => r = <<>>
  BY <1>2, EmptySeq
<1> HIDE DEF r, n
<1>4. ASSUME NEW i \in DOMAIN r
      PROVE  /\ r[i].op \notin FirstOnly
             /\ r[i].op \in LastOnly => i = Len(r)
  <2>1. i + 1 # 1 /\ i \in Nat
    BY <1>1
  <2>2. r[i].op \notin FirstOnly /\ (r[i].op \in LastOnly => i + 1 = n)
    BY <1>1, <2>1 DEF Ordered, n
  <2>3. QED
    BY <1>1, <1>2, <2>1, <2>2
<1>5. Ordered(r) /\ \A c \in Among(r) : c.op \notin FirstOnly
  BY <1>4 DEF Ordered, Among
<1>6. Head(q).op \in LastOnly => r = <<>>
  <2> SUFFICES ASSUME q[1].op \in LastOnly PROVE n - 1 = 0
    BY <1>1, <1>3
  <2>1. 1 = n
    BY <1>1 DEF Ordered, n
  <2>2. QED
    BY <2>1
<1>7. QED
  BY <1>5, <1>6 DEF r

LEMMA ReturnKeeps ==
  ASSUME TypeOK, NEW t \in Tasks, HandlerInv(t), tasks[t].todo # <<>>, Return(t)
  PROVE  /\ Ordered(tasks'[t].todo) /\ AboutSocket(tasks'[t]) /\ AboutVm(tasks'[t])
         /\ ComputerIsFresh(t)' /\ RentalIsFresh(t)' /\ ~Ending(t)'
         /\ Calls(t) = {Head(tasks[t].todo)} \cup Calls(t)'
         /\ \A c \in Calls(t)' : c.op \notin FirstOnly
         /\ Head(tasks[t].todo).op \in LastOnly => Calls(t)' = {}
         /\ Calls(t)' # {} => /\ tasks'[t].vm = tasks[t].vm
                              /\ tasks'[t].computer = tasks[t].computer
                              /\ tasks'[t].socket = tasks[t].socket
<1>1. Later(t) \in Seq(Call) /\ tasks[t].todo \in Seq(Call)
      /\ Calls(t) = {Head(tasks[t].todo)} \cup Among(Later(t))
  BY HeadCall
<1>2. /\ tasks'[t].todo = Later(t) /\ Calls(t)' = Among(Later(t))
      /\ Calls(t)' # {} => /\ tasks'[t].vm = tasks[t].vm
                           /\ tasks'[t].computer = tasks[t].computer
                           /\ tasks'[t].socket = tasks[t].socket
      /\ tasks'[t].vmRow = None /\ tasks'[t].computerRow = None
      /\ tasks'[t].rentalRow = None
  BY <1>1, Continues DEF Return
<1>3. /\ Ordered(Later(t))
      /\ \A c \in Calls(t)' : c.op \notin FirstOnly
      /\ Head(tasks[t].todo).op \in LastOnly => Later(t) = <<>>
  BY <1>1, <1>2, OrderedTail DEF HandlerInv, Later
<1>4. \A op \in FirstOnly : Do(op) \notin Calls(t)'
  BY <1>3 DEF Do
<1>5. AboutSocket(tasks'[t])
  <2>1. Do("register") \notin Calls(t)'
    BY <1>4 DEF FirstOnly
  <2>2. Calls(t)' = {} => AboutSocket(tasks'[t])
    BY <1>2 DEF AboutSocket
  <2>3. Calls(t)' # {} => AboutSocket(tasks'[t])
    BY <1>1, <1>2, <2>1 DEF AboutSocket, HandlerInv, Calls
  <2>4. QED
    BY <2>2, <2>3
<1>6. AboutVm(tasks'[t])
  <2>1. Do("insertRental") \notin Calls(t)'
    BY <1>4 DEF FirstOnly
  <2>2. Calls(t)' = {} => AboutVm(tasks'[t])
    BY <1>2 DEF AboutVm
  <2>3. Calls(t)' # {} => AboutVm(tasks'[t])
    BY <1>1, <1>2, <2>1 DEF AboutVm, HandlerInv, Calls
  <2>4. QED
    BY <2>2, <2>3
<1>7. ComputerIsFresh(t)' /\ RentalIsFresh(t)' /\ ~Ending(t)'
  BY <1>2, <1>4 DEF ComputerIsFresh, RentalIsFresh, Ending, FirstOnly
<1>8. QED
  BY <1>1, <1>2, <1>3, <1>5, <1>6, <1>7, ListsOfCalls

-----------------------------------------------------------------------------
(* What the parts of the invariant need when a call returns.               *)

Returns(t) == tasks[t].todo # <<>> /\ Return(t)
First(t) == Head(tasks[t].todo)

\* No VM is let that was not.
NoNewLets == \A v \in Vms : ActiveOn(v)' \subseteq ActiveOn(v)

LEMMA FoundAreVms == \A id : FoundBy(id) \subseteq Vms
BY DEF FoundBy

LEMMA ReturnTakesNoLet ==
  ASSUME TypeOK, NEW t \in Tasks, HandlerInv(t), Returns(t), NoNewLets,
         First(t).op \notin {"closeRental", "saveRental"},
         \A v \in FoundBy(tasks[t].vm) :
           /\ Do("destroy_vm") \in Calls(t)'
           /\ vms[v].status = "shutting_down" \/ First(t) = SetVm("shutting_down")
           => vms'[v].status = "shutting_down"
  PROVE  TakesNoLet(t)'
<1>1. /\ Calls(t) = {First(t)} \cup Calls(t)'
      /\ \A c \in Calls(t)' : c.op \notin FirstOnly
      /\ Calls(t)' # {} => tasks'[t].vm = tasks[t].vm
  BY ReturnKeeps DEF Returns, First
<1>2. /\ First(t) # Do("closeRental") /\ Do("insertRental") \notin Calls(t)'
      /\ Do("saveRental") \notin Calls(t)
  BY <1>1 DEF Do, FirstOnly
<1>3. ~Ending(t)
  BY <1>2 DEF Ending
<1>4. Do("closeRental") \in Calls(t) => Do("closeRental") \in Calls(t)'
  BY <1>1, <1>2
<1>5. ASSUME NEW v \in FoundBy(tasks[t].vm)
      PROVE  /\ Vacating \cap Calls(t)' # {} =>
                  ActiveOn(v)' = {} \/ Do("closeRental") \in Calls(t)' \/ Ending(t)'
             /\ Do("destroy_vm") \in Calls(t)' =>
                  /\ ActiveOn(v)' = {} \/ Ending(t)'
                  /\ \/ vms'[v].status = "shutting_down"
                     \/ SetVm("shutting_down") \in Calls(t)'
  <2>1. ActiveOn(v) = {} => ActiveOn(v)' = {}
    BY <1>5, FoundAreVms DEF NoNewLets
  <2>2. /\ Vacating \cap Calls(t) # {} => ActiveOn(v) = {} \/ Do("closeRental") \in Calls(t)
        /\ Do("destroy_vm") \in Calls(t) =>
             /\ ActiveOn(v) = {}
             /\ vms[v].status = "shutting_down" \/ SetVm("shutting_down") \in Calls(t)
    BY <1>3, <1>5 DEF HandlerInv, TakesNoLet
  <2>3. QED
    BY <1>1, <1>4, <1>5, <2>1, <2>2
<1>6. QED
  BY <1>1, <1>2, <1>5 DEF TakesNoLet

LEMMA ReturnSparesPending ==
  ASSUME TypeOK, NEW t \in Tasks, HandlerInv(t), Returns(t), NoNewDestroys
  PROVE  SparesPending(t)'
<1>1. /\ Calls(t) = {First(t)} \cup Calls(t)'
      /\ Calls(t)' # {} => tasks'[t].vm = tasks[t].vm
  BY ReturnKeeps DEF Returns, First
<1>2. QED
  BY <1>1 DEF HandlerInv, SparesPending, NoNewDestroys

LEMMA ReturnForgets ==
  ASSUME TypeOK, NEW t \in Tasks, HandlerInv(t), Returns(t), First(t).op # "setConnected",
         Do("forget") \in Calls(t) =>
           \A v \in Vms : computers'[v].isConnected => computers[v].isConnected
  PROVE  ForgetsDisconnected(t)'
<1>1. /\ Calls(t) = {First(t)} \cup Calls(t)'
      /\ Calls(t)' # {} => tasks'[t].vm = tasks[t].vm
  BY ReturnKeeps DEF Returns, First
<1>2. First(t) # Do("setConnected")
  BY DEF Do
<1>3. Do("forget") \in Calls(t) => tasks[t].vm \in Vms
  BY SocketNames DEF HandlerInv, AboutSocket, Calls
<1>4. QED
  BY <1>1, <1>2, <1>3 DEF HandlerInv, ForgetsDisconnected

LEMMA HandlerReturns ==
  ASSUME TypeOK, TakeTurns, NEW t \in Tasks, HandlerInv(t), Returns(t),
         TakesNoLet(t)', SparesPending(t)', ForgetsDisconnected(t)'
  PROVE  \A u \in Tasks : HandlerInv(u)'
<1>1. \A u \in Tasks : u = t
  BY DEF TakeTurns
<1>2. HandlerInv(t)'
  BY ReturnKeeps DEF HandlerInv, Returns
<1>3. QED
  BY <1>1, <1>2

LEMMA ReturnLetIsBusy ==
  ASSUME TypeOK, TakeTurns, NEW t \in Tasks, HandlerInv(t), LetIsBusy, Returns(t), NoNewLets,
         First(t).op # "closeRental",
         \A v \in Vms :
           /\ ActiveOn(v) # {}
           /\ vms[v].status \in Busy \/ (tasks[t].vm = v /\ First(t) = SetVm("building"))
           => \/ vms'[v].status \in Busy
              \/ v \in FoundBy(tasks[t].vm) /\ Do("closeRental") \in Calls(t)'
  PROVE  LetIsBusy'
<1>1. /\ Calls(t) = {First(t)} \cup Calls(t)'
      /\ Calls(t)' # {} => tasks'[t].vm = tasks[t].vm
  BY ReturnKeeps DEF Returns, First
<1>2. First(t) # Do("closeRental")
  BY DEF Do
<1>3. \A u \in Tasks : u = t
  BY DEF TakeTurns
<1>4. ASSUME NEW v \in Vms, ActiveOn(v)' # {}
      PROVE  vms'[v].status \in Busy \/ Secures(t, v)'
  <2>1. ActiveOn(v) # {}
    BY <1>4 DEF NoNewLets
  <2>2. vms[v].status \in Busy \/ Secures(t, v)
    BY <1>3, <2>1 DEF LetIsBusy
  <2>3. QED
    BY <1>1, <1>2, <2>1, <2>2 DEF Secures
<1>5. QED
  BY <1>4 DEF LetIsBusy

LEMMA ReturnPending ==
  ASSUME PendingIsNotLet, NoNewDestroys, NoNewLets,
         \A s \in Sockets : DestroyPending(s) /\ vms'[Owner(s)].status \in {"available", "offline"}
           => vms[Owner(s)].status \in {"available", "offline"}
  PROVE  PendingIsNotLet'
BY SocketNames DEF PendingIsNotLet, NoNewDestroys, NoNewLets

LEMMA ReturnEntries ==
  ASSUME TypeOK, TakeTurns, NEW t \in Tasks, HandlerInv(t), Returns(t), ConnectedHasEntry,
         First(t).op # "connect",
         \A v \in Vms :
           /\ computers'[v].isConnected =>
                computers[v].isConnected \/ (tasks[t].vm = v /\ Do("connect") \in Calls(t)')
           /\ computers'[v].isConnected /\ IsComputerConnected(v) => IsComputerConnected(v)'
  PROVE  ConnectedHasEntry'
<1>1. /\ Calls(t) = {First(t)} \cup Calls(t)'
      /\ Calls(t)' # {} => tasks'[t].vm = tasks[t].vm
  BY ReturnKeeps DEF Returns, First
<1>2. First(t) # Do("connect")
  BY DEF Do
<1>3. \A u \in Tasks : u = t
  BY DEF TakeTurns
<1>4. ASSUME NEW v \in Vms, computers'[v].isConnected
      PROVE  IsComputerConnected(v)' \/ (tasks'[t].vm = v /\ Do("connect") \in Calls(t)')
  BY <1>1, <1>2, <1>3, <1>4 DEF ConnectedHasEntry
<1>5. QED
  BY <1>4 DEF ConnectedHasEntry

LEMMA ReturnOnce == AtMostOneActiveRental /\ NoNewLets => AtMostOneActiveRental'
BY DEF AtMostOneActiveRental, NoNewLets

LEMMA ReturnLines ==
  ASSUME TypeOK, TakeTurns, LineInv, NEW t \in Tasks, HandlerInv(t), Returns(t),
         \A s \in Sockets : Registered(s)' => Registered(s)
  PROVE  NoNewEntries /\ (UNCHANGED agentVars => LineInv' /\ NoNewDestroys)
<1>1. /\ Calls(t) = {First(t)} \cup Calls(t)'
      /\ Calls(t)' # {} => tasks'[t].socket = tasks[t].socket
  BY ReturnKeeps DEF Returns, First
<1>2. \A u \in Tasks : u = t
  BY DEF TakeTurns
<1>3. NoNewEntries
  BY <1>1, <1>2 DEF NoNewEntries
<1>4. QED
  BY <1>3, SameLines DEF agentVars, NoNewDestroys

LEMMA SameLets == UNCHANGED rentals => NoNewLets
BY DEF NoNewLets, ActiveOn

-----------------------------------------------------------------------------
(* Calls of the services.                                                  *)

LEMMA FirstCalls ==
  ASSUME TypeOK, NEW t \in Tasks, HandlerInv(t), tasks[t].todo # <<>>
  PROVE  /\ First(t) \in Call /\ First(t) \in Calls(t)
         /\ \A c \in Calls(t) : c.op \in FirstOnly => c = First(t)
         /\ First(t).op \in LastOnly => Calls(t) = {First(t)}
<1>1. /\ tasks[t].todo \in Seq(Call) /\ First(t) \in Call
      /\ Calls(t) = {First(t)} \cup Among(Tail(tasks[t].todo))
  BY HeadCall DEF First, Later
<1>2. QED
  BY <1>1, OrderedTail, ListsOfCalls DEF HandlerInv, First

\* A load leaves the handler with the calls it had.
LEMMA LoadTurn ==
  ASSUME TypeOK, TakeTurns, TurnInv, NEW t \in Tasks,
         LoadVm(t) \/ LoadComputer(t) \/ LoadActiveRental(t)
  PROVE  TurnInv'
<1> USE DEF tables, agentVars
<1>0. /\ tasks \in [Tasks -> Task] /\ tasks[t] \in Task /\ HandlerInv(t)
      /\ tasks[t].todo # <<>> /\ \A u \in Tasks : u = t
      /\ UNCHANGED <<vms, computers, rentals, clients, agent, line, up, down>>
  BY DEF TypeOK, TurnInv, TakeTurns, LoadVm, LoadComputer, LoadActiveRental, Calling
<1>1. /\ tasks'[t].todo = tasks[t].todo /\ tasks'[t].vm = tasks[t].vm
      /\ tasks'[t].computer = tasks[t].computer /\ tasks'[t].socket = tasks[t].socket
  BY <1>0 DEF LoadVm, LoadComputer, LoadActiveRental, Task
<1>2. Calls(t)' = Calls(t)
  BY <1>1 DEF Calls
<1>3. LineInv' /\ \A s \in Sockets : DestroyPending(s)' <=> DestroyPending(s)
  <2>1. NoNewEntries
    BY <1>0, <1>1, <1>2 DEF NoNewEntries, Registered
  <2>2. QED
    BY <1>0, <2>1, SameLines DEF TurnInv
<1>4. /\ \A v \in Vms : ActiveOn(v)' = ActiveOn(v)
      /\ \A v \in Vms : IsComputerConnected(v)' <=> IsComputerConnected(v)
  BY <1>0 DEF ActiveOn, IsComputerConnected
<1>5. TableInv'
  <2>1. AtMostOneActiveRental' /\ PendingIsNotLet'
    BY <1>0, <1>3, <1>4, SocketNames DEF TurnInv, TableInv, AtMostOneActiveRental, PendingIsNotLet
  <2>2. LetIsBusy'
    BY <1>0, <1>1, <1>2, <1>4 DEF TurnInv, TableInv, LetIsBusy, Secures
  <2>3. ConnectedHasEntry'
    BY <1>0, <1>1, <1>2, <1>4 DEF TurnInv, TableInv, ConnectedHasEntry
  <2>4. QED
    BY <2>1, <2>2, <2>3 DEF TableInv
<1>6. SparesPending(t)' /\ ForgetsDisconnected(t)' /\ Ordered(tasks'[t].todo)
  BY <1>0, <1>1, <1>2, <1>3 DEF HandlerInv, SparesPending, ForgetsDisconnected
<1>7. AboutVm(tasks'[t]) /\ AboutSocket(tasks'[t]) /\ ComputerIsFresh(t)'
  <2>1. CASE LoadVm(t)
    <3>1. PICK v \in FoundBy(tasks[t].vm) :
            tasks' = [tasks EXCEPT ![t].vmRow = [key |-> v, row |-> vms[v]]]
      BY <2>1 DEF LoadVm
    <3>2. /\ tasks'[t].vmRow.key = v /\ tasks'[t].computerRow = tasks[t].computerRow
          /\ tasks'[t].rentalRow = tasks[t].rentalRow
      BY <1>0, <3>1 DEF Task
    <3>3. QED
      BY <1>0, <1>1, <3>1, <3>2 DEF HandlerInv, AboutVm, AboutSocket, ComputerIsFresh
  <2>2. CASE LoadComputer(t)
    <3>1. PICK c \in Vms : /\ tasks[t].computer = c
                           /\ tasks' = [tasks EXCEPT ![t].computerRow =
                                [key |-> c, row |-> computers[c], hostsVm |-> vms[c].linked]]
      BY <2>2 DEF LoadComputer
    <3>2. /\ tasks'[t].computerRow = [key |-> c, row |-> computers[c], hostsVm |-> vms[c].linked]
          /\ tasks'[t].rentalRow = tasks[t].rentalRow /\ tasks'[t].vmRow = tasks[t].vmRow
      BY <1>0, <3>1 DEF Task
    <3>3. QED
      BY <1>0, <1>1, <3>1, <3>2 DEF HandlerInv, AboutVm, AboutSocket, ComputerIsFresh
  <2>3. CASE LoadActiveRental(t)
    <3>1. Do("insertRental") \notin Calls(t)
      <4>1. First(t).op = "closeRental" /\ Do("insertRental").op \in FirstOnly
        BY <2>3 DEF LoadActiveRental, Calling, First, FirstOnly, Do
      <4>2. QED
        BY <1>0, <4>1, FirstCalls DEF FirstOnly
    <3>2. /\ tasks'[t].vmRow = tasks[t].vmRow
          /\ tasks'[t].computerRow = tasks[t].computerRow
      BY <1>0, <2>3 DEF LoadActiveRental, Task
    <3>3. QED
      BY <1>0, <1>1, <3>1, <3>2 DEF HandlerInv, AboutVm, AboutSocket, ComputerIsFresh, Calls
  <2>4. QED
    BY <2>1, <2>2, <2>3
<1>8. RentalIsFresh(t)' /\ TakesNoLet(t)'
  <2>1. CASE tasks'[t].rentalRow = tasks[t].rentalRow
    <3>1. RentalIsFresh(t)'
      BY <1>0, <1>1, <1>2, <2>1
         DEF HandlerInv, RentalIsFresh, EndsRental, PaysRental
    <3>2. Ending(t)' <=> Ending(t)
      BY <1>2, <2>1 DEF Ending
    <3>3. QED
      BY <1>0, <1>1, <1>2, <1>4, <3>1, <3>2, FoundAreVms DEF HandlerInv, TakesNoLet
  <2>2. CASE LoadActiveRental(t)
    <3>1. Do("saveRental") \notin Calls(t)
      <4>1. First(t).op = "closeRental" /\ Do("saveRental").op \in FirstOnly
        BY <2>2 DEF LoadActiveRental, Calling, First, FirstOnly, Do
      <4>2. QED
        BY <1>0, <4>1, FirstCalls DEF FirstOnly
    <3>2. PICK r \in DOMAIN rentals :
            /\ LatestActive(tasks[t].vm, r)
            /\ tasks' = [tasks EXCEPT ![t].rentalRow =
                 [key |-> r, row |-> EndedRental(rentals[r], "zero")]]
      BY <2>2 DEF LoadActiveRental
    <3>3. tasks'[t].rentalRow = [key |-> r, row |-> EndedRental(rentals[r], "zero")]
      BY <1>0, <3>2 DEF Task
    <3>4. rentals[r].state = "active" /\ rentals[r].vmId \in FoundBy(tasks[t].vm)
      BY <3>2 DEF LatestActive, ActiveRentals
    <3>5. RentalIsFresh(t)'
      BY <1>0, <1>1, <3>3, <3>4 DEF RentalIsFresh, EndsRental
    <3>6. ~Ending(t)
      BY <3>1 DEF Ending
    <3>7. QED
      BY <1>0, <1>1, <1>2, <1>4, <3>5, <3>6, FoundAreVms DEF HandlerInv, TakesNoLet
  <2>3. QED
    BY <1>0, <2>1, <2>2 DEF LoadVm, LoadComputer, Task
<1>9. QED
  BY <1>0, <1>3, <1>5, <1>6, <1>7, <1>8 DEF TurnInv, HandlerInv

LEMMA SaveVmTurn ==
  ASSUME TypeOK, TakeTurns, TurnInv, NEW t \in Tasks, SaveVm(t)
  PROVE  TurnInv'
<1> USE DEF tables, agentVars
<1> DEFINE found == tasks[t].vmRow
           status == Argument(t)
<1>0. /\ tasks[t] \in Task /\ HandlerInv(t) /\ Returns(t) /\ vms \in [Vms -> VmRow]
      /\ UNCHANGED <<computers, rentals, clients, agent, line, up, down>>
  BY DEF TypeOK, TurnInv, SaveVm, Calling, Returns
<1>1. First(t) = SetVm(status) /\ status \in VMStatus /\ First(t).op = "vmStatus"
      /\ First(t) \in Calls(t)
  BY <1>0, FirstCalls, CallKinds DEF SaveVm, Calling, First, Argument, Returns
<1>2. /\ found.key \in FoundBy(tasks[t].vm) /\ found.row \in VmRow
      /\ vms' = [vms EXCEPT ![found.key] = [found.row EXCEPT !.status = status]]
  BY <1>0 DEF SaveVm, HandlerInv, AboutVm, Task, Loaded
<1>3. \A v \in Vms : vms'[v].status = IF v = found.key THEN status ELSE vms[v].status
  BY <1>0, <1>2 DEF VmRow
<1>4. Calls(t) = {First(t)} \cup Calls(t)'
  BY <1>0, ReturnKeeps DEF First, Returns
<1>5. Do("saveRental") \notin Calls(t)
  BY <1>0, <1>1, FirstCalls DEF FirstOnly, Do, Returns
<1> HIDE DEF found, status
<1>6. NoNewLets
  BY <1>0, SameLets
<1>7. LineInv' /\ NoNewDestroys
  BY <1>0, ReturnLines DEF TurnInv, Registered
<1>8. TakesNoLet(t)'
  <2>1. ASSUME NEW v \in FoundBy(tasks[t].vm), Do("destroy_vm") \in Calls(t)'
        PROVE  vms'[v].status = "shutting_down"
    <3>1. tasks[t].vm \in Vms /\ status = "shutting_down"
      BY <1>0, <1>1, <1>4, <2>1 DEF HandlerInv, AboutVm, Calls
    <3>2. v = found.key
      BY <1>2, <3>1, RecordsAssumption DEF FoundBy
    <3>3. QED
      BY <1>3, <3>1, <3>2, FoundAreVms
  <2>2. QED
    BY <1>0, <1>1, <1>6, <2>1, ReturnTakesNoLet
<1>9. LetIsBusy'
  <2>1. ASSUME NEW v \in Vms, ActiveOn(v) # {},
               vms[v].status \in Busy \/ (tasks[t].vm = v /\ First(t) = SetVm("building"))
        PROVE  \/ vms'[v].status \in Busy
               \/ v \in FoundBy(tasks[t].vm) /\ Do("closeRental") \in Calls(t)'
    <3>1. CASE v # found.key
      <4>1. tasks[t].vm # v
        BY <1>2, <3>1, RecordsAssumption DEF FoundBy
      <4>2. QED
        BY <1>3, <2>1, <3>1, <4>1
    <3>2. CASE v = found.key /\ status \notin Busy
      <4>1. First(t) \in Vacating \cap Calls(t)
        BY <1>1, <3>2 DEF Vacating
      <4>2. Do("closeRental") \in Calls(t)
        BY <1>0, <1>2, <1>5, <2>1, <3>2, <4>1 DEF HandlerInv, TakesNoLet, Ending
      <4>3. First(t) # Do("closeRental")
        BY <1>1 DEF Do
      <4>4. QED
        BY <1>2, <1>4, <3>2, <4>2, <4>3
    <3>3. QED
      BY <1>3, <3>1, <3>2
  <2>2. QED
    BY <1>0, <1>1, <1>6, <2>1, ReturnLetIsBusy DEF TurnInv, TableInv
<1>10. PendingIsNotLet'
  <2>1. ASSUME NEW s \in Sockets, DestroyPending(s),
               vms'[Owner(s)].status \in {"available", "offline"}
        PROVE  vms[Owner(s)].status \in {"available", "offline"}
    <3>1. CASE Owner(s) = found.key
      <4>1. status \in {"available", "offline"}
        BY <1>3, <2>1, <3>1, SocketNames
      <4>2. First(t) \in Unsettling
        BY <1>1, <4>1 DEF Unsettling
      <4>3. QED
        BY <1>0, <1>1, <1>2, <2>1, <3>1, <4>2 DEF HandlerInv, SparesPending
    <3>2. QED
      BY <1>3, <2>1, <3>1, SocketNames
  <2>2. QED
    BY <1>6, <1>7, <2>1, ReturnPending DEF TurnInv, TableInv
<1>11. ConnectedHasEntry'
  <2>1. \A v \in Vms : IsComputerConnected(v) => IsComputerConnected(v)'
    BY <1>0 DEF IsComputerConnected
  <2>2. QED
    BY <1>0, <1>1, <2>1, ReturnEntries DEF TurnInv, TableInv
<1>12. SparesPending(t)' /\ ForgetsDisconnected(t)'
  BY <1>0, <1>1, <1>7, ReturnSparesPending, ReturnForgets
<1>13. QED
  BY <1>0, <1>6, <1>7, <1>8, <1>9, <1>10, <1>11, <1>12, HandlerReturns, ReturnOnce
     DEF TurnInv, TableInv

\* A call that is not about rentals or the status of the VM.
LEMMA QuietTurn ==
  ASSUME TypeOK, TakeTurns, TurnInv, NEW t \in Tasks, Returns(t), UNCHANGED rentals,
         \A v \in Vms : vms'[v].status = vms[v].status,
         First(t).op \notin {"vmStatus", "closeRental", "saveRental"}, NoNewDestroys
  PROVE  /\ TakesNoLet(t)' /\ SparesPending(t)'
         /\ AtMostOneActiveRental' /\ LetIsBusy' /\ PendingIsNotLet'
<1>0. HandlerInv(t) /\ TableInv /\ NoNewLets
  BY SameLets DEF TurnInv
<1>1. \A status : First(t) # SetVm(status)
  BY DEF SetVm
<1>2. TakesNoLet(t)'
  BY <1>0, <1>1, ReturnTakesNoLet, FoundAreVms
<1>3. SparesPending(t)'
  BY <1>0, ReturnSparesPending
<1>4. LetIsBusy'
  BY <1>0, <1>1, ReturnLetIsBusy DEF TableInv
<1>5. PendingIsNotLet'
  BY <1>0, ReturnPending, SocketNames DEF TableInv
<1>6. QED
  BY <1>0, <1>2, <1>3, <1>4, <1>5, ReturnOnce DEF TableInv

\* A call that leaves alone who is connected.
LEMMA ServiceTurn ==
  ASSUME TypeOK, TakeTurns, TurnInv, NEW t \in Tasks,
         SetPhysicalComputer(t) \/ SaveComputer(t) \/ SetCurrentVm(t)
  PROVE  TurnInv'
<1> USE DEF tables, agentVars
<1>0. /\ tasks[t] \in Task /\ HandlerInv(t) /\ Returns(t)
      /\ vms \in [Vms -> VmRow] /\ computers \in [Vms -> ComputerRow]
      /\ UNCHANGED <<rentals, clients, agent, line, up, down>>
      /\ First(t).op \in {"setPhysicalComputer", "computerStatus", "setCurrentVM"}
  BY DEF TypeOK, TurnInv, SetPhysicalComputer, SaveComputer, SetCurrentVm, Calling, Returns,
         First
<1>1. LineInv' /\ NoNewDestroys
  BY <1>0, ReturnLines DEF TurnInv, Registered
<1>2. \A v \in Vms : vms'[v].status = vms[v].status
  BY <1>0, SMTT(20) DEF SetPhysicalComputer, SaveComputer, SetCurrentVm, VmRow
<1>3. \A v \in Vms : computers'[v].isConnected = computers[v].isConnected
  <2>1. CASE SaveComputer(t)
    <3> DEFINE found == tasks[t].computerRow
    <3>1. /\ found \in [key : Vms, row : ComputerRow, hostsVm : BOOLEAN]
          /\ found.row.isConnected = computers[found.key].isConnected
      BY <1>0, <2>1 DEF SaveComputer, HandlerInv, ComputerIsFresh, Task, LoadedComputer
    <3> DEFINE row == [found.row EXCEPT
                 !.status = Argument(t),
                 !.isAvailable = CASE Argument(t) = "available" -> TRUE
                                   [] Argument(t) \in {"active", "provisioning"} -> FALSE
                                   [] OTHER -> @,
                 !.hasCurrentVm = IF Argument(t) = "available" THEN FALSE ELSE @]
    <3>2. computers' = [computers EXCEPT ![found.key] = row]
      BY <2>1 DEF SaveComputer
    <3>3. row.isConnected = found.row.isConnected
      BY <3>1 DEF ComputerRow
    <3> HIDE DEF row
    <3>4. QED
      BY <1>0, <3>1, <3>2, <3>3
  <2>2. CASE SetCurrentVm(t)
    BY <1>0, <2>2 DEF SetCurrentVm, ComputerRow
  <2>3. CASE SetPhysicalComputer(t)
    BY <2>3 DEF SetPhysicalComputer
  <2>4. QED
    BY <2>1, <2>2, <2>3
<1>4. /\ TakesNoLet(t)' /\ SparesPending(t)'
      /\ AtMostOneActiveRental' /\ LetIsBusy' /\ PendingIsNotLet'
  BY <1>0, <1>1, <1>2, QuietTurn
<1>5. ForgetsDisconnected(t)'
  BY <1>0, <1>3, ReturnForgets
<1>6. ConnectedHasEntry'
  <2>1. \A v \in Vms : IsComputerConnected(v) => IsComputerConnected(v)'
    BY <1>0 DEF IsComputerConnected
  <2>2. QED
    BY <1>0, <1>3, <2>1, ReturnEntries DEF TurnInv, TableInv
<1>7. QED
  BY <1>0, <1>1, <1>4, <1>5, <1>6, HandlerReturns DEF TurnInv, TableInv

\* A registration connects the computer whose socket it is going to enter.
LEMMA RegisterTurn ==
  ASSUME TypeOK, TakeTurns, TurnInv, NEW t \in Tasks, RegisterKnown(t) \/ RegisterNew(t)
  PROVE  TurnInv'
<1> USE DEF tables, agentVars
<1> DEFINE found == tasks[t].computerRow
<1>0. /\ tasks[t] \in Task /\ HandlerInv(t) /\ tasks[t].todo # <<>>
      /\ computers \in [Vms -> ComputerRow]
      /\ UNCHANGED <<vms, rentals, clients, agent, line, up, down>>
      /\ First(t).op = "register" /\ found # None
  BY DEF TypeOK, TurnInv, RegisterKnown, RegisterNew, Calling, First
<1>1. Do("register") \in Calls(t) /\ First(t) = Do("register")
  BY <1>0, FirstCalls, CallKinds DEF PlainOp
<1>2. /\ found.key \in Vms /\ found.key = tasks[t].vm /\ Do("connect") \in Calls(t)
      /\ Do("forget") \notin Calls(t)
      /\ found.row.exists = computers[found.key].exists
  BY <1>0, <1>1
     DEF HandlerInv, AboutSocket, ComputerIsFresh, Calls, Task, LoadedComputer
<1>3. /\ Returns(t)
      /\ \A v \in Vms : v # found.key => computers'[v] = computers[v]
  BY <1>0, <1>2 DEF RegisterKnown, RegisterNew, Returns
<1> HIDE DEF found
<1>4. LineInv' /\ NoNewDestroys
  BY <1>0, <1>3, ReturnLines DEF TurnInv, Registered
<1>5. /\ TakesNoLet(t)' /\ SparesPending(t)'
      /\ AtMostOneActiveRental' /\ LetIsBusy' /\ PendingIsNotLet'
  BY <1>0, <1>3, <1>4, QuietTurn
<1>6. ForgetsDisconnected(t)'
  BY <1>0, <1>2, <1>3, ReturnForgets
<1>7. ConnectedHasEntry'
  <2>1. \A v \in Vms : IsComputerConnected(v) => IsComputerConnected(v)'
    BY <1>0 DEF IsComputerConnected
  <2>2. Do("connect") \in Calls(t)'
    BY <1>0, <1>1, <1>2, <1>3, ReturnKeeps DEF Returns, First, Do
  <2>3. QED
    BY <1>0, <1>2, <1>3, <2>1, <2>2, ReturnEntries DEF TurnInv, TableInv
<1>8. QED
  BY <1>0, <1>3, <1>4, <1>5, <1>6, <1>7, HandlerReturns DEF TurnInv, TableInv

LEMMA SetConnectedTurn ==
  ASSUME TypeOK, TakeTurns, TurnInv, NEW t \in Tasks, SetConnectedFalse(t)
  PROVE  TurnInv'
<1> USE DEF tables, agentVars
<1>0. /\ HandlerInv(t) /\ Returns(t) /\ computers \in [Vms -> ComputerRow]
      /\ UNCHANGED <<vms, rentals, clients, agent, line, up, down>>
      /\ First(t).op = "setConnected" /\ tasks[t].todo # <<>>
  BY DEF TypeOK, TurnInv, SetConnectedFalse, Calling, Returns, First
<1>1. First(t) = Do("setConnected") /\ Do("setConnected") \in Calls(t)
  BY <1>0, FirstCalls, CallKinds DEF PlainOp
<1>2. tasks[t].computer = tasks[t].vm
  BY <1>0, <1>1 DEF HandlerInv, AboutSocket, Calls
<1>3. \A v \in Vms : /\ v = tasks[t].vm => ~computers'[v].isConnected
                     /\ computers'[v].isConnected => computers[v].isConnected
  BY <1>0, <1>2 DEF SetConnectedFalse, ComputerRow
<1>4. LineInv' /\ NoNewDestroys
  BY <1>0, ReturnLines DEF TurnInv, Registered
<1>5. /\ TakesNoLet(t)' /\ SparesPending(t)'
      /\ AtMostOneActiveRental' /\ LetIsBusy' /\ PendingIsNotLet'
  BY <1>0, <1>4, QuietTurn
<1>6. ForgetsDisconnected(t)'
  <2>1. /\ Calls(t)' \subseteq Calls(t)
        /\ Calls(t)' # {} => tasks'[t].vm = tasks[t].vm
    BY <1>0, ReturnKeeps DEF Returns
  <2>2. Do("forget") \in Calls(t) => tasks[t].vm \in Vms
    BY <1>0, SocketNames DEF HandlerInv, AboutSocket, Calls
  <2>3. QED
    BY <1>3, <2>1, <2>2 DEF ForgetsDisconnected
<1>7. ConnectedHasEntry'
  <2>1. \A v \in Vms : IsComputerConnected(v) => IsComputerConnected(v)'
    BY <1>0 DEF IsComputerConnected
  <2>2. QED
    BY <1>0, <1>3, <2>1, ReturnEntries DEF TurnInv, TableInv
<1>8. QED
  BY <1>0, <1>4, <1>5, <1>6, <1>7, HandlerReturns DEF TurnInv, TableInv

-----------------------------------------------------------------------------
(* Calls on the rental table.                                              *)

LEMMA AppendedRental ==
  ASSUME rentals \in Seq(RentalRow), NEW row \in RentalRow, rentals' = Append(rentals, row)
  PROVE  \A v \in Vms : /\ ActiveOn(v)' \subseteq ActiveOn(v) \cup {Len(rentals) + 1}
                        /\ v # row.vmId => ActiveOn(v)' = ActiveOn(v)
<1>1. /\ \A r \in DOMAIN rentals : r \in DOMAIN rentals' /\ rentals'[r] = rentals[r]
      /\ rentals'[Len(rentals) + 1] = row
      /\ \A r \in DOMAIN rentals' : r \in DOMAIN rentals \/ r = Len(rentals) + 1
  BY AppendIndices
<1> DEFINE n == Len(rentals) + 1
<1> HIDE DEF n
<1>2. QED
  BY <1>1 DEF ActiveOn, n

LEMMA InsertTurn ==
  ASSUME TypeOK, TakeTurns, TurnInv, NEW t \in Tasks, InsertRental(t)
  PROVE  TurnInv'
<1> USE DEF tables, agentVars
<1>0. /\ tasks[t] \in Task /\ HandlerInv(t) /\ Returns(t) /\ rentals \in Seq(RentalRow)
      /\ UNCHANGED <<vms, computers, clients, agent, line, up, down>>
      /\ First(t).op = "insertRental" /\ tasks[t].todo # <<>>
  BY DEF TypeOK, TurnInv, InsertRental, Calling, Returns, First
<1>1. First(t) = Do("insertRental") /\ Do("insertRental") \in Calls(t)
  BY <1>0, FirstCalls, CallKinds DEF PlainOp
<1>2. /\ tasks[t].vm \in Vms /\ SetVm("building") \in Calls(t)
      /\ Vacating \cap Calls(t) # {} => Do("closeRental") \in Calls(t)
      /\ Do("destroy_vm") \notin Calls(t)
      /\ \E u \in Users :
           tasks[t].rentalRow = [key |-> NewKey, row |-> NewRental(tasks[t].vm, u)]
  <2>1. AboutVm(tasks[t])
    BY <1>0 DEF HandlerInv
  <2>2. tasks[t].vm \in Vms
    BY <1>1, <2>1 DEF AboutVm, Calls
  <2>3. Do("destroy_vm") \in Calls(t) /\ SetVm("building") \in Calls(t) =>
          "building" = "shutting_down"
    BY <2>1 DEF AboutVm, Calls, VMStatus
  <2>4. QED
    BY <1>1, <2>1, <2>2, <2>3 DEF AboutVm, Calls
<1>3. PICK new \in Vms, u \in Users :
        new = tasks[t].vm /\ rentals' = Append(rentals, NewRental(new, u))
  BY <1>2 DEF InsertRental
<1>4. /\ ActiveOn(new)' \subseteq ActiveOn(new) \cup {Len(rentals) + 1}
      /\ \A v \in Vms : v # new => ActiveOn(v)' = ActiveOn(v)
  <2>1. NewRental(new, u) \in RentalRow /\ NewRental(new, u).vmId = new
    BY RentalRowTypes DEF NewRental
  <2>2. QED
    BY <1>0, <1>2, <1>3, <2>1, AppendedRental
<1>5. FoundBy(new) = {new}
  BY RecordsAssumption DEF FoundBy
<1>6. ActiveOn(new) = {}
  BY <1>0, <1>1, <1>3, <1>5 DEF HandlerInv, TakesNoLet
<1>7. /\ Calls(t) = {First(t)} \cup Calls(t)'
      /\ \A c \in Calls(t)' : c.op \notin FirstOnly
      /\ Calls(t)' # {} => tasks'[t].vm = new
  BY <1>0, <1>3, ReturnKeeps DEF First, Returns
<1>8. /\ SetVm("building") \in Calls(t)' /\ tasks'[t].vm = new
      /\ Vacating \cap Calls(t)' # {} => Do("closeRental") \in Calls(t)'
      /\ Do("destroy_vm") \notin Calls(t)' /\ Do("insertRental") \notin Calls(t)'
  <2>1. First(t) # SetVm("building") /\ First(t) # Do("closeRental")
        /\ Do("insertRental").op \in FirstOnly
    BY <1>1 DEF SetVm, Do, FirstOnly
  <2>2. QED
    BY <1>2, <1>7, <2>1
<1>9. LineInv' /\ NoNewDestroys
  BY <1>0, ReturnLines DEF TurnInv, Registered
<1>10. TakesNoLet(t)'
  BY <1>8 DEF TakesNoLet
<1>11. SparesPending(t)' /\ ForgetsDisconnected(t)'
  BY <1>0, <1>9, ReturnSparesPending, ReturnForgets
<1>12. AtMostOneActiveRental'
  <2>1. \A q, r \in ActiveOn(new)' : q = r
    BY <1>4, <1>6
  <2>2. QED
    BY <1>4, <2>1 DEF TurnInv, TableInv, AtMostOneActiveRental
<1>13. LetIsBusy'
  <2>1. ASSUME NEW v \in Vms, v # new, ActiveOn(v)' # {}
        PROVE  vms'[v].status \in Busy
    <3>1. \A w \in Tasks : ~Secures(w, v)
      BY <1>3, <1>5, <2>1 DEF Secures, TakeTurns
    <3>2. QED
      BY <1>0, <1>4, <2>1, <3>1 DEF TurnInv, TableInv, LetIsBusy
  <2>2. Secures(t, new)'
    BY <1>8 DEF Secures
  <2>3. QED
    BY <2>1, <2>2 DEF LetIsBusy
<1>14. PendingIsNotLet'
  <2>1. ASSUME NEW s \in Sockets, DestroyPending(s)
        PROVE  Owner(s) # new
    <3>1. Do("insertRental") \in Unsettling
      BY DEF Unsettling
    <3>2. QED
      BY <1>0, <1>1, <1>3, <1>5, <2>1, <3>1 DEF HandlerInv, SparesPending
  <2>2. QED
    BY <1>0, <1>4, <1>9, <2>1, SocketNames
       DEF TurnInv, TableInv, PendingIsNotLet, NoNewDestroys
<1>15. ConnectedHasEntry'
  <2>1. \A v \in Vms : IsComputerConnected(v) => IsComputerConnected(v)'
    BY <1>0 DEF IsComputerConnected
  <2>2. QED
    BY <1>0, <2>1, ReturnEntries DEF TurnInv, TableInv
<1>16. QED
  BY <1>0, <1>9, <1>10, <1>11, <1>12, <1>13, <1>14, <1>15, HandlerReturns
     DEF TurnInv, TableInv

\* After the rental of the VM is closed, or when it had none.
LEMMA ClosedTurn ==
  ASSUME TypeOK, TakeTurns, TurnInv, NEW t \in Tasks, Returns(t),
         First(t).op \in {"closeRental", "saveRental"}, NoNewLets,
         UNCHANGED <<vms, computers, clients, agentVars>>,
         \/ \A v \in FoundBy(tasks[t].vm) : ActiveOn(v)' = {}
         \/ Calls(t) = {Do("saveRental")}
  PROVE  TurnInv'
<1> USE DEF agentVars
<1>0. HandlerInv(t) /\ tasks[t].todo # <<>>
  BY DEF TurnInv, Returns
<1>1. LineInv' /\ NoNewDestroys
  BY <1>0, ReturnLines DEF TurnInv, Registered
<1>2. /\ Calls(t) = {First(t)} \cup Calls(t)'
      /\ \A c \in Calls(t)' : c.op \notin FirstOnly
      /\ Calls(t)' # {} => tasks'[t].vm = tasks[t].vm
  BY <1>0, ReturnKeeps DEF First, Returns
<1>3. /\ Do("insertRental") \notin Calls(t)'
      /\ \A status : First(t) # SetVm(status)
      /\ Calls(t) = {Do("saveRental")} => Calls(t)' = {}
  BY <1>2 DEF Do, SetVm, FirstOnly
<1>4. TakesNoLet(t)'
  <2>1. ASSUME NEW v \in FoundBy(tasks[t].vm), Do("destroy_vm") \in Calls(t)'
        PROVE  \/ vms'[v].status = "shutting_down"
               \/ SetVm("shutting_down") \in Calls(t)'
    BY <1>0, <1>2, <1>3, <2>1 DEF HandlerInv, TakesNoLet
  <2>2. QED
    BY <1>2, <1>3, <2>1 DEF TakesNoLet
<1>5. SparesPending(t)' /\ ForgetsDisconnected(t)'
  BY <1>0, <1>1, ReturnSparesPending, ReturnForgets
<1>6. LetIsBusy'
  <2> SUFFICES ASSUME NEW v \in Vms, ActiveOn(v)' # {}
               PROVE  vms[v].status \in Busy
    BY DEF LetIsBusy
  <2>1. ActiveOn(v) # {}
    BY DEF NoNewLets
  <2>2. ~Secures(t, v)
    <3>1. CASE Calls(t) = {Do("saveRental")}
      BY <3>1 DEF Secures, Do, SetVm
    <3>2. CASE \A w \in FoundBy(tasks[t].vm) : ActiveOn(w)' = {}
      BY <3>2, RecordsAssumption DEF Secures, FoundBy
    <3>3. QED
      BY <3>1, <3>2
  <2>3. QED
    BY <2>1, <2>2 DEF TakeTurns, TurnInv, TableInv, LetIsBusy
<1>7. PendingIsNotLet' /\ AtMostOneActiveRental'
  BY <1>1, ReturnPending, ReturnOnce DEF TurnInv, TableInv
<1>8. ConnectedHasEntry'
  <2>1. \A v \in Vms : IsComputerConnected(v) => IsComputerConnected(v)'
    BY DEF IsComputerConnected
  <2>2. QED
    BY <1>0, <2>1, ReturnEntries DEF TurnInv, TableInv
<1>9. QED
  BY <1>0, <1>1, <1>4, <1>5, <1>6, <1>7, <1>8, HandlerReturns DEF TurnInv, TableInv

\* What the save of a rental does to it.
LEMMA SavedRental ==
  ASSUME TypeOK, TurnInv, NEW t \in Tasks, SaveRental(t)
  PROVE  LET r == tasks[t].rentalRow.key
             row == tasks[t].rentalRow.row
         IN  /\ r \in DOMAIN rentals /\ rentals[r] \in RentalRow
             /\ rentals[r].vmId \in FoundBy(tasks[t].vm)
             /\ rentals' = [rentals EXCEPT ![r] = row]
             /\ \/ /\ EndsRental(t, r, row)
                   /\ \A v \in Vms : ActiveOn(v)' = ActiveOn(v) \ {r}
                \/ /\ PaysRental(t, r, row)
                   /\ \A v \in Vms : ActiveOn(v)' = ActiveOn(v)
<1> DEFINE r == tasks[t].rentalRow.key
           row == tasks[t].rentalRow.row
<1>1. /\ r \in DOMAIN rentals /\ rentals' = [rentals EXCEPT ![r] = row]
      /\ rentals[r].vmId \in FoundBy(tasks[t].vm)
      /\ EndsRental(t, r, row) \/ PaysRental(t, r, row)
  BY DEF SaveRental, TurnInv, HandlerInv, RentalIsFresh
<1>2. rentals[r] \in RentalRow /\ rentals \in Seq(RentalRow)
  BY <1>1, LenProperties, ElementOfSeq DEF TypeOK
<1>3. DOMAIN rentals' = DOMAIN rentals /\ rentals'[r] = row
      /\ \A q \in DOMAIN rentals : q # r => rentals'[q] = rentals[q]
  BY <1>1, <1>2
<1> HIDE DEF r, row
<1>4. CASE EndsRental(t, r, row)
  <2>1. row.state = "not_active"
    BY <1>2, <1>4 DEF EndsRental, EndedRental, RentalRow
  <2>2. \A v \in Vms : ActiveOn(v)' = ActiveOn(v) \ {r}
    BY <1>1, <1>3, <2>1 DEF ActiveOn
  <2>3. QED
    BY <1>1, <1>2, <1>4, <2>2 DEF r, row
<1>5. CASE PaysRental(t, r, row)
  <2>1. row.state = rentals[r].state /\ row.vmId = rentals[r].vmId
    BY <1>2, <1>5 DEF PaysRental, PaidRental, RentalRow
  <2>2. \A v \in Vms : ActiveOn(v)' = ActiveOn(v)
    BY <1>1, <1>3, <2>1 DEF ActiveOn
  <2>3. QED
    BY <1>1, <1>2, <1>5, <2>2 DEF r, row
<1>6. QED
  BY <1>1, <1>4, <1>5

LEMMA SaveRentalTurn ==
  ASSUME TypeOK, TakeTurns, NullReportsFindOne, TurnInv, NEW t \in Tasks,
         SaveRental(t) \/ NoActiveRental(t)
  PROVE  TurnInv'
<1> USE DEF tables, agentVars
<1>0. /\ Returns(t) /\ tasks[t].todo # <<>>
      /\ First(t).op \in {"closeRental", "saveRental"}
      /\ UNCHANGED <<vms, computers, clients, agent, line, up, down>>
  BY DEF SaveRental, NoActiveRental, Calling, Returns, First
<1>1. CASE NoActiveRental(t)
  <2>1. UNCHANGED rentals /\ ActiveRentals(tasks[t].vm) = {}
    BY <1>1 DEF NoActiveRental
  <2>2. \A v \in FoundBy(tasks[t].vm) : ActiveOn(v)' = {}
    BY <2>1 DEF ActiveRentals, ActiveOn
  <2>3. QED
    BY <1>0, <2>1, <2>2, SameLets, ClosedTurn
<1>2. CASE SaveRental(t)
  <2> DEFINE r == tasks[t].rentalRow.key
             row == tasks[t].rentalRow.row
  <2>1. /\ r \in DOMAIN rentals /\ rentals[r].vmId \in FoundBy(tasks[t].vm)
        /\ \/ /\ EndsRental(t, r, row)
              /\ \A v \in Vms : ActiveOn(v)' = ActiveOn(v) \ {r}
           \/ /\ PaysRental(t, r, row)
              /\ \A v \in Vms : ActiveOn(v)' = ActiveOn(v)
    BY <1>2, SavedRental
  <2> HIDE DEF r, row
  <2>2. NoNewLets
    BY <2>1 DEF NoNewLets
  <2>3. CASE EndsRental(t, r, row) /\ \A v \in Vms : ActiveOn(v)' = ActiveOn(v) \ {r}
    <3>1. ASSUME NEW v \in FoundBy(tasks[t].vm) PROVE ActiveOn(v)' = {}
      <4>1. v = rentals[r].vmId /\ v \in Vms
        BY <1>0, <2>1, FoundAreVms, RecordsAssumption DEF FoundBy, NullReportsFindOne
      <4>2. r \in ActiveOn(v)
        BY <2>1, <2>3, <4>1 DEF ActiveOn, EndsRental
      <4>3. QED
        BY <2>3, <4>1, <4>2 DEF TurnInv, TableInv, AtMostOneActiveRental
    <3>2. QED
      BY <1>0, <2>2, <3>1, ClosedTurn
  <2>4. CASE PaysRental(t, r, row)
    BY <1>0, <2>2, <2>4, ClosedTurn DEF PaysRental
  <2>5. QED
    BY <2>1, <2>3, <2>4
<1>3. QED
  BY <1>1, <1>2

-----------------------------------------------------------------------------
(* Calls of the gateway.                                                   *)

\* An order, or an acknowledgment, goes down on a socket that is known.
LEMMA EmitLines ==
  ASSUME TypeOK, LineInv, NEW s \in Sockets, NEW m \in DownOf(Owner(s)), Emit(s, m),
         UNCHANGED <<agent, line, up>>, ~Carries(up[s], Hello),
         \A r \in Sockets : Registered(r)' => Registered(r) \/ r = s,
         \A t \in Tasks : Do("connect") \in Calls(t)' =>
           Do("connect") \in Calls(t) /\ tasks'[t].socket = tasks[t].socket,
         m.type = "destroy_vm" => ~DestroyPending(s)
  PROVE  /\ LineInv'
         /\ \A r \in Sockets : DestroyPending(r)' =>
              DestroyPending(r) \/ (m.type = "destroy_vm" /\ r = s)
<1>0. /\ down \in [Sockets -> Seq(DownMessage)]
      /\ \A r \in Sockets : down[r] \in Seq(DownOf(Owner(r)))
  BY DEF TypeOK, AgentTypeOK, LineInv, OwnMessages
<1>1. /\ \A r \in Sockets : r # s => down'[r] = down[r]
      /\ down'[s] = down[s] \/ down'[s] = Append(down[s], m)
  BY <1>0 DEF Emit
<1>2. Append(down[s], m) \in Seq(DownOf(Owner(s)))
  BY <1>0, AppendProperties
<1>3. Single(down[s], "destroy_vm")
  BY DEF LineInv, QueuesInOrder
<1>4. /\ Carries(Append(down[s], m), "destroy_vm") =>
           Carries(down[s], "destroy_vm") \/ m.type = "destroy_vm"
      /\ (m.type = "destroy_vm" => ~Carries(down[s], "destroy_vm")) =>
           Single(Append(down[s], m), "destroy_vm")
  BY <1>0, <1>3, AddLast
<1>5. /\ Single(down'[s], "destroy_vm")
      /\ Carries(down'[s], "destroy_vm") =>
           Carries(down[s], "destroy_vm") \/ (m.type = "destroy_vm" /\ ~DestroyPending(s))
  BY <1>1, <1>3, <1>4 DEF DestroyPending
<1>6. \A r \in Sockets : DestroyPending(r)' =>
        DestroyPending(r) \/ (m.type = "destroy_vm" /\ r = s)
  BY <1>1, <1>5 DEF DestroyPending
<1>7. OneConnection' /\ DeadAreEmpty'
  BY DEF LineInv, OneConnection, DeadAreEmpty
<1>8. OwnMessages'
  BY <1>0, <1>1, <1>2 DEF LineInv, OwnMessages
<1>9. QueuesInOrder'
  BY <1>1, <1>5 DEF LineInv, QueuesInOrder, DestroyPending
<1>10. HelloIsNews'
  BY <1>6 DEF LineInv, HelloIsNews
<1>11. QED
  BY <1>6, <1>7, <1>8, <1>9, <1>10 DEF LineInv

LEMMA FirstSocketFacts ==
  ASSUME LineInv, NEW v, NEW s \in Sockets, FirstSocket(v, s), NEW type \in DownType
  PROVE  /\ v = Owner(s) /\ v \in Vms /\ Registered(s) /\ ~Carries(up[s], Hello)
         /\ Message(type, v) \in DownOf(Owner(s)) /\ Message(type, v).type = type
<1>1. v = Owner(s) /\ v \in Vms /\ Registered(s)
  BY SocketNames DEF FirstSocket, Registered
<1>2. QED
  BY <1>1 DEF LineInv, HelloIsNews, Message, DownOf, DownMessage

\* A handler that goes on with other calls than the ones it had.
LEMMA ContinueTurn ==
  ASSUME TypeOK, TakeTurns, TurnInv, NEW t \in Tasks, tasks[t].todo # <<>>,
         First(t).op \in LastOnly, NEW rest \in Seq(Call), ContinueWith(t, rest),
         UNCHANGED <<vms, computers, rentals, clients, agentVars>>, Ordered(rest),
         \A c \in Among(rest) : c.op \in {"closeRental", "reconcileRental", "vmStatus",
                                          "computerStatus", "setCurrentVM"},
         Do("reconcileRental") \in Among(rest) => tasks[t].vm \in Vms,
         \A v \in FoundBy(tasks[t].vm) :
           Vacating \cap Among(rest) # {} =>
             ActiveOn(v) = {} \/ Do("closeRental") \in Among(rest),
         \A s \in Sockets : DestroyPending(s) /\ Owner(s) \in FoundBy(tasks[t].vm) =>
           Unsettling \cap Among(rest) = {}
  PROVE  TurnInv'
<1> USE DEF agentVars
<1>0. /\ HandlerInv(t) /\ \A u \in Tasks : u = t
      /\ Calls(t) = {First(t)} /\ First(t) \in Call
  BY FirstCalls DEF TurnInv, TakeTurns
<1>1. /\ Calls(t)' = Among(rest) /\ tasks'[t].todo = rest
      /\ Calls(t)' # {} => tasks'[t].vm = tasks[t].vm
      /\ tasks'[t].vmRow = None /\ tasks'[t].computerRow = None
      /\ tasks'[t].rentalRow = None
  BY Continues
<1>2. \A op \in {"connect", "forget", "register", "setConnected", "insertRental",
                 "destroy_vm", "reconcileVm", "saveRental"} : Do(op) \notin Among(rest)
  BY DEF Do
<1>3. LineInv' /\ \A s \in Sockets : DestroyPending(s)' <=> DestroyPending(s)
  <2>1. NoNewEntries
    BY <1>0, <1>1, <1>2 DEF NoNewEntries, Registered
  <2>2. QED
    BY <2>1, SameLines DEF TurnInv
<1>4. \A v \in Vms : /\ ActiveOn(v)' = ActiveOn(v)
                     /\ IsComputerConnected(v)' <=> IsComputerConnected(v)
  BY DEF ActiveOn, IsComputerConnected
<1>5. AboutSocket(tasks'[t]) /\ AboutVm(tasks'[t])
  <2>1. AboutSocket(tasks'[t])
    BY <1>1, <1>2 DEF AboutSocket
  <2>2. Do("reconcileRental") \in Among(rest) => tasks'[t].vm \in Vms
    BY <1>1
  <2>3. QED
    BY <1>1, <1>2, <2>1, <2>2 DEF AboutVm
<1>6. ComputerIsFresh(t)' /\ RentalIsFresh(t)' /\ ForgetsDisconnected(t)'
  BY <1>1, <1>2 DEF ComputerIsFresh, RentalIsFresh, ForgetsDisconnected
<1>7. TakesNoLet(t)'
  BY <1>1, <1>2, <1>4, FoundAreVms DEF TakesNoLet
<1>8. SparesPending(t)'
  BY <1>1, <1>3 DEF SparesPending
<1>9. HandlerInv(t)'
  BY <1>1, <1>5, <1>6, <1>7, <1>8 DEF HandlerInv
<1>10. LetIsBusy'
  <2>1. \A u \in Tasks, v \in Vms : ~Secures(u, v)
    BY <1>0 DEF Secures, LastOnly, SetVm, Do
  <2>2. QED
    BY <1>4, <2>1 DEF TurnInv, TableInv, LetIsBusy
<1>11. ConnectedHasEntry'
  <2>1. \A u \in Tasks : Do("connect") \notin Calls(u)
    BY <1>0 DEF LastOnly, Do
  <2>2. QED
    BY <1>4, <2>1 DEF TurnInv, TableInv, ConnectedHasEntry
<1>12. AtMostOneActiveRental' /\ PendingIsNotLet'
  BY <1>3, <1>4, SocketNames DEF TurnInv, TableInv, AtMostOneActiveRental, PendingIsNotLet
<1>13. QED
  BY <1>0, <1>3, <1>9, <1>10, <1>11, <1>12 DEF TurnInv, TableInv

LEMMA OrderedLists ==
  /\ Ordered(<<>>)
  /\ \A a : Ordered(<<a>>)
  /\ \A a, b : b.op \notin FirstOnly /\ a.op \notin LastOnly => Ordered(<<a, b>>)
  /\ \A a, b, c : {b.op, c.op} \cap FirstOnly = {} /\ {a.op, b.op} \cap LastOnly = {} =>
       Ordered(<<a, b, c>>)
  /\ \A a, b, c, d :
       {b.op, c.op, d.op} \cap FirstOnly = {} /\ {a.op, b.op, c.op} \cap LastOnly = {} =>
       Ordered(<<a, b, c, d>>)
<1>1. /\ DOMAIN <<>> = {}
      /\ \A a : DOMAIN <<a>> = {1}
      /\ \A a, b : DOMAIN <<a, b>> = {1, 2}
      /\ \A a, b, c : DOMAIN <<a, b, c>> = {1, 2, 3}
      /\ \A a, b, c, d : DOMAIN <<a, b, c, d>> = {1, 2, 3, 4}
  OBVIOUS
<1>2. /\ \A a : Len(<<a>>) = 1
      /\ \A a, b : Len(<<a, b>>) = 2
      /\ \A a, b, c : Len(<<a, b, c>>) = 3
      /\ \A a, b, c, d : Len(<<a, b, c, d>>) = 4
  OBVIOUS
<1>3. QED
  BY <1>1, <1>2 DEF Ordered

LEMMA ProvisionTurn ==
  ASSUME TypeOK, TakeTurns, TurnInv, NEW t \in Tasks, SendProvisionVM(t)
  PROVE  TurnInv'
<1> USE DEF tables, agentVars
<1>0. /\ HandlerInv(t) /\ tasks[t].todo # <<>> /\ First(t).op = "provision_vm"
      /\ UNCHANGED <<vms, computers, rentals, clients, agent, line, up>>
  BY DEF TurnInv, SendProvisionVM, Calling, First
<1>1. CASE Return(t) /\ \E s \in Sockets : /\ FirstSocket(tasks[t].vm, s)
                                           /\ Emit(s, Message("provision_vm", tasks[t].vm))
  <2>1. PICK s \in Sockets : /\ FirstSocket(tasks[t].vm, s)
                             /\ Emit(s, Message("provision_vm", tasks[t].vm))
    BY <1>1
  <2> DEFINE m == Message("provision_vm", tasks[t].vm)
  <2>2. m \in DownOf(Owner(s)) /\ m.type # "destroy_vm" /\ ~Carries(up[s], Hello)
    BY <2>1, FirstSocketFacts DEF TurnInv, DownType
  <2>3. Returns(t)
    BY <1>0, <1>1 DEF Returns
  <2>4. NoNewEntries
    BY <1>0, <2>3, ReturnLines DEF TurnInv, Registered
  <2>5. Emit(s, m)
    BY <2>1
  <2> HIDE DEF m
  <2>6. LineInv' /\ NoNewDestroys
    BY <1>0, <2>2, <2>4, <2>5, EmitLines DEF TurnInv, NoNewDestroys, NoNewEntries
  <2>7. /\ TakesNoLet(t)' /\ SparesPending(t)'
        /\ AtMostOneActiveRental' /\ LetIsBusy' /\ PendingIsNotLet'
    BY <1>0, <2>3, <2>6, QuietTurn
  <2>8. ForgetsDisconnected(t)'
    BY <1>0, <2>3, ReturnForgets
  <2>9. ConnectedHasEntry'
    <3>1. \A v \in Vms : IsComputerConnected(v) => IsComputerConnected(v)'
      BY <1>0 DEF IsComputerConnected
    <3>2. QED
      BY <1>0, <2>3, <3>1, ReturnEntries DEF TurnInv, TableInv
  <2>10. QED
    BY <1>0, <2>3, <2>6, <2>7, <2>8, <2>9, HandlerReturns DEF TurnInv, TableInv
<1>2. CASE /\ ContinueWith(t, <<Do("closeRental"), SetVm("failed")>>)
           /\ UNCHANGED down
  <2> DEFINE rest == <<Do("closeRental"), SetVm("failed")>>
  <2>1. rest \in Seq(Call) /\ Among(rest) = {Do("closeRental"), SetVm("failed")}
    BY CallLists, ShortLists, ListsOfCalls DEF PlainOp, VMStatus
  <2>2. Ordered(rest)
    BY OrderedLists DEF Do, SetVm, FirstOnly, LastOnly
  <2>3. ContinueWith(t, rest)
    BY <1>2
  <2>4. /\ \A c \in Among(rest) : c.op \in {"closeRental", "vmStatus"}
        /\ Do("reconcileRental") \notin Among(rest)
        /\ Unsettling \cap Among(rest) = {}
    BY <2>1 DEF Do, SetVm, Unsettling
  <2> HIDE DEF rest
  <2>5. QED
    BY <1>0, <1>2, <2>1, <2>2, <2>3, <2>4, ContinueTurn DEF LastOnly
<1>3. QED
  BY <1>1, <1>2 DEF SendProvisionVM

LEMMA OrderDestroyTurn ==
  ASSUME TypeOK, TakeTurns, TurnInv, NEW t \in Tasks, SendDestroyVM(t)
  PROVE  TurnInv'
<1> USE DEF tables, agentVars
<1>0. /\ HandlerInv(t) /\ tasks[t].todo # <<>> /\ First(t).op = "destroy_vm"
      /\ UNCHANGED <<vms, computers, rentals, clients, agent, line, up>>
      /\ \A u \in Tasks : u = t
  BY DEF TurnInv, TakeTurns, SendDestroyVM, Calling, First
<1>1. First(t) = Do("destroy_vm") /\ Calls(t) = {Do("destroy_vm")}
  BY <1>0, FirstCalls, CallKinds DEF PlainOp, LastOnly
<1>2. tasks[t].vm \in Vms
  BY <1>0, <1>1 DEF HandlerInv, AboutVm, Calls
<1>3. PICK v \in Vms : v = tasks[t].vm
  BY <1>2
<1>4. /\ FoundBy(v) = {v} /\ ActiveOn(v) = {} /\ vms[v].status = "shutting_down"
      /\ \A s \in Sockets : Owner(s) = v => ~DestroyPending(s)
  <2>1. FoundBy(v) = {v}
    BY RecordsAssumption DEF FoundBy
  <2>2. Do("destroy_vm") \in Unsettling
    BY DEF Unsettling
  <2>3. ~Ending(t) /\ SetVm("shutting_down") \notin Calls(t)
    BY <1>1 DEF Ending, Do, SetVm
  <2>4. QED
    BY <1>0, <1>1, <1>3, <2>1, <2>2, <2>3 DEF HandlerInv, TakesNoLet, SparesPending
<1>5. CASE Return(t) /\ \E s \in Sockets : /\ FirstSocket(tasks[t].vm, s)
                                           /\ Emit(s, Message("destroy_vm", tasks[t].vm))
  <2>1. PICK s \in Sockets : FirstSocket(v, s) /\ Emit(s, Message("destroy_vm", v))
    BY <1>3, <1>5
  <2> DEFINE m == Message("destroy_vm", v)
  <2>2. m \in DownOf(Owner(s)) /\ m.type = "destroy_vm" /\ ~Carries(up[s], Hello)
        /\ Owner(s) = v
    BY <2>1, FirstSocketFacts DEF TurnInv, DownType
  <2>3. Returns(t)
    BY <1>0, <1>5 DEF Returns
  <2>4. NoNewEntries
    BY <1>0, <2>3, ReturnLines DEF TurnInv, Registered
  <2>5. Emit(s, m)
    BY <2>1
  <2> HIDE DEF m
  <2>6. LineInv' /\ \A r \in Sockets : DestroyPending(r)' => DestroyPending(r) \/ r = s
    BY <1>0, <1>4, <2>2, <2>4, <2>5, EmitLines DEF TurnInv, NoNewEntries
  <2>7. Calls(t)' = {}
    BY <1>0, <2>3, ReturnKeeps DEF Returns, First, LastOnly
  <2>8. TakesNoLet(t)' /\ SparesPending(t)' /\ ForgetsDisconnected(t)'
    BY <2>7 DEF TakesNoLet, SparesPending, ForgetsDisconnected
  <2>9. \A w \in Vms : /\ ActiveOn(w)' = ActiveOn(w)
                       /\ IsComputerConnected(w)' <=> IsComputerConnected(w)
    BY <1>0 DEF ActiveOn, IsComputerConnected
  <2>10. AtMostOneActiveRental' /\ PendingIsNotLet'
    BY <1>0, <1>4, <2>2, <2>6, <2>9, SocketNames
       DEF TurnInv, TableInv, AtMostOneActiveRental, PendingIsNotLet
  <2>11. LetIsBusy'
    <3>1. \A u \in Tasks, w \in Vms : ~Secures(u, w)
      BY <1>0, <1>1 DEF Secures, SetVm, Do
    <3>2. QED
      BY <1>0, <2>9, <3>1 DEF TurnInv, TableInv, LetIsBusy
  <2>12. ConnectedHasEntry'
    BY <1>0, <2>3, <2>9, ReturnEntries DEF TurnInv, TableInv
  <2>13. QED
    BY <1>0, <2>3, <2>6, <2>8, <2>10, <2>11, <2>12, HandlerReturns DEF TurnInv, TableInv
<1>6. CASE ContinueWith(t, <<SetVm("offline")>>) /\ UNCHANGED down
  <2> DEFINE rest == <<SetVm("offline")>>
  <2>1. rest \in Seq(Call) /\ Among(rest) = {SetVm("offline")}
    BY CallLists, ShortLists, ListsOfCalls DEF VMStatus
  <2>2. Ordered(rest) /\ ContinueWith(t, rest)
    BY <1>6, OrderedLists
  <2>3. /\ \A c \in Among(rest) : c.op = "vmStatus"
        /\ Do("reconcileRental") \notin Among(rest)
    BY <2>1 DEF Do, SetVm
  <2> HIDE DEF rest
  <2>4. QED
    BY <1>0, <1>3, <1>4, <1>6, <2>1, <2>2, <2>3, ContinueTurn DEF LastOnly
<1>7. QED
  BY <1>5, <1>6 DEF SendDestroyVM

\* A heartbeat of a computer frees its VM if it is OFFLINE and not let.
LEMMA ReconcileTurn ==
  ASSUME TypeOK, TakeTurns, TurnInv, NEW t \in Tasks, ReconcileVm(t) \/ ReconcileRental(t)
  PROVE  TurnInv'
<1> USE DEF tables, agentVars
<1>0. /\ HandlerInv(t) /\ tasks[t].todo # <<>>
      /\ First(t).op \in {"reconcileVm", "reconcileRental"}
      /\ UNCHANGED <<vms, computers, rentals, clients, agent, line, up, down>>
  BY DEF TurnInv, ReconcileVm, ReconcileRental, Calling, First
<1>1. First(t) = Do(First(t).op) /\ First(t) \in Calls(t)
  BY <1>0, FirstCalls, CallKinds DEF PlainOp
<1>2. tasks[t].vm \in Vms
  BY <1>0, <1>1 DEF HandlerInv, AboutVm, Calls
<1>3. PICK v \in Vms : v = tasks[t].vm
  BY <1>2
<1>4. FoundBy(v) = {v}
  BY RecordsAssumption DEF FoundBy
<1>5. CASE ContinueWith(t, <<>>)
  <2>1. <<>> \in Seq(Call) /\ Among(<<>>) = {} /\ Ordered(<<>>)
    BY ShortLists, ListsOfCalls, OrderedLists
  <2>2. QED
    BY <1>0, <1>5, <2>1, ContinueTurn DEF LastOnly
<1>6. CASE /\ ContinueWith(t, <<Do("reconcileRental")>>)
           /\ vms[v].status = "offline"
  <2> DEFINE rest == <<Do("reconcileRental")>>
  <2>1. rest \in Seq(Call) /\ Among(rest) = {Do("reconcileRental")}
    BY CallLists, ShortLists, ListsOfCalls DEF PlainOp
  <2>2. Ordered(rest) /\ ContinueWith(t, rest)
    BY <1>6, OrderedLists
  <2>3. /\ \A c \in Among(rest) : c.op = "reconcileRental"
        /\ Vacating \cap Among(rest) = {}
    BY <2>1 DEF Do, SetVm, Vacating
  <2>4. \A s \in Sockets : DestroyPending(s) => Owner(s) # v
    BY <1>6 DEF TurnInv, TableInv, PendingIsNotLet
  <2> HIDE DEF rest
  <2>5. QED
    BY <1>0, <1>3, <1>4, <2>1, <2>2, <2>3, <2>4, ContinueTurn DEF LastOnly
<1>7. CASE /\ First(t).op = "reconcileRental" /\ ActiveRentals(v) = {}
           /\ ContinueWith(t, <<SetComputer("available"), SetCurrentVM("null"),
                                SetVm("available")>>)
  <2> DEFINE rest == <<SetComputer("available"), SetCurrentVM("null"), SetVm("available")>>
  <2>1. rest \in Seq(Call)
        /\ Among(rest) = {SetComputer("available"), SetCurrentVM("null"), SetVm("available")}
    BY CallLists, ShortLists, ListsOfCalls DEF VMStatus, ComputerStatus
  <2>2. Ordered(rest) /\ ContinueWith(t, rest)
    BY <1>7, OrderedLists DEF SetComputer, SetCurrentVM, SetVm, FirstOnly, LastOnly
  <2>3. /\ \A c \in Among(rest) : c.op \in {"computerStatus", "setCurrentVM", "vmStatus"}
        /\ Do("reconcileRental") \notin Among(rest)
    BY <2>1 DEF Do, SetVm, SetComputer, SetCurrentVM
  <2>4. ActiveOn(v) = {}
    BY <1>4, <1>7 DEF ActiveOn, ActiveRentals
  <2>5. \A s \in Sockets : DestroyPending(s) => Owner(s) # v
    <3>1. Do("reconcileRental") \in Unsettling \cap Calls(t)
      BY <1>1, <1>7 DEF Unsettling
    <3>2. QED
      BY <1>0, <1>3, <1>4, <3>1 DEF HandlerInv, SparesPending
  <2> HIDE DEF rest
  <2>6. QED
    BY <1>0, <1>3, <1>4, <2>1, <2>2, <2>3, <2>4, <2>5, ContinueTurn DEF LastOnly
<1>8. QED
  BY <1>3, <1>5, <1>6, <1>7 DEF ReconcileVm, ReconcileRental, Calling, First

LEMMA EntryTurn ==
  ASSUME TypeOK, TakeTurns, TurnInv, NEW t \in Tasks, Connect(t)
  PROVE  TurnInv'
<1> USE DEF tables, agentVars
<1>0. /\ HandlerInv(t) /\ Returns(t) /\ tasks[t].todo # <<>> /\ First(t).op = "connect"
      /\ UNCHANGED <<vms, computers, rentals, agent, line, up>>
      /\ \A u \in Tasks : u = t
  BY DEF TurnInv, TakeTurns, Connect, Calling, Returns, First
<1>1. Do("connect") \in Calls(t) /\ First(t) = Do("connect")
  BY <1>0, FirstCalls, CallKinds DEF PlainOp
<1>2. PICK s \in Sockets : /\ tasks[t].socket = s /\ clients' = Append(clients, s)
                           /\ Emit(s, Message("connection_acknowledged", tasks[t].vm))
  BY DEF Connect
<1>3. tasks[t].vm = Owner(s) /\ Owner(s) \in Vms
  BY <1>0, <1>1, <1>2, SocketNames DEF HandlerInv, AboutSocket, Calls
<1> DEFINE m == Message("connection_acknowledged", Owner(s))
<1>4. m \in DownOf(Owner(s)) /\ m.type # "destroy_vm" /\ Emit(s, m)
  BY <1>2, <1>3 DEF Message, DownOf, DownMessage, DownType
<1>5. ~Carries(up[s], Hello)
  BY <1>1, <1>2 DEF TurnInv, LineInv, HelloIsNews
<1> HIDE DEF m
<1>6. /\ \A i \in DOMAIN clients : i \in DOMAIN clients' /\ clients'[i] = clients[i]
      /\ \A i \in DOMAIN clients' : i \in DOMAIN clients \/ clients'[i] = s
      /\ \E i \in DOMAIN clients' : clients'[i] = s
  <2>1. clients \in Seq(Sockets)
    BY DEF TypeOK
  <2>2. /\ \A i \in DOMAIN clients : i \in DOMAIN clients' /\ clients'[i] = clients[i]
        /\ \A i \in DOMAIN clients' : i \in DOMAIN clients \/ i = Len(clients) + 1
        /\ clients'[Len(clients) + 1] = s /\ DOMAIN clients' = 1 .. Len(clients) + 1
        /\ Len(clients) \in Nat
    BY <1>2, <2>1, AppendIndices
  <2>3. Len(clients) + 1 \in DOMAIN clients'
    BY <2>2
  <2>4. QED
    BY <2>2, <2>3
<1>7. /\ \A r \in Sockets : Registered(r)' => Registered(r) \/ r = s
      /\ \A v \in Vms : IsComputerConnected(v) => IsComputerConnected(v)'
      /\ IsComputerConnected(Owner(s))'
  <2>1. \A r \in Sockets : Registered(r)' => Registered(r) \/ r = s
    BY <1>6 DEF Registered
  <2>2. \A v \in Vms : IsComputerConnected(v) => IsComputerConnected(v)'
    BY <1>6 DEF IsComputerConnected
  <2>3. IsComputerConnected(Owner(s))'
    BY <1>6 DEF IsComputerConnected
  <2>4. QED
    BY <2>1, <2>2, <2>3
<1>8. /\ Calls(t) = {First(t)} \cup Calls(t)'
      /\ Calls(t)' # {} => /\ tasks'[t].vm = tasks[t].vm
                           /\ tasks'[t].socket = tasks[t].socket
  BY <1>0, ReturnKeeps DEF First, Returns
<1>9. LineInv' /\ NoNewDestroys
  BY <1>0, <1>4, <1>5, <1>7, <1>8, EmitLines DEF TurnInv, NoNewDestroys
<1>10. /\ TakesNoLet(t)' /\ SparesPending(t)'
       /\ AtMostOneActiveRental' /\ LetIsBusy' /\ PendingIsNotLet'
  BY <1>0, <1>9, QuietTurn
<1>11. ForgetsDisconnected(t)'
  BY <1>0, ReturnForgets
<1>12. ConnectedHasEntry'
  BY <1>0, <1>3, <1>7 DEF TurnInv, TableInv, ConnectedHasEntry
<1>13. QED
  BY <1>0, <1>9, <1>10, <1>11, <1>12, HandlerReturns DEF TurnInv, TableInv

LEMMA ForgetTurn ==
  ASSUME TypeOK, TakeTurns, TurnInv, NEW t \in Tasks, Forget(t)
  PROVE  TurnInv'
<1> USE DEF tables, agentVars
<1>0. /\ HandlerInv(t) /\ Returns(t) /\ tasks[t].todo # <<>> /\ First(t).op = "forget"
      /\ UNCHANGED <<vms, computers, rentals, agent, line, up, down>>
      /\ clients \in Seq(Sockets)
  BY DEF TypeOK, TurnInv, Forget, Calling, Returns, First
<1>1. Do("forget") \in Calls(t) /\ First(t) = Do("forget")
  BY <1>0, FirstCalls, CallKinds DEF PlainOp
<1>2. PICK i \in DOMAIN clients :
        /\ clients[i] = tasks[t].socket
        /\ clients' = SubSeq(clients, 1, i - 1) \o SubSeq(clients, i + 1, Len(clients))
  BY DEF Forget
<1>3. i \in 1 .. Len(clients)
  BY <1>0, LenProperties
<1>4. /\ \A j \in DOMAIN clients' : \E k \in DOMAIN clients : clients'[j] = clients[k]
      /\ \A k \in DOMAIN clients : k # i => \E j \in DOMAIN clients' : clients'[j] = clients[k]
  BY <1>0, <1>2, <1>3, WithoutOne
<1>5. \A s \in Sockets : Registered(s)' => Registered(s)
  BY <1>4 DEF Registered
<1>6. tasks[t].vm \in Vms /\ tasks[t].vm = Owner(clients[i])
  BY <1>0, <1>1, <1>2, SocketNames DEF HandlerInv, AboutSocket, Calls
<1>7. ~computers[tasks[t].vm].isConnected
  <2>1. Do("setConnected") \notin Calls(t)
    <3>1. Do("setConnected").op \in FirstOnly /\ Do("setConnected").op # First(t).op
      BY <1>0 DEF FirstOnly, Do
    <3>2. QED
      BY <1>0, <3>1, FirstCalls
  <2>2. QED
    BY <1>0, <1>1, <2>1 DEF HandlerInv, ForgetsDisconnected
<1>8. LineInv' /\ NoNewDestroys
  BY <1>0, <1>5, ReturnLines DEF TurnInv
<1>9. /\ TakesNoLet(t)' /\ SparesPending(t)'
      /\ AtMostOneActiveRental' /\ LetIsBusy' /\ PendingIsNotLet'
  BY <1>0, <1>8, QuietTurn
<1>10. ForgetsDisconnected(t)'
  BY <1>0, ReturnForgets
<1>11. ConnectedHasEntry'
  <2>1. ASSUME NEW v \in Vms, computers[v].isConnected, IsComputerConnected(v)
        PROVE  IsComputerConnected(v)'
    <3>1. PICK k \in DOMAIN clients : Owner(clients[k]) = v
      BY <2>1 DEF IsComputerConnected
    <3>2. k # i
      BY <1>6, <1>7, <2>1, <3>1
    <3>3. QED
      BY <1>4, <3>1, <3>2 DEF IsComputerConnected
  <2>2. QED
    BY <1>0, <2>1, ReturnEntries DEF TurnInv, TableInv
<1>12. QED
  BY <1>0, <1>8, <1>9, <1>10, <1>11, HandlerReturns DEF TurnInv, TableInv

LEMMA OrderedJoin ==
  ASSUME NEW p \in Seq(Call), NEW q \in Seq(Call), Ordered(p), Ordered(q),
         \A c \in Among(p) : c.op \notin LastOnly,
         \A c \in Among(q) : c.op \notin FirstOnly
  PROVE  Ordered(p \o q)
<1> DEFINE r == p \o q
           m == Len(p)
           n == Len(q)
<1>1. m \in Nat /\ n \in Nat /\ DOMAIN p = 1 .. m /\ DOMAIN q = 1 .. n
  BY LenProperties
<1>2. /\ r \in Seq(Call) /\ Len(r) = m + n
      /\ \A i \in 1 .. m + n : r[i] = IF i <= m THEN p[i] ELSE q[i - m]
  BY ConcatProperties
<1>3. DOMAIN r = 1 .. m + n
  BY <1>2, LenProperties
<1>4. n = Len(q)
  OBVIOUS
<1> HIDE DEF r, m, n
<1>5. ASSUME NEW i \in 1 .. m + n
      PROVE  /\ r[i].op \in FirstOnly => i = 1
             /\ r[i].op \in LastOnly => i = m + n
  <2>1. CASE i <= m
    <3>1. i \in DOMAIN p /\ r[i] = p[i]
      BY <1>1, <1>2, <2>1
    <3>2. QED
      BY <3>1 DEF Ordered, Among
  <2>2. CASE ~(i <= m)
    <3>1. i - m \in 1 .. n /\ (i - m = n => i = m + n)
      BY <1>1, <2>2
    <3>2. r[i] = q[i - m]
      BY <1>2, <2>2
    <3>3. QED
      BY <1>1, <1>4, <3>1, <3>2 DEF Ordered, Among
  <2>3. QED
    BY <2>1, <2>2
<1>6. QED
  BY <1>2, <1>3, <1>5 DEF Ordered, r

LEMMA OfflineTurn ==
  ASSUME TypeOK, TakeTurns, TurnInv, NEW t \in Tasks, OfflineIfBusy(t)
  PROVE  TurnInv'
<1> USE DEF tables, agentVars
<1>0. /\ HandlerInv(t) /\ tasks[t].todo # <<>> /\ First(t).op = "offlineIfBusy"
      /\ UNCHANGED <<vms, computers, rentals, clients, agent, line, up, down>>
      /\ vms \in [Vms -> VmRow] /\ \A u \in Tasks : u = t
  BY DEF TypeOK, TurnInv, TakeTurns, OfflineIfBusy, Calling, First
<1>1. PICK next \in VMStatus : ContinueWith(t, <<SetVm(next)>> \o Later(t))
  <2>1. PICK v \in Vms : ContinueWith(t, <<SetVm(
           IF vms[v].status \in {"running", "building", "shutting_down"}
           THEN "offline" ELSE vms[v].status)>> \o Later(t))
    BY DEF OfflineIfBusy
  <2>2. vms[v].status \in VMStatus /\ "offline" \in VMStatus
    BY <1>0 DEF VmRow, VMStatus
  <2>3. QED
    BY <2>1, <2>2
<1> DEFINE rest == <<SetVm(next)>> \o Later(t)
<1>2. /\ Later(t) \in Seq(Call) /\ Calls(t) = {First(t)} \cup Among(Later(t))
      /\ First(t) \in Call /\ First(t) = Do("offlineIfBusy")
  BY <1>0, HeadCall, CallKinds DEF First, PlainOp
<1>3. /\ Ordered(Later(t)) /\ \A c \in Among(Later(t)) : c.op \notin FirstOnly
      /\ First(t) # Do("closeRental") /\ First(t) # SetVm("building")
      /\ First(t) # Do("connect") /\ First(t) # Do("forget")
  BY <1>0, <1>2, HeadCall, OrderedTail DEF HandlerInv, Later, Do, SetVm
<1>4. <<SetVm(next)>> \in Seq(Call) /\ Among(<<SetVm(next)>>) = {SetVm(next)}
      /\ SetVm(next) \in Call /\ SetVm(next).op = "vmStatus"
  BY CallLists, ShortLists, ListsOfCalls DEF SetVm
<1>5. rest \in Seq(Call) /\ Among(rest) = {SetVm(next)} \cup Among(Later(t))
  <2> DEFINE one == <<SetVm(next)>>
  <2>1. one \in Seq(Call) /\ Among(one) = {SetVm(next)}
    BY <1>4
  <2> HIDE DEF one
  <2>2. one \o Later(t) \in Seq(Call)
    BY <1>2, <2>1, Concatenation
  <2>3. Among(one \o Later(t)) = Among(one) \cup Among(Later(t))
    BY <1>2, <2>1, JoinedCalls
  <2>4. QED
    BY <2>1, <2>2, <2>3 DEF one
<1>6. Ordered(rest)
  BY <1>2, <1>3, <1>4, OrderedJoin, OrderedLists DEF LastOnly
<1>7. /\ Calls(t)' = {SetVm(next)} \cup Among(Later(t)) /\ Ordered(tasks'[t].todo)
      /\ tasks'[t].vm = tasks[t].vm /\ tasks'[t].computer = tasks[t].computer
      /\ tasks'[t].socket = tasks[t].socket
      /\ tasks'[t].vmRow = None /\ tasks'[t].computerRow = None
      /\ tasks'[t].rentalRow = None
  BY <1>1, <1>5, <1>6, Continues
<1> HIDE DEF rest
<1>8. /\ \A op \in FirstOnly : Do(op) \notin Calls(t) /\ Do(op) \notin Calls(t)'
      /\ Do("destroy_vm") \notin Calls(t) /\ Do("destroy_vm") \notin Calls(t)'
      /\ \A op \in PlainOp : Do(op) \in Calls(t)' => Do(op) \in Calls(t)
      /\ \A op \in {"closeRental", "connect"} : Do(op) \in Calls(t) => Do(op) \in Calls(t)'
      /\ SetVm("building") \in Calls(t) => SetVm("building") \in Calls(t)'
  <2>1. Do("offlineIfBusy") \in Calls(t)
    BY <1>2
  <2>2. Do("destroy_vm") \notin Calls(t)
    BY <1>0, <2>1 DEF HandlerInv, AboutVm, Calls
  <2>3. \A op : Do(op).op = op
    BY DEF Do
  <2>4. \A op \in PlainOp : Do(op) # SetVm(next)
    BY DEF Do, SetVm, PlainOp
  <2>5. \A op \in PlainOp : Do(op) \in Calls(t)' => Do(op) \in Calls(t)
    BY <1>2, <1>7, <2>4
  <2>6. \A op \in FirstOnly : Do(op) \notin Calls(t) /\ op \in PlainOp
    BY <1>2, <1>3, <2>3 DEF FirstOnly, PlainOp
  <2>7. QED
    BY <1>2, <1>3, <1>7, <2>2, <2>5, <2>6 DEF PlainOp
<1>9. LineInv' /\ \A s \in Sockets : DestroyPending(s)' <=> DestroyPending(s)
  <2>1. NoNewEntries
    BY <1>0, <1>7, <1>8 DEF NoNewEntries, Registered, PlainOp
  <2>2. QED
    BY <1>0, <2>1, SameLines DEF TurnInv
<1>10. \A v \in Vms : /\ ActiveOn(v)' = ActiveOn(v)
                      /\ IsComputerConnected(v)' <=> IsComputerConnected(v)
  BY <1>0 DEF ActiveOn, IsComputerConnected
<1>11. AboutSocket(tasks'[t]) /\ AboutVm(tasks'[t])
  <2>1. AboutSocket(tasks'[t])
    BY <1>0, <1>7, <1>8 DEF HandlerInv, AboutSocket, Calls, FirstOnly, PlainOp
  <2>2. AboutVm(tasks'[t])
    BY <1>0, <1>7, <1>8 DEF HandlerInv, AboutVm, Calls, FirstOnly, PlainOp
  <2>3. QED
    BY <2>1, <2>2
<1>12. ComputerIsFresh(t)' /\ RentalIsFresh(t)' /\ ForgetsDisconnected(t)'
  BY <1>0, <1>7, <1>8
     DEF ComputerIsFresh, RentalIsFresh, ForgetsDisconnected, HandlerInv, FirstOnly, PlainOp
<1>13. First(t) \in Vacating \cap Unsettling /\ First(t) \in Calls(t)
  BY <1>2 DEF Vacating, Unsettling
<1>14. TakesNoLet(t)'
  <2>1. ~Ending(t) /\ Do("insertRental") \notin Calls(t)'
    BY <1>8 DEF Ending, FirstOnly
  <2>2. QED
    BY <1>0, <1>7, <1>8, <1>10, <1>13, <2>1, FoundAreVms DEF HandlerInv, TakesNoLet
<1>15. SparesPending(t)'
  BY <1>0, <1>7, <1>9, <1>13 DEF HandlerInv, SparesPending
<1>16. LetIsBusy'
  BY <1>0, <1>7, <1>8, <1>10 DEF TurnInv, TableInv, LetIsBusy, Secures
<1>17. ConnectedHasEntry'
  BY <1>0, <1>7, <1>8, <1>10 DEF TurnInv, TableInv, ConnectedHasEntry
<1>18. AtMostOneActiveRental' /\ PendingIsNotLet'
  BY <1>0, <1>9, <1>10, SocketNames
     DEF TurnInv, TableInv, AtMostOneActiveRental, PendingIsNotLet
<1>19. HandlerInv(t)'
  BY <1>7, <1>11, <1>12, <1>14, <1>15 DEF HandlerInv
<1>20. QED
  BY <1>0, <1>9, <1>16, <1>17, <1>18, <1>19 DEF TurnInv, TableInv

\* A step of the handler in flight.
LEMMA StepTurn ==
  ASSUME TypeOK, TakeTurns, NullReportsFindOne, TurnInv, NEW t \in Tasks, Step(t)
  PROVE  TurnInv'
BY LoadTurn, SaveVmTurn, ServiceTurn, RegisterTurn, SetConnectedTurn, InsertTurn,
   SaveRentalTurn, ProvisionTurn, OrderDestroyTurn, EntryTurn, ForgetTurn, OfflineTurn,
   ReconcileTurn
   DEF Step

-----------------------------------------------------------------------------
(* A handler starts.                                                       *)

LEMMA FreeTurn ==
  ASSUME TakeTurns, TurnInv, NEW t \in Tasks, Free(t)
  PROVE  /\ \A u \in Tasks : Calls(u) = {}
         /\ \A v \in Vms : /\ ActiveOn(v) # {} => vms[v].status \in Busy
                           /\ computers[v].isConnected => IsComputerConnected(v)
<1>1. \A u \in Tasks : Calls(u) = {}
  BY ListsOfCalls DEF TakeTurns, Free, Idle, Calls
<1>2. QED
  BY <1>1 DEF TurnInv, TableInv, LetIsBusy, Secures, ConnectedHasEntry

LEMMA Started ==
  ASSUME TypeOK, NEW t \in Tasks, NEW h, Start(t, h)
  PROVE  tasks'[t] = h /\ Calls(t)' = Among(h.todo)
BY DEF TypeOK, Start, Calls

LEMMA HandlerFields ==
  ASSUME NEW v, NEW calls
  PROVE  LET h == Handler(v, calls)
         IN  /\ h.todo = calls /\ h.vm = v /\ h.computer = v /\ h.socket = None
             /\ h.vmRow = None /\ h.computerRow = None /\ h.rentalRow = None
BY DEF Handler, Idle

LEMMA StartTurn ==
  ASSUME TypeOK, TakeTurns, TurnInv, NEW t \in Tasks, NEW h, Start(t, h),
         UNCHANGED <<vms, computers, rentals, clients>>, LineInv', NoNewDestroys,
         Ordered(h.todo), AboutSocket(h), AboutVm(h), h.computerRow = None,
         RentalIsFresh(t)',
         \A v \in FoundBy(h.vm) :
           /\ Vacating \cap Among(h.todo) # {} =>
                ActiveOn(v) = {} \/ Do("closeRental") \in Among(h.todo) \/ Ending(t)'
           /\ Do("destroy_vm") \in Among(h.todo) =>
                Ending(t)' /\ SetVm("shutting_down") \in Among(h.todo)
           /\ Do("insertRental") \in Among(h.todo) => ActiveOn(v) = {},
         \A s \in Sockets : DestroyPending(s)' /\ Owner(s) \in FoundBy(h.vm) =>
           Unsettling \cap Among(h.todo) = {},
         Do("forget") \in Among(h.todo) => Do("setConnected") \in Among(h.todo)
  PROVE  TurnInv'
<1>1. tasks'[t] = h /\ Calls(t)' = Among(h.todo) /\ \A u \in Tasks : u = t
  BY Started DEF TakeTurns
<1>2. /\ \A v \in Vms : /\ ActiveOn(v) # {} => vms[v].status \in Busy
                        /\ computers[v].isConnected => IsComputerConnected(v)
  BY FreeTurn DEF Start
<1>3. \A v \in Vms : /\ ActiveOn(v)' = ActiveOn(v)
                     /\ IsComputerConnected(v)' <=> IsComputerConnected(v)
  BY DEF ActiveOn, IsComputerConnected
<1>4. TakesNoLet(t)'
  BY <1>1, <1>3, FoundAreVms DEF TakesNoLet
<1>5. ComputerIsFresh(t)' /\ SparesPending(t)' /\ ForgetsDisconnected(t)'
  BY <1>1 DEF ComputerIsFresh, SparesPending, ForgetsDisconnected
<1>6. HandlerInv(t)'
  BY <1>1, <1>4, <1>5 DEF HandlerInv
<1>7. LetIsBusy' /\ ConnectedHasEntry'
  BY <1>2, <1>3 DEF LetIsBusy, ConnectedHasEntry
<1>8. PendingIsNotLet' /\ AtMostOneActiveRental'
  BY <1>3, SocketNames
     DEF TurnInv, TableInv, PendingIsNotLet, AtMostOneActiveRental, NoNewDestroys
<1>9. QED
  BY <1>1, <1>6, <1>7, <1>8 DEF TurnInv, TableInv

\* A request leaves the sockets alone, and its handler registers none.
LEMMA RequestLines ==
  ASSUME TypeOK, TakeTurns, TurnInv, NEW t \in Tasks, NEW h, Start(t, h),
         UNCHANGED clients, UNCHANGED agentVars, Do("connect") \notin Among(h.todo)
  PROVE  LineInv' /\ NoNewDestroys
<1>1. Do("connect") \notin Calls(t)' /\ \A u \in Tasks : u = t
  BY Started DEF TakeTurns
<1>2. NoNewEntries
  BY <1>1 DEF NoNewEntries, Registered
<1>3. QED
  BY <1>2, SameLines DEF TurnInv, agentVars, NoNewDestroys

LEMMA CreateTurn ==
  ASSUME TypeOK, TakeTurns, TurnInv, NEW t \in Tasks, NEW u \in Users, NEW v \in Vms,
         CreateRental(t, u, v)
  PROVE  TurnInv'
<1> USE DEF tables, agentVars
<1> DEFINE head == <<Do("insertRental"), SetVm("building")>>
           rest == IF vms[v].linked THEN <<Do("provision_vm")>>
                   ELSE <<Do("closeRental"), SetVm("failed")>>
           calls == head \o rest
           found == [key |-> NewKey, row |-> NewRental(v, u)]
           h == [Handler(v, calls) EXCEPT !.rentalRow = found]
<1>1. /\ Start(t, h) /\ vms[v].status = "available"
      /\ UNCHANGED <<vms, computers, rentals, clients, agentVars>>
  BY DEF CreateRental, Rentable
<1>2. /\ head \in Seq(Call) /\ Ordered(head)
      /\ Among(head) = {Do("insertRental"), SetVm("building")}
  BY CallLists, ShortLists, ListsOfCalls, OrderedLists
     DEF PlainOp, VMStatus, Do, SetVm, FirstOnly, LastOnly
<1>3. /\ rest \in Seq(Call) /\ Ordered(rest)
      /\ Among(rest) \in {{Do("provision_vm")}, {Do("closeRental"), SetVm("failed")}}
  BY CallLists, ShortLists, ListsOfCalls, OrderedLists
     DEF PlainOp, VMStatus, Do, SetVm, FirstOnly, LastOnly
<1> HIDE DEF head, rest
<1>4. /\ \A c \in Among(head) : c.op \notin LastOnly
      /\ \A c \in Among(rest) : c.op \notin FirstOnly
  BY <1>2, <1>3 DEF Do, SetVm, FirstOnly, LastOnly
<1>5. Ordered(calls) /\ Among(calls) = Among(head) \cup Among(rest)
  BY <1>2, <1>3, <1>4, OrderedJoin, JoinedCalls
<1>6. /\ \A op \in {"connect", "forget", "register", "setConnected", "destroy_vm",
                    "reconcileVm", "reconcileRental"} : Do(op) \notin Among(calls)
      /\ SetVm("building") \in Among(calls)
      /\ Vacating \cap Among(calls) # {} => Do("closeRental") \in Among(calls)
  BY <1>2, <1>3, <1>5 DEF Do, SetVm, Vacating, Busy
<1> HIDE DEF calls, found
<1>7. /\ h.todo = calls /\ h.vm = v /\ h.vmRow = None /\ h.computerRow = None
      /\ h.rentalRow = found
  BY DEF Handler, Idle
<1> HIDE DEF h
<1>8. tasks'[t] = h /\ Calls(t)' = Among(calls)
  BY <1>1, <1>7, Started
<1>9. ActiveOn(v) = {} /\ \A s \in Sockets : DestroyPending(s) => Owner(s) # v
  <2>1. ActiveOn(v) = {}
    BY <1>1, FreeTurn DEF Start, Busy
  <2>2. QED
    BY <1>1, <2>1 DEF TurnInv, TableInv, PendingIsNotLet
<1>10. FoundBy(v) = {v}
  BY RecordsAssumption DEF FoundBy
<1>11. LineInv' /\ NoNewDestroys
  BY <1>1, <1>6, <1>7, RequestLines
<1>12. AboutSocket(h) /\ AboutVm(h)
  BY <1>6, <1>7 DEF AboutSocket, AboutVm, found
<1>13. RentalIsFresh(t)'
  BY <1>7, <1>8 DEF RentalIsFresh, found
<1>14. QED
  BY <1>1, <1>5, <1>6, <1>7, <1>9, <1>10, <1>11, <1>12, <1>13, StartTurn DEF NoNewDestroys

LEMMA EndTurn ==
  ASSUME TypeOK, TakeTurns, TurnInv, NEW t \in Tasks, NEW u \in Users,
         NEW r \in DOMAIN rentals, EndRental(t, u, r)
  PROVE  TurnInv'
<1> USE DEF tables, agentVars
<1> DEFINE end == IF vms[rentals[r].vmId].linked THEN Do("destroy_vm") ELSE SetVm("offline")
           calls == <<Do("saveRental"), SetVm("shutting_down"), end>>
           row == EndedRental(rentals[r], "usage")
           found == [key |-> r, row |-> row]
           h == [Handler(rentals[r].vmId, calls) EXCEPT !.rentalRow = found]
<1>1. /\ Start(t, h) /\ rentals[r].state = "active"
      /\ UNCHANGED <<vms, computers, rentals, clients, agentVars>>
  BY DEF EndRental
<1>2. rentals[r] \in RentalRow /\ r # NewKey
  BY LenProperties, ElementOfSeq DEF TypeOK, NewKey
<1>3. PICK v \in Vms : v = rentals[r].vmId
  BY <1>2 DEF RentalRow
<1>4. row.state = "not_active"
  BY <1>2 DEF EndedRental, RentalRow
<1>5. end \in {Do("destroy_vm"), SetVm("offline")}
  OBVIOUS
<1> HIDE DEF end
<1>6. Ordered(calls) /\ Among(calls) = {Do("saveRental"), SetVm("shutting_down"), end}
  BY <1>5, ListsOfCalls, OrderedLists DEF Do, SetVm, FirstOnly, LastOnly
<1> HIDE DEF calls
<1>7. /\ \A op \in {"connect", "forget", "register", "setConnected", "insertRental",
                    "reconcileVm", "reconcileRental", "offlineIfBusy"} :
           Do(op) \notin Among(calls)
      /\ Do("destroy_vm") \in Among(calls) =>
           \A status \in VMStatus : SetVm(status) \in Among(calls) => status = "shutting_down"
      /\ Do("saveRental") \in Among(calls) /\ SetVm("shutting_down") \in Among(calls)
  BY <1>5, <1>6 DEF Do, SetVm
<1> HIDE DEF row, found
<1>8. /\ h.todo = calls /\ h.vm = v /\ h.vmRow = None /\ h.computerRow = None
      /\ h.rentalRow = found /\ found.key = r /\ found.row = row
  BY <1>3 DEF Handler, Idle, found
<1> HIDE DEF h
<1>9. tasks'[t] = h /\ Calls(t)' = Among(calls)
  BY <1>1, <1>8, Started
<1>10. Ending(t)'
  BY <1>2, <1>4, <1>7, <1>8, <1>9 DEF Ending
<1>11. FoundBy(v) = {v}
  BY RecordsAssumption DEF FoundBy
<1>12. \A s \in Sockets : DestroyPending(s) => Owner(s) # v
  <2>1. r \in ActiveOn(v)
    BY <1>1, <1>3 DEF ActiveOn
  <2>2. QED
    BY <2>1 DEF TurnInv, TableInv, PendingIsNotLet
<1>13. LineInv' /\ NoNewDestroys
  BY <1>1, <1>7, <1>8, RequestLines
<1>14. AboutSocket(h) /\ AboutVm(h)
  BY <1>7, <1>8 DEF AboutSocket, AboutVm
<1>15. RentalIsFresh(t)'
  <2>1. row = EndedRental(rentals[r], "usage")
    BY DEF row
  <2>2. QED
    BY <1>1, <1>3, <1>8, <1>9, <1>11, <2>1 DEF RentalIsFresh, EndsRental
<1>16. QED
  BY <1>1, <1>6, <1>7, <1>8, <1>10, <1>11, <1>12, <1>13, <1>14, <1>15, StartTurn
     DEF NoNewDestroys

LEMMA PaymentTurn ==
  ASSUME TypeOK, TakeTurns, TurnInv, NEW t \in Tasks, NEW u \in Users,
         NEW r \in DOMAIN rentals, ProcessPayment(t, u, r)
  PROVE  TurnInv'
<1> USE DEF tables, agentVars
<1> DEFINE calls == <<Do("saveRental")>>
           row == PaidRental(rentals[r])
           found == [key |-> r, row |-> row]
           h == [Handler(rentals[r].vmId, calls) EXCEPT !.rentalRow = found]
<1>1. /\ Start(t, h) /\ rentals[r].paymentStatus = "pending"
      /\ UNCHANGED <<vms, computers, rentals, clients, agentVars>>
  BY DEF ProcessPayment
<1>2. rentals[r].vmId \in Vms
  <2>1. rentals[r] \in RentalRow
    BY LenProperties, ElementOfSeq DEF TypeOK
  <2>2. QED
    BY <2>1 DEF RentalRow
<1>3. Ordered(calls) /\ Among(calls) = {Do("saveRental")}
  BY ListsOfCalls, OrderedLists
<1> HIDE DEF calls
<1>4. Vacating \cap Among(calls) = {} /\ Unsettling \cap Among(calls) = {}
  BY <1>3 DEF Vacating, Unsettling, Do, SetVm
<1> HIDE DEF row, found
<1>5. /\ h.todo = calls /\ h.vm = rentals[r].vmId /\ h.vmRow = None /\ h.computerRow = None
      /\ h.rentalRow = found /\ found.key = r /\ found.row = row
  BY DEF Handler, Idle, found
<1> HIDE DEF h
<1>6. tasks'[t] = h /\ Calls(t)' = Among(calls)
  BY <1>1, <1>5, Started
<1>7. \A op \in PlainOp : Do(op) \in Among(calls) => op = "saveRental"
  BY <1>3 DEF Do
<1>8. LineInv' /\ NoNewDestroys
  BY <1>1, <1>5, <1>7, RequestLines DEF PlainOp
<1>9. AboutSocket(h) /\ AboutVm(h)
  BY <1>5, <1>7 DEF AboutSocket, AboutVm, PlainOp
<1>10. RentalIsFresh(t)'
  <2>1. row = PaidRental(rentals[r])
    BY DEF row
  <2>2. rentals[r].vmId \in FoundBy(rentals[r].vmId)
    BY <1>2, RecordsAssumption DEF FoundBy
  <2>3. QED
    BY <1>1, <1>3, <1>5, <1>6, <2>1, <2>2 DEF RentalIsFresh, PaysRental
<1>11. QED
  BY <1>1, <1>3, <1>4, <1>5, <1>7, <1>8, <1>9, <1>10, StartTurn DEF PlainOp

\* A handler that does not take the VM from its renter.
LEMMA HarmlessTurn ==
  ASSUME TypeOK, TakeTurns, TurnInv, NEW t \in Tasks, NEW v, NEW calls,
         Start(t, Handler(v, calls)), UNCHANGED <<vms, computers, rentals, clients>>,
         LineInv', NoNewDestroys, Ordered(calls),
         \A c \in Among(calls) : \/ \E status \in Busy : c = SetVm(status)
                                 \/ c.op \in {"computerStatus", "setCurrentVM"}
                                 \/ c = Do("reconcileVm") /\ v \in Vms
  PROVE  TurnInv'
<1> DEFINE h == Handler(v, calls)
<1>1. /\ h.todo = calls /\ h.vm = v /\ h.vmRow = None /\ h.computerRow = None
      /\ h.rentalRow = None
  BY HandlerFields
<1> HIDE DEF h
<1>2. /\ \A op \in PlainOp : Do(op) \in Among(calls) => op = "reconcileVm" /\ v \in Vms
      /\ Vacating \cap Among(calls) = {} /\ Unsettling \cap Among(calls) = {}
  BY DEF Do, SetVm, Vacating, Unsettling, Busy, PlainOp
<1>3. AboutSocket(h) /\ AboutVm(h)
  BY <1>1, <1>2 DEF AboutSocket, AboutVm, PlainOp
<1>4. RentalIsFresh(t)'
  BY <1>1, Started DEF RentalIsFresh, h
<1>5. QED
  BY <1>1, <1>2, <1>3, <1>4, StartTurn DEF h, PlainOp

LEMMA PatchTurn ==
  ASSUME TypeOK, TakeTurns, TurnInv, NEW t \in Tasks, NEW u \in Users, NEW v \in Vms,
         NEW status \in PatchTargets, PatchVmStatus(t, u, v, status)
  PROVE  TurnInv'
<1> USE DEF tables, agentVars
<1>1. /\ Start(t, Handler(v, <<SetVm(status)>>)) /\ status \in Busy
      /\ UNCHANGED <<vms, computers, rentals, clients, agentVars>>
  BY DEF PatchVmStatus, TakeTurns
<1>2. /\ Ordered(<<SetVm(status)>>) /\ Among(<<SetVm(status)>>) = {SetVm(status)}
      /\ Handler(v, <<SetVm(status)>>).todo = <<SetVm(status)>>
  BY ListsOfCalls, OrderedLists, HandlerFields
<1>3. LineInv' /\ NoNewDestroys
  BY <1>1, <1>2, RequestLines DEF Do, SetVm
<1>4. QED
  BY <1>1, <1>2, <1>3, HarmlessTurn

LEMMA RequestTurn ==
  ASSUME TypeOK, TakeTurns, TurnInv, NEW t \in Tasks, Request(t)
  PROVE  TurnInv'
BY CreateTurn, EndTurn, PaymentTurn, PatchTurn DEF Request

-----------------------------------------------------------------------------
(* Events and disconnects.                                                 *)

\* An event whose handler registers no socket.
LEMMA EventLines ==
  ASSUME TypeOK, AckInv, TakeTurns, TurnInv, NEW t \in Tasks, NEW s \in Sockets, NEW type,
         Delivers(s, type), NEW h, Start(t, h), UNCHANGED <<agent, line, down, clients>>,
         Do("connect") \notin Among(h.todo)
  PROVE  /\ LineInv' /\ NoNewDestroys
         /\ EventVm(s) \in {Owner(s), None}
         /\ type = "vm_destroyed" => /\ EventVm(s) = Owner(s) /\ DestroyPending(s)
                                     /\ \A r \in Sockets : Owner(r) = Owner(s) =>
                                          ~DestroyPending(r)'
<1>1. Do("connect") \notin Calls(t)' /\ \A u \in Tasks : u = t
  BY Started DEF TakeTurns
<1>2. QED
  BY <1>1, DeliverTurn DEF TurnInv

\* An event that is dropped.
LEMMA DroppedTurn ==
  ASSUME TypeOK, AckInv, TakeTurns, TurnInv, LineInv', NoNewDestroys,
         UNCHANGED <<vms, computers, rentals, clients, tasks>>
  PROVE  TurnInv'
<1>1. \A v \in Vms : /\ ActiveOn(v)' = ActiveOn(v)
                     /\ IsComputerConnected(v)' <=> IsComputerConnected(v)
  BY DEF ActiveOn, IsComputerConnected
<1>2. \A t \in Tasks : Calls(t)' = Calls(t)
  BY DEF Calls
<1>3. ASSUME NEW t \in Tasks PROVE HandlerInv(t)'
  <2>1. HandlerInv(t)
    BY DEF TurnInv
  <2>2. Ordered(tasks'[t].todo) /\ AboutSocket(tasks'[t]) /\ AboutVm(tasks'[t])
    BY <2>1 DEF HandlerInv
  <2>3. ComputerIsFresh(t)' /\ RentalIsFresh(t)' /\ ForgetsDisconnected(t)'
    BY <1>2, <2>1 DEF HandlerInv, ComputerIsFresh, RentalIsFresh, ForgetsDisconnected,
                      EndsRental, PaysRental
  <2>4. Ending(t)' <=> Ending(t)
    BY <1>2 DEF Ending
  <2>5. TakesNoLet(t)'
    BY <1>1, <1>2, <2>1, <2>4, FoundAreVms DEF HandlerInv, TakesNoLet
  <2>6. SparesPending(t)'
    BY <1>2, <2>1 DEF HandlerInv, SparesPending, NoNewDestroys
  <2>7. QED
    BY <2>2, <2>3, <2>5, <2>6 DEF HandlerInv
<1>4. LetIsBusy'
  BY <1>1, <1>2 DEF TurnInv, TableInv, LetIsBusy, Secures
<1>5. ConnectedHasEntry'
  BY <1>1, <1>2 DEF TurnInv, TableInv, ConnectedHasEntry
<1>6. PendingIsNotLet' /\ AtMostOneActiveRental'
  BY <1>1, SocketNames
     DEF TurnInv, TableInv, PendingIsNotLet, AtMostOneActiveRental, NoNewDestroys
<1>7. QED
  BY <1>3, <1>4, <1>5, <1>6 DEF TurnInv, TableInv

LEMMA BuildingTurn ==
  ASSUME TypeOK, AckInv, TakeTurns, TurnInv, NEW t \in Tasks, NEW s \in Sockets,
         HandleVMProvisioningStarted(t, s)
  PROVE  TurnInv'
<1> DEFINE calls == <<SetVm("building")>>
<1>1. /\ Delivers(s, "vm_provisioning_started") /\ Start(t, Handler(EventVm(s), calls))
      /\ UNCHANGED <<vms, computers, rentals, clients, agent, line, down>>
  BY DEF HandleVMProvisioningStarted, tables
<1>2. Ordered(calls) /\ Among(calls) = {SetVm("building")}
      /\ Handler(EventVm(s), calls).todo = calls
  BY ListsOfCalls, OrderedLists, HandlerFields
<1> HIDE DEF calls
<1>3. LineInv' /\ NoNewDestroys
  BY <1>1, <1>2, EventLines DEF Do, SetVm
<1>4. QED
  BY <1>1, <1>2, <1>3, HarmlessTurn DEF Busy

\* The calls that free the computer, or none.
LEMMA FreeComputerCalls ==
  ASSUME NEW linked
  PROVE  LET rest == IF linked THEN <<SetComputer("available"), SetCurrentVM("null")>>
                     ELSE <<>>
         IN  /\ rest \in Seq(Call) /\ Ordered(rest)
             /\ \A c \in Among(rest) : c.op \in {"computerStatus", "setCurrentVM"}
BY FreeComputerList, ListsOfCalls, OrderedLists
   DEF SetComputer, SetCurrentVM, FirstOnly, LastOnly

\* Calls on the VM, then calls on its computer.
LEMMA VmThenComputer ==
  ASSUME NEW p \in Seq(Call), Ordered(p), NEW rest \in Seq(Call), Ordered(rest),
         \A c \in Among(p) : c.op \notin LastOnly,
         \A c \in Among(rest) : c.op \in {"computerStatus", "setCurrentVM"}
  PROVE  /\ p \o rest \in Seq(Call) /\ Ordered(p \o rest)
         /\ Among(p \o rest) = Among(p) \cup Among(rest)
         /\ \A op \in PlainOp : Do(op) \in Among(p \o rest) => Do(op) \in Among(p)
         /\ \A status : SetVm(status) \in Among(p \o rest) => SetVm(status) \in Among(p)
<1>1. \A c \in Among(rest) : c.op \notin FirstOnly
  BY DEF FirstOnly
<1>2. /\ p \o rest \in Seq(Call) /\ Ordered(p \o rest)
      /\ Among(p \o rest) = Among(p) \cup Among(rest)
  BY <1>1, Concatenation, OrderedJoin, JoinedCalls
<1>3. \A op \in PlainOp : Do(op) \notin Among(rest)
  BY DEF Do, PlainOp
<1>4. \A status : SetVm(status) \notin Among(rest)
  BY DEF SetVm
<1>5. QED
  BY <1>2, <1>3, <1>4

LEMMA ProvisionedTurn ==
  ASSUME TypeOK, AckInv, TakeTurns, TurnInv, NEW t \in Tasks, NEW s \in Sockets,
         HandleVMProvisioned(t, s)
  PROVE  TurnInv'
<1> DEFINE v == EventVm(s)
           first == <<SetVm("running")>>
           rest == IF vms[v].linked THEN <<SetComputer("active")>> ELSE <<>>
           calls == first \o rest
<1>1. /\ Delivers(s, "vm_provisioned")
      /\ UNCHANGED tasks \/ Start(t, Handler(v, calls))
      /\ UNCHANGED <<vms, computers, rentals, clients, agent, line, down>>
  BY DEF HandleVMProvisioned, tables
<1>2. first \in Seq(Call) /\ Ordered(first) /\ Among(first) = {SetVm("running")}
  BY CallLists, ShortLists, ListsOfCalls, OrderedLists DEF VMStatus
<1>3. /\ rest \in Seq(Call) /\ Ordered(rest)
      /\ \A c \in Among(rest) : c.op \in {"computerStatus", "setCurrentVM"}
  BY CallLists, ShortLists, ListsOfCalls, OrderedLists DEF ComputerStatus, SetComputer
<1> HIDE DEF first, rest
<1>4. /\ Ordered(calls) /\ Among(calls) = {SetVm("running")} \cup Among(rest)
      /\ Do("connect") \notin Among(calls)
  <2>1. \A c \in Among(first) : c.op \notin LastOnly /\ c # Do("connect")
    BY <1>2 DEF LastOnly, SetVm, Do
  <2>2. QED
    BY <1>2, <1>3, <2>1, VmThenComputer DEF PlainOp
<1> HIDE DEF calls
<1>5. CASE UNCHANGED tasks
  <2>1. LineInv' /\ NoNewDestroys
    BY <1>1, <1>5, DeliverTurn DEF TurnInv, Calls
  <2>2. QED
    BY <1>1, <1>5, <2>1, DroppedTurn
<1>6. CASE Start(t, Handler(v, calls))
  <2>1. Handler(v, calls).todo = calls
    BY HandlerFields
  <2>2. LineInv' /\ NoNewDestroys
    BY <1>1, <1>4, <1>6, <2>1, EventLines
  <2>3. QED
    BY <1>1, <1>3, <1>4, <1>6, <2>2, HarmlessTurn DEF Busy
<1>7. QED
  BY <1>1, <1>5, <1>6

LEMMA FailedTurn ==
  ASSUME TypeOK, AckInv, TakeTurns, TurnInv, NEW t \in Tasks, NEW s \in Sockets,
         HandleVMProvisioningFailed(t, s)
  PROVE  TurnInv'
<1>1. PICK w \in Vms :
        Start(t, [Handler(EventVm(s), <<SetVm("failed"), Do("closeRental")>> \o
                    IF vms[w].linked THEN <<SetComputer("available"), SetCurrentVM("null")>>
                    ELSE <<>>)
                  EXCEPT !.computer = w])
  BY FoundAreVms DEF HandleVMProvisioningFailed
<1> DEFINE first == <<SetVm("failed"), Do("closeRental")>>
           rest == IF vms[w].linked THEN <<SetComputer("available"), SetCurrentVM("null")>>
                   ELSE <<>>
           calls == first \o rest
           h == [Handler(EventVm(s), calls) EXCEPT !.computer = w]
<1>2. /\ Delivers(s, "vm_provisioning_failed") /\ Start(t, h)
      /\ UNCHANGED <<vms, computers, rentals, clients, agent, line, down>>
  BY <1>1 DEF HandleVMProvisioningFailed, tables
<1>3. /\ first \in Seq(Call) /\ Ordered(first)
      /\ Among(first) = {SetVm("failed"), Do("closeRental")}
  BY CallLists, ShortLists, ListsOfCalls, OrderedLists
     DEF VMStatus, PlainOp, SetVm, Do, FirstOnly, LastOnly
<1>4. /\ rest \in Seq(Call) /\ Ordered(rest)
      /\ \A c \in Among(rest) : c.op \in {"computerStatus", "setCurrentVM"}
  BY FreeComputerCalls
<1> HIDE DEF first, rest
<1>5. /\ Ordered(calls) /\ Do("closeRental") \in Among(calls)
      /\ \A op \in PlainOp : Do(op) \in Among(calls) => op = "closeRental"
      /\ \A status : SetVm(status) \in Among(calls) => status = "failed"
  <2>1. /\ \A c \in Among(first) : c.op \notin LastOnly
        /\ \A op : Do(op) \in Among(first) <=> op = "closeRental"
        /\ \A status : SetVm(status) \in Among(first) => status = "failed"
    BY <1>3 DEF LastOnly, SetVm, Do
  <2>2. QED
    BY <1>3, <1>4, <2>1, VmThenComputer DEF PlainOp
<1> HIDE DEF calls
<1>6. /\ h.todo = calls /\ h.vm = EventVm(s) /\ h.vmRow = None /\ h.computerRow = None
      /\ h.rentalRow = None
  BY DEF Handler, Idle
<1> HIDE DEF h
<1>7. LineInv' /\ NoNewDestroys
  BY <1>2, <1>5, <1>6, EventLines DEF PlainOp
<1>8. AboutSocket(h) /\ AboutVm(h)
  BY <1>5, <1>6 DEF AboutSocket, AboutVm, PlainOp
<1>9. Unsettling \cap Among(calls) = {}
  BY <1>5 DEF Unsettling, PlainOp
<1>10. RentalIsFresh(t)'
  BY <1>2, <1>6, Started DEF RentalIsFresh
<1>11. QED
  BY <1>2, <1>5, <1>6, <1>7, <1>8, <1>9, <1>10, StartTurn DEF PlainOp

LEMMA DestroyedTurn ==
  ASSUME TypeOK, AckInv, TakeTurns, TurnInv, NEW t \in Tasks, NEW s \in Sockets,
         HandleVMDestroyed(t, s)
  PROVE  TurnInv'
<1> DEFINE next == IF vms[EventVm(s)].linked /\ IsComputerConnected(EventVm(s))
                   THEN "available" ELSE "offline"
           first == <<SetVm(next)>>
           rest == IF vms[EventVm(s)].linked
                   THEN <<SetComputer("available"), SetCurrentVM("null")>> ELSE <<>>
           calls == first \o rest
           h == Handler(EventVm(s), calls)
<1>1. /\ Delivers(s, "vm_destroyed") /\ Start(t, h)
      /\ UNCHANGED <<vms, computers, rentals, clients, agent, line, down>>
  BY DEF HandleVMDestroyed, tables
<1>2. first \in Seq(Call) /\ Ordered(first) /\ Among(first) = {SetVm(next)}
  <2>1. SetVm(next) \in Call
    BY CallLists DEF VMStatus
  <2> HIDE DEF next
  <2>2. QED
    BY <2>1, ShortLists, ListsOfCalls, OrderedLists
<1>3. /\ rest \in Seq(Call) /\ Ordered(rest)
      /\ \A c \in Among(rest) : c.op \in {"computerStatus", "setCurrentVM"}
  BY FreeComputerCalls
<1> HIDE DEF next, first, rest
<1>4. Ordered(calls) /\ \A op \in PlainOp : Do(op) \notin Among(calls)
  <2>1. \A c \in Among(first) : c.op \notin LastOnly
    BY <1>2 DEF LastOnly, SetVm
  <2>2. \A op \in PlainOp : Do(op) \notin Among(first)
    BY <1>2 DEF PlainOp, SetVm, Do
  <2>3. QED
    BY <1>2, <1>3, <2>1, <2>2, VmThenComputer
<1> HIDE DEF calls
<1>5. /\ h.todo = calls /\ h.vm = EventVm(s) /\ h.vmRow = None /\ h.computerRow = None
      /\ h.rentalRow = None
  BY HandlerFields
<1> HIDE DEF h
<1>6. /\ LineInv' /\ NoNewDestroys
      /\ EventVm(s) = Owner(s) /\ DestroyPending(s)
      /\ \A r \in Sockets : Owner(r) = Owner(s) => ~DestroyPending(r)'
  BY <1>1, <1>4, <1>5, EventLines DEF PlainOp
<1>7. PICK v \in Vms : v = EventVm(s) /\ v = Owner(s)
  BY <1>6, SocketNames
<1>8. ActiveOn(v) = {} /\ FoundBy(v) = {v}
  BY <1>6, <1>7, RecordsAssumption DEF TurnInv, TableInv, PendingIsNotLet, FoundBy
<1>9. AboutSocket(h) /\ AboutVm(h)
  BY <1>4, <1>5 DEF AboutSocket, AboutVm, PlainOp
<1>10. RentalIsFresh(t)'
  BY <1>1, <1>5, Started DEF RentalIsFresh
<1>11. QED
  BY <1>1, <1>4, <1>5, <1>6, <1>7, <1>8, <1>9, <1>10, StartTurn DEF PlainOp

LEMMA HeartbeatTurn ==
  ASSUME TypeOK, AckInv, TakeTurns, TurnInv, NEW t \in Tasks, NEW s \in Sockets,
         HandleHeartbeat(t, s)
  PROVE  TurnInv'
<1> DEFINE calls == <<Do("reconcileVm")>>
<1>1. /\ Delivers(s, "heartbeat")
      /\ UNCHANGED tasks \/ Start(t, Handler(Owner(s), calls))
      /\ UNCHANGED <<vms, computers, rentals, clients, agent, line, down>>
  BY DEF HandleHeartbeat, tables
<1>2. /\ Ordered(calls) /\ Among(calls) = {Do("reconcileVm")} /\ Owner(s) \in Vms
      /\ Handler(Owner(s), calls).todo = calls
  BY ListsOfCalls, OrderedLists, HandlerFields, SocketNames
<1> HIDE DEF calls
<1>3. CASE UNCHANGED tasks
  <2>1. LineInv' /\ NoNewDestroys
    BY <1>1, <1>3, DeliverTurn DEF TurnInv, Calls
  <2>2. QED
    BY <1>1, <1>3, <2>1, DroppedTurn
<1>4. CASE Start(t, Handler(Owner(s), calls))
  <2>1. Do("connect") \notin Among(calls)
    BY <1>2 DEF Do
  <2>2. LineInv' /\ NoNewDestroys
    BY <1>1, <1>2, <1>4, <2>1, EventLines
  <2>3. QED
    BY <1>1, <1>2, <1>4, <2>2, HarmlessTurn
<1>5. QED
  BY <1>1, <1>3, <1>4

LEMMA RegistrationCalls ==
  ASSUME NEW v
  PROVE  /\ Registration(v) \in Seq(Call) /\ Ordered(Registration(v))
         /\ Among(Registration(v)) =
              {Do("register"), Do("setPhysicalComputer"), SetCurrentVM("vm"), Do("connect")}
                \cup Among(Revival(v))
         /\ \/ Among(Revival(v)) = {}
            \/ /\ Among(Revival(v)) = {SetVm("available")}
               /\ vms[v].status \in {"configuring", "offline", "failed"}
<1> DEFINE head == <<Do("register"), Do("setPhysicalComputer"), SetCurrentVM("vm")>>
           last == <<Do("connect")>>
           back == Revival(v)
<1>1. /\ head \in Seq(Call) /\ Ordered(head)
      /\ Among(head) = {Do("register"), Do("setPhysicalComputer"), SetCurrentVM("vm")}
  BY CallLists, ShortLists, ListsOfCalls, OrderedLists
     DEF PlainOp, Do, SetCurrentVM, FirstOnly, LastOnly
<1>2. last \in Seq(Call) /\ Ordered(last) /\ Among(last) = {Do("connect")}
  BY CallLists, ShortLists, ListsOfCalls, OrderedLists DEF PlainOp
<1>3. /\ back \in Seq(Call) /\ Ordered(back)
      /\ \/ Among(back) = {}
         \/ /\ Among(back) = {SetVm("available")}
            /\ vms[v].status \in {"configuring", "offline", "failed"}
  BY CallLists, ShortLists, ListsOfCalls, OrderedLists DEF VMStatus, Revival
<1>4. Registration(v) = head \o back \o last
  BY DEF Registration
<1> HIDE DEF head, last, back
<1>5. /\ \A c \in Among(head) : c.op \notin LastOnly
      /\ \A c \in Among(back) : c.op \notin LastOnly /\ c.op \notin FirstOnly
      /\ \A c \in Among(last) : c.op \notin FirstOnly
  BY <1>1, <1>2, <1>3 DEF Do, SetCurrentVM, SetVm, FirstOnly, LastOnly
<1>6. /\ head \o back \in Seq(Call) /\ Ordered(head \o back)
      /\ Among(head \o back) = Among(head) \cup Among(back)
  BY <1>1, <1>3, <1>5, Concatenation, OrderedJoin, JoinedCalls
<1> DEFINE joined == head \o back
<1> HIDE DEF joined
<1>7. /\ joined \in Seq(Call) /\ Ordered(joined)
      /\ Among(joined) = Among(head) \cup Among(back)
      /\ \A c \in Among(joined) : c.op \notin LastOnly
  BY <1>5, <1>6 DEF joined
<1>8. /\ joined \o last \in Seq(Call) /\ Ordered(joined \o last)
      /\ Among(joined \o last) = Among(joined) \cup Among(last)
  BY <1>2, <1>5, <1>7, Concatenation, OrderedJoin, JoinedCalls
<1>9. /\ Registration(v) \in Seq(Call) /\ Ordered(Registration(v))
      /\ Among(Registration(v)) = Among(head) \cup Among(back) \cup Among(last)
  BY <1>4, <1>7, <1>8 DEF joined
<1>10. QED
  BY <1>1, <1>2, <1>3, <1>9 DEF back

LEMMA HelloTurn ==
  ASSUME TypeOK, AckInv, TakeTurns, TurnInv, NEW t \in Tasks, NEW s \in Sockets,
         HandleClientConnected(t, s)
  PROVE  TurnInv'
<1>1. PICK v \in Vms : v = Owner(s)
  BY SocketNames
<1> DEFINE calls == Registration(v)
           back == Among(Revival(v))
           h == [Handler(v, calls) EXCEPT !.socket = s]
<1>2. /\ Delivers(s, Hello) /\ Start(t, h)
      /\ UNCHANGED <<vms, computers, rentals, clients, agent, line, down>>
  BY <1>1 DEF HandleClientConnected, tables, Hello
<1>3. /\ Ordered(calls)
      /\ Among(calls) = {Do("register"), Do("setPhysicalComputer"), SetCurrentVM("vm"),
                         Do("connect")} \cup back
      /\ \/ back = {}
         \/ /\ back = {SetVm("available")}
            /\ vms[v].status \in {"configuring", "offline", "failed"}
  BY RegistrationCalls
<1> HIDE DEF calls, back
<1>4. /\ {Do("register"), Do("connect")} \subseteq Among(calls)
      /\ \A op \in {"forget", "insertRental", "saveRental", "destroy_vm", "reconcileVm",
                    "reconcileRental", "closeRental", "offlineIfBusy", "setConnected"} :
           Do(op) \notin Among(calls)
      /\ Vacating \cap Among(calls) # {} => vms[v].status \notin Busy
  BY <1>3 DEF Do, SetVm, SetCurrentVM, Vacating, Busy
<1>5. /\ h.todo = calls /\ h.vm = v /\ h.computer = v /\ h.socket = s
      /\ h.vmRow = None /\ h.computerRow = None /\ h.rentalRow = None
  BY DEF Handler, Idle
<1> HIDE DEF h
<1>6. tasks'[t] = h /\ \A u \in Tasks : u = t
  BY <1>2, Started DEF TakeTurns
<1>7. /\ LineInv' /\ NoNewDestroys
      /\ \A r \in Sockets : Owner(r) = v => ~DestroyPending(r)
  BY <1>1, <1>2, <1>5, <1>6, DeliverTurn DEF TurnInv
<1>8. Vacating \cap Among(calls) # {} => ActiveOn(v) = {}
  BY <1>2, <1>4, FreeTurn DEF Start
<1>9. FoundBy(v) = {v}
  BY RecordsAssumption DEF FoundBy
<1>10. AboutSocket(h) /\ AboutVm(h)
  BY <1>1, <1>4, <1>5 DEF AboutSocket, AboutVm
<1>11. RentalIsFresh(t)'
  BY <1>5, <1>6 DEF RentalIsFresh
<1>12. QED
  BY <1>2, <1>3, <1>4, <1>5, <1>7, <1>8, <1>9, <1>10, <1>11, StartTurn DEF NoNewDestroys

LEMMA GoneTurn ==
  ASSUME TypeOK, AckInv, TakeTurns, TurnInv, NEW t \in Tasks, NEW s \in Sockets,
         HandleDisconnect(t, s)
  PROVE  TurnInv'
<1> DEFINE h == [Handler(Owner(s), Disconnection) EXCEPT !.socket = s]
<1>1. /\ UNCHANGED tasks \/ Start(t, h)
      /\ UNCHANGED <<vms, computers, rentals, clients>>
  BY DEF HandleDisconnect, tables
<1>2. /\ h.todo = Disconnection /\ h.vm = Owner(s) /\ h.computer = Owner(s)
      /\ h.socket = s /\ h.vmRow = None /\ h.computerRow = None /\ h.rentalRow = None
  BY DEF Handler, Idle
<1>3. /\ Ordered(Disconnection)
      /\ Among(Disconnection) = {Do("setConnected"), Do("offlineIfBusy"), Do("closeRental"),
                                 Do("forget")}
  BY ListsOfCalls, OrderedLists DEF Disconnection, Do, FirstOnly, LastOnly
<1>4. \A op : Do(op) \in Among(Disconnection) <=>
                op \in {"setConnected", "offlineIfBusy", "closeRental", "forget"}
  BY <1>3 DEF Do
<1> HIDE DEF h
<1>5. CASE UNCHANGED tasks
  <2>1. NoNewEntries
    BY <1>1, <1>5 DEF NoNewEntries, Registered, Calls
  <2>2. LineInv' /\ NoNewDestroys
    BY <2>1, GiveUpTurn DEF TurnInv
  <2>3. QED
    BY <1>1, <1>5, <2>2, DroppedTurn
<1>6. CASE Start(t, h)
  <2>1. tasks'[t] = h /\ Calls(t)' = Among(Disconnection) /\ \A u \in Tasks : u = t
    BY <1>2, <1>6, Started DEF TakeTurns
  <2>2. NoNewEntries
    BY <1>1, <1>4, <2>1 DEF NoNewEntries, Registered
  <2>3. /\ LineInv' /\ NoNewDestroys
        /\ \A r \in Sockets : Owner(r) = Owner(s) => ~DestroyPending(r)'
    BY <2>2, GiveUpTurn DEF TurnInv
  <2>4. AboutSocket(h) /\ AboutVm(h)
    BY <1>2, <1>4 DEF AboutSocket, AboutVm
  <2>5. RentalIsFresh(t)'
    BY <1>2, <2>1 DEF RentalIsFresh
  <2>6. \A r \in Sockets : Owner(r) \in FoundBy(Owner(s)) => Owner(r) = Owner(s)
    BY SocketNames, RecordsAssumption DEF FoundBy
  <2>7. QED
    BY <1>1, <1>2, <1>3, <1>4, <1>6, <2>3, <2>4, <2>5, <2>6, StartTurn
<1>7. QED
  BY <1>1, <1>5, <1>6

-----------------------------------------------------------------------------
(* The invariant.                                                          *)

LEMMA TurnInvInit == Init => TurnInv
<1> SUFFICES ASSUME Init PROVE TurnInv
  OBVIOUS
<1>1. LineInv
  BY LineInvInit
<1>2. \A t \in Tasks : /\ tasks[t] = Idle /\ Calls(t) = {} /\ Among(tasks[t].todo) = {}
                       /\ tasks[t].vmRow = None /\ tasks[t].computerRow = None
  BY ListsOfCalls DEF Init, Idle, Calls
<1>3. ASSUME NEW t \in Tasks PROVE HandlerInv(t)
  <2>1. Ordered(tasks[t].todo)
    BY <1>2, OrderedLists DEF Idle
  <2>2. AboutSocket(tasks[t]) /\ AboutVm(tasks[t])
    BY <1>2 DEF AboutSocket, AboutVm
  <2>3. ComputerIsFresh(t) /\ RentalIsFresh(t)
    BY <1>2 DEF ComputerIsFresh, RentalIsFresh, Idle
  <2>4. TakesNoLet(t) /\ SparesPending(t) /\ ForgetsDisconnected(t)
    BY <1>2 DEF TakesNoLet, SparesPending, ForgetsDisconnected
  <2>5. QED
    BY <2>1, <2>2, <2>3, <2>4 DEF HandlerInv
<1>4. \A v \in Vms : ActiveOn(v) = {}
  <2>1. DOMAIN rentals = {}
    BY DEF Init
  <2>2. QED
    BY <2>1 DEF ActiveOn
<1>5. \A s \in Sockets : ~DestroyPending(s)
  BY DEF Init, AgentInit, DestroyPending, Carries
<1>6. TableInv
  BY <1>4, <1>5
     DEF TableInv, AtMostOneActiveRental, LetIsBusy, PendingIsNotLet, ConnectedHasEntry, Init
<1>7. QED
  BY <1>1, <1>3, <1>6 DEF TurnInv

LEMMA TurnInvStep ==
  ASSUME TakeTurns, TypeOK, AckInv, NullReportsFindOne, TurnInv, [Next]_vars
  PROVE  TurnInv'
<1>1. ASSUME NEW t \in Tasks, Request(t) PROVE TurnInv'
  BY <1>1, RequestTurn
<1>2. ASSUME NEW t \in Tasks, Step(t) PROVE TurnInv'
  BY <1>2, StepTurn
<1>3. ASSUME NEW t \in Tasks, NEW s \in Sockets, Event(t, s) PROVE TurnInv'
  BY <1>3, HelloTurn, BuildingTurn, ProvisionedTurn, FailedTurn, DestroyedTurn, HeartbeatTurn
     DEF Event
<1>4. ASSUME NEW t \in Tasks, NEW s \in Sockets, HandleDisconnect(t, s) PROVE TurnInv'
  BY <1>4, GoneTurn
<1>5. ASSUME NEW v \in Vms, AgentNext(v) PROVE TurnInv'
  <2>1. LineInv' /\ NoNewDestroys
    BY <1>5, ConnectorTurn DEF TurnInv
  <2>2. UNCHANGED <<vms, computers, rentals, clients, tasks>>
    BY <1>5 DEF AgentNext, tables
  <2>3. QED
    BY <2>1, <2>2, DroppedTurn
<1>6. ~Restart
  BY DEF Restart, TakeTurns
<1>7. CASE UNCHANGED vars
  <2>1. NoNewEntries
    BY <1>7 DEF vars, NoNewEntries, Registered, Calls
  <2>2. LineInv' /\ NoNewDestroys
    BY <1>7, <2>1, SameLines DEF vars, agentVars, TurnInv, NoNewDestroys
  <2>3. QED
    BY <1>7, <2>2, DroppedTurn DEF vars
<1>8. QED
  BY <1>1, <1>2, <1>3, <1>4, <1>5, <1>6, <1>7 DEF Next

LEMMA TurnInvariant ==
  ASSUME TakeTurns
  PROVE  Spec /\ []NullReportsFindOne => []TurnInv
<1>1. Spec => []TypeOK /\ []AckInv
  BY TypeCorrect, AckInvInit, AckInvStep, PTL DEF Spec
<1>2. TypeOK /\ AckInv /\ NullReportsFindOne /\ TurnInv /\ [Next]_vars => TurnInv'
  BY TurnInvStep
<1>3. QED
  BY <1>1, <1>2, TurnInvInit, PTL DEF Spec

\* If there is one VM the query with no id finds it.
LEMMA OneVmIsFound == ASSUME \A v, w \in Vms : v = w PROVE NullReportsFindOne
BY DEF NullReportsFindOne

LEMMA InvLetsOnce == TurnInv => AtMostOneActiveRental
BY DEF TurnInv, TableInv

LEMMA InvIsBusy == TurnInv => RentedVmIsBusy
<1> SUFFICES ASSUME TurnInv, AllFree
             PROVE  \A v \in Vms : ActiveOn(v) # {} => vms[v].status \in Busy
  BY DEF RentedVmIsBusy, Busy
<1>1. \A t \in Tasks : Calls(t) = {}
  BY ListsOfCalls DEF AllFree, Free, Idle, Calls
<1>2. QED
  BY <1>1 DEF TurnInv, TableInv, LetIsBusy, Secures

LEMMA InvIsRegistered == TurnInv => ConnectedIsRegistered
<1> SUFFICES ASSUME TurnInv, AllFree
             PROVE  \A v \in Vms : computers[v].isConnected => IsComputerConnected(v)
  BY DEF ConnectedIsRegistered
<1>1. \A t \in Tasks : Calls(t) = {}
  BY ListsOfCalls DEF AllFree, Free, Idle, Calls
<1>2. QED
  BY <1>1 DEF TurnInv, TableInv, ConnectedHasEntry

-----------------------------------------------------------------------------
(* The backend implements RentalLedger.                                    *)

LEMMA ChangedEntry ==
  ASSUME NEW e \in Ledger!Entry, NEW f \in Ledger!Entry, NEW cost,
         f.vm = e.vm, f.receiver = e.receiver
  PROVE  /\ f.open = FALSE /\ f.cost = cost /\ f.paid = e.paid
            => f = [e EXCEPT !.open = FALSE, !.cost = cost]
         /\ f.open = e.open /\ f.cost = e.cost /\ f.paid = TRUE
            => f = [e EXCEPT !.paid = TRUE]
BY DEF Ledger!Entry

LEMMA LedgerInit == Init => Ledger!Init
BY DEF Init, Ledger!Init

LEMMA InsertOpens ==
  ASSUME TypeOK, TurnInv, NEW t \in Tasks, InsertRental(t)
  PROVE  \E v \in Vms, u \in Users : Ledger!Open(v, u)
<1>0. /\ HandlerInv(t) /\ tasks[t].todo # <<>> /\ rentals \in Seq(RentalRow)
      /\ First(t).op = "insertRental"
  BY DEF TypeOK, TurnInv, InsertRental, Calling, First
<1>1. Do("insertRental") \in Calls(t)
  BY <1>0, FirstCalls, CallKinds DEF PlainOp
<1>2. /\ tasks[t].vm \in Vms
      /\ \E u \in Users :
           tasks[t].rentalRow = [key |-> NewKey, row |-> NewRental(tasks[t].vm, u)]
  BY <1>0, <1>1 DEF HandlerInv, AboutVm, Calls
<1>3. PICK v \in Vms, u \in Users :
        v = tasks[t].vm /\ rentals' = Append(rentals, NewRental(v, u))
  BY <1>2 DEF InsertRental
<1>4. ActiveOn(v) = {}
  BY <1>0, <1>1, <1>3, RecordsAssumption DEF HandlerInv, TakesNoLet, FoundBy
<1>5. Entries' = Append(Entries, EntryOf(NewRental(v, u)))
  BY <1>0, <1>3, EntriesAppended, RentalRowTypes
<1>6. EntryOf(NewRental(v, u)) = [vm |-> v, receiver |-> u, open |-> TRUE, cost |-> "zero",
                                  paid |-> FALSE]
  BY DEF EntryOf, NewRental
<1>7. \A r \in DOMAIN rentals : rentals[r].vmId = v => rentals[r].state # "active"
  BY <1>4 DEF ActiveOn
<1>8. Ledger!Open(v, u)
  BY <1>5, <1>6, <1>7 DEF Ledger!Open, Entries, EntryOf
<1>9. QED
  BY <1>8

LEMMA SaveClosesOrPays ==
  ASSUME TypeOK, TurnInv, NEW t \in Tasks, SaveRental(t)
  PROVE  \E r \in DOMAIN rentals :
           Ledger!Pay(r) \/ \E cost \in {"zero", "usage"} : Ledger!Close(r, cost)
<1> DEFINE row == tasks[t].rentalRow.row
<1>1. PICK r \in DOMAIN rentals :
        /\ rentals[r] \in RentalRow
        /\ rentals' = [rentals EXCEPT ![r] = row]
        /\ EndsRental(t, r, row) \/ PaysRental(t, r, row)
  BY SavedRental
<1> HIDE DEF row
<1>2. rentals \in Seq(RentalRow) /\ DOMAIN rentals' = DOMAIN rentals
      /\ \A q \in DOMAIN rentals : rentals'[q] = IF q = r THEN row ELSE rentals[q]
  BY <1>1 DEF TypeOK
<1>3. CASE EndsRental(t, r, row)
  <2>1. PICK cost \in {"zero", "usage"} : row = EndedRental(rentals[r], cost)
    BY <1>3 DEF EndsRental
  <2>2. EntryOf(row) = [EntryOf(rentals[r]) EXCEPT !.open = FALSE, !.cost = cost]
    <3>1. /\ row \in RentalRow
          /\ row.vmId = rentals[r].vmId /\ row.receiverId = rentals[r].receiverId
          /\ row.state # "active" /\ row.totalCost = cost
          /\ row.paymentStatus = rentals[r].paymentStatus
      BY <1>1, <2>1 DEF EndedRental, RentalRow, RentalState
    <3> DEFINE e == EntryOf(rentals[r])
               f == EntryOf(row)
    <3>2. /\ e \in Ledger!Entry /\ f \in Ledger!Entry /\ f.vm = e.vm /\ f.receiver = e.receiver
          /\ f.open = FALSE /\ f.cost = cost /\ f.paid = e.paid
      BY <1>1, <3>1, EntryFields
    <3> HIDE DEF e, f
    <3>3. f = [e EXCEPT !.open = FALSE, !.cost = cost]
      BY <3>2, ChangedEntry
    <3>4. QED
      BY <3>3 DEF e, f
  <2>3. Entries' = [Entries EXCEPT ![r].open = FALSE, ![r].cost = cost]
    BY <1>1, <1>2, <2>2 DEF Entries, EntryOf
  <2>4. Ledger!Close(r, cost)
    BY <1>1, <1>3, <2>3 DEF EndsRental, Ledger!Close, Entries, EntryOf
  <2>5. QED
    BY <1>1, <2>4
<1>4. CASE PaysRental(t, r, row)
  <2>1. EntryOf(row) = [EntryOf(rentals[r]) EXCEPT !.paid = TRUE]
    <3>1. /\ row \in RentalRow
          /\ row.vmId = rentals[r].vmId /\ row.receiverId = rentals[r].receiverId
          /\ row.state = rentals[r].state /\ row.totalCost = rentals[r].totalCost
          /\ row.paymentStatus = "paid"
      BY <1>1, <1>4 DEF PaysRental, PaidRental, RentalRow, PaymentStatus
    <3> DEFINE e == EntryOf(rentals[r])
               f == EntryOf(row)
    <3>2. /\ e \in Ledger!Entry /\ f \in Ledger!Entry /\ f.vm = e.vm /\ f.receiver = e.receiver
          /\ f.open = e.open /\ f.cost = e.cost /\ f.paid = TRUE
      BY <1>1, <3>1, EntryFields
    <3> HIDE DEF e, f
    <3>3. f = [e EXCEPT !.paid = TRUE]
      BY <3>2, ChangedEntry
    <3>4. QED
      BY <3>3 DEF e, f
  <2>2. Entries' = [Entries EXCEPT ![r].paid = TRUE]
    BY <1>1, <1>2, <2>1 DEF Entries, EntryOf
  <2>3. Ledger!Pay(r)
    <3>1. ~Entries[r].paid
      BY <1>1, <1>4 DEF PaysRental, Entries, EntryOf
    <3>2. QED
      BY <2>2, <3>1 DEF Ledger!Pay, Entries, EntryOf
  <2>4. QED
    BY <1>1, <2>3
<1>5. QED
  BY <1>1, <1>3, <1>4

LEMMA LedgerStep ==
  ASSUME TypeOK, TurnInv, [Next]_vars
  PROVE  [Ledger!Next]_Entries
<1>1. CASE UNCHANGED rentals
  BY <1>1 DEF Entries
<1>2. ASSUME NEW t \in Tasks, InsertRental(t) PROVE Ledger!Next
  BY <1>2, InsertOpens DEF Ledger!Next
<1>3. ASSUME NEW t \in Tasks, SaveRental(t) PROVE Ledger!Next
  BY <1>3, SaveClosesOrPays DEF Ledger!Next
<1>4. QED
  BY <1>1, <1>2, <1>3, WhoWritesRentals

-----------------------------------------------------------------------------
(* Theorems, with any number of VMs and with one.                          *)

\* create lets a VM that is AVAILABLE, and what makes a VM AVAILABLE again has
\* closed its rental: no VM has two active rentals.
THEOREM LetOnce ==
  ASSUME TakeTurns
  PROVE  Spec /\ []NullReportsFindOne => []AtMostOneActiveRental
BY TurnInvariant, InvLetsOnce, PTL

\* A VM that is let is built or runs whenever no handler is in flight: a loss,
\* a failure or a late event that takes it away closes its rental.
THEOREM BusyWhileLet ==
  ASSUME TakeTurns
  PROVE  Spec /\ []NullReportsFindOne => []RentedVmIsBusy
BY TurnInvariant, InvIsBusy, PTL

\* A computer the table has as connected has an entry among connectedClients.
THEOREM ConnectedHaveEntries ==
  ASSUME TakeTurns
  PROVE  Spec /\ []NullReportsFindOne => []ConnectedIsRegistered
BY TurnInvariant, InvIsRegistered, PTL

\* create, endRental, processPayment and the closing of a rental by the gateway
\* open, close and pay entries of RentalLedger, and nothing else writes them.
THEOREM BackendKeepsLedger ==
  ASSUME TakeTurns
  PROVE  Spec /\ []NullReportsFindOne => LedgerSpec
<1>1. TypeOK /\ TurnInv /\ [Next]_vars => [Ledger!Next]_Entries
  BY LedgerStep
<1>2. Spec /\ []NullReportsFindOne => Ledger!Init /\ [][Ledger!Next]_Entries
  BY <1>1, TypeCorrect, TurnInvariant, LedgerInit, PTL DEF Spec
<1>3. QED
  BY <1>2, PTL DEF LedgerSpec, Ledger!Spec, Entries, EntryOf

\* With one VM all of it holds with no further condition on the behaviour.
THEOREM OneVmIsLetInTurn ==
  ASSUME TakeTurns, \A v, w \in Vms : v = w
  PROVE  Spec => /\ [](AtMostOneActiveRental /\ RentedVmIsBusy /\ ConnectedIsRegistered)
                 /\ LedgerSpec
<1>1. NullReportsFindOne
  BY OneVmIsFound
<1>2. QED
  BY <1>1, LetOnce, BusyWhileLet, ConnectedHaveEntries, BackendKeepsLedger, PTL
=============================================================================
