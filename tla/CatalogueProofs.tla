-------------------------- MODULE CatalogueProofs --------------------------
(***************************************************************************)
(* Proofs about Catalogue, for every set of VMs, machines and handlers,    *)
(* every number of connections and every set of statuses.  The invariant   *)
(* says of every VM who still answers for it: which rentals hold it, which *)
(* handlers may write its row, which connections and handlers look it up.  *)
(***************************************************************************)
EXTENDS CatalogueProperties, TLAPS

\* The handlers, by what they handle, and the places they wait at.
At(kind, places, sockets) ==
  [kind : {kind}, at : places, socket : sockets, vm : Vms, status : VmStatus]
Handlers ==
  {Free} \cup At("patch", {"load", "save"}, {NoSocket})
         \cup At("delete", {"delete"}, {NoSocket})
         \cup At("rent", {"insert"}, {NoSocket})
         \cup At("register", {"link", "load", "save", "store"}, Sockets)
         \cup At("disconnect", {"look", "load", "save", "forget"}, Sockets)
         \cup At("heartbeat", {"load", "save"}, Sockets)

\* The types that the actions keep.
Typed ==
  /\ vms \in [Vms -> VmRow]
  /\ let \subseteq Vms
  /\ machine \in [Machines -> [key : Vms \cup {NoVm}, session : 0..MaxSessions]]
  /\ \A m \in Machines : machine[m].session # 0 => machine[m].key # NoVm
  /\ socket \in [Sockets -> SocketState]
  /\ clients \in [Sockets -> Vms \cup {NoVm}]
  /\ tasks \in [Tasks -> Handlers]
  /\ history \in History

\* A save that is pending for a VM which has been deleted was pending then.
SavesAreOfListed ==
  \A v \in Vms : vms[v].at = "deleted" /\ v \notin history.overtaken => ~Saving(v)

\* A VM that is served or handled exists, or was deleted under its machine.
UsedIsListed == \A v \in Vms : Served(v) \/ Handled(v) => Listed(v) \/ v \in history.pulled

CatalogueInv == /\ Typed
                /\ LetVmIsKept
                /\ SavesAreOfListed
                /\ UsedIsListed
                /\ EndsOnlyAfterPulling
-----------------------------------------------------------------------------
(* Handlers.                                                               *)

\* What a handler is about follows from where it waits.
LEMMA Places ==
  ASSUME NEW h \in Handlers
  PROVE  /\ h.kind = "none" <=> h = Free
         /\ h.at = "free" <=> h = Free
         /\ h # Free => h.vm \in Vms
         /\ h.status \in VmStatus
         /\ h.kind \in {"register", "disconnect", "heartbeat"} => h.socket \in Sockets
         /\ h.kind \in {"none", "patch", "delete", "rent", "register", "disconnect", "heartbeat"}
         /\ h.at = "delete" <=> h.kind = "delete"
         /\ h.at = "insert" <=> h.kind = "rent"
         /\ h.at \in {"link", "store"} => h.kind = "register"
         /\ h.at \in {"look", "forget"} => h.kind = "disconnect"
         /\ h.at \in {"load", "save"} =>
              h.kind \in {"patch", "register", "disconnect", "heartbeat"}
<1>1. CASE h = Free
  BY <1>1 DEF Free, VmStatus
<1>2. CASE h \in At("delete", {"delete"}, {NoSocket}) \cup At("rent", {"insert"}, {NoSocket})
  BY <1>2 DEF At, Free
<1>3. CASE h \in At("register", {"link", "load", "save", "store"}, Sockets)
  BY <1>3 DEF At, Free
<1>4. CASE h \in At("disconnect", {"look", "load", "save", "forget"}, Sockets)
  BY <1>4 DEF At, Free
<1>5. CASE h \in At("heartbeat", {"load", "save"}, Sockets)
  BY <1>5 DEF At, Free
<1>6. CASE h \in At("patch", {"load", "save"}, {NoSocket})
  BY <1>6 DEF At, Free
<1>7. QED
  BY <1>1, <1>2, <1>3, <1>4, <1>5, <1>6 DEF Handlers

LEMMA NewHandler ==
  ASSUME NEW kind, NEW at, NEW v \in Vms, NEW s, NEW status \in VmStatus,
         \/ kind = "patch" /\ at = "load" /\ s = NoSocket
         \/ kind = "delete" /\ at = "delete" /\ s = NoSocket
         \/ kind = "rent" /\ at = "insert" /\ s = NoSocket
         \/ kind = "register" /\ at = "link" /\ s \in Sockets
         \/ kind = "disconnect" /\ at = "look" /\ s \in Sockets
         \/ kind = "heartbeat" /\ at = "load" /\ s \in Sockets
  PROVE  /\ Handler(kind, at, s, v, status) \in Handlers
         /\ Handler(kind, at, s, v, status).kind = kind
         /\ Handler(kind, at, s, v, status).at = at
         /\ Handler(kind, at, s, v, status).vm = v
BY DEF Handler, Handlers, At

\* A handler goes on, to another place of its kind.
Moved(h, at, status) == [h EXCEPT !.at = at, !.status = status]

LEMMA MovedHandler ==
  ASSUME NEW h \in Handlers, NEW at, NEW status \in VmStatus,
         \/ h.kind = "patch" /\ at = "save"
         \/ h.kind = "register" /\ at \in {"load", "save", "store"}
         \/ h.kind = "disconnect" /\ at \in {"load", "save", "forget"}
         \/ h.kind = "heartbeat" /\ at = "save"
  PROVE  LET g == Moved(h, at, status)
         IN  g \in Handlers /\ g.at = at /\ g.kind = h.kind /\ g.vm = h.vm
<1> DEFINE g == Moved(h, at, status)
           Result == g \in Handlers /\ g.at = at /\ g.kind = h.kind /\ g.vm = h.vm
<1>1. CASE h.kind = "register"
  <2>1. h \in At("register", {"link", "load", "save", "store"}, Sockets)
    BY <1>1 DEF Handlers, At, Free
  <2>2. /\ g \in At("register", {"link", "load", "save", "store"}, Sockets)
        /\ g.at = at /\ g.kind = h.kind /\ g.vm = h.vm
    BY <1>1, <2>1 DEF At, Moved
  <2>3. QED
    BY <2>2 DEF Handlers
<1>2. CASE h.kind = "disconnect"
  <2>1. h \in At("disconnect", {"look", "load", "save", "forget"}, Sockets)
    BY <1>2 DEF Handlers, At, Free
  <2>2. /\ g \in At("disconnect", {"look", "load", "save", "forget"}, Sockets)
        /\ g.at = at /\ g.kind = h.kind /\ g.vm = h.vm
    BY <1>2, <2>1 DEF At, Moved
  <2>3. QED
    BY <2>2 DEF Handlers
<1>3. CASE h.kind = "heartbeat"
  <2>1. h \in At("heartbeat", {"load", "save"}, Sockets)
    BY <1>3 DEF Handlers, At, Free
  <2>2. /\ g \in At("heartbeat", {"load", "save"}, Sockets)
        /\ g.at = at /\ g.kind = h.kind /\ g.vm = h.vm
    BY <1>3, <2>1 DEF At, Moved
  <2>3. QED
    BY <2>2 DEF Handlers
<1>4. CASE h.kind = "patch"
  <2>1. h \in At("patch", {"load", "save"}, {NoSocket})
    BY <1>4 DEF Handlers, At, Free
  <2>2. /\ g \in At("patch", {"load", "save"}, {NoSocket})
        /\ g.at = at /\ g.kind = h.kind /\ g.vm = h.vm
    BY <1>4, <2>1 DEF At, Moved
  <2>3. QED
    BY <2>2 DEF Handlers
<1>5. QED
  BY <1>1, <1>2, <1>3, <1>4

LEMMA FreeHandler == Free \in Handlers /\ Free.kind = "none" /\ Free.at = "free"
BY DEF Handlers, Free

\* Handler t becomes h.
Becomes(t, h) == /\ h \in Handlers
                 /\ tasks' \in [Tasks -> Handlers]
                 /\ \A u \in Tasks : tasks'[u] = IF u = t THEN h ELSE tasks[u]
\* It goes on with what it is about.
GoesOn(t, h) == Becomes(t, h) /\ h.kind = tasks[t].kind /\ h.vm = tasks[t].vm

LEMMA Ends ==
  ASSUME Typed, NEW t \in Tasks, End(t)
  PROVE  Becomes(t, Free)
BY FreeHandler DEF Typed, End, Becomes

LEMMA Starts ==
  ASSUME Typed, NEW t \in Tasks, NEW h \in Handlers, Start(t, h)
  PROVE  Becomes(t, h) /\ tasks[t] = Free
BY Places DEF Typed, Start, Becomes

LEMMA Goes ==
  ASSUME Typed, NEW t \in Tasks, NEW at, Goto(t, at),
         \/ tasks[t].kind = "patch" /\ at = "save"
         \/ tasks[t].kind = "register" /\ at \in {"load", "save", "store"}
         \/ tasks[t].kind = "disconnect" /\ at \in {"load", "save", "forget"}
         \/ tasks[t].kind = "heartbeat" /\ at = "save"
  PROVE  \E h \in Handlers : GoesOn(t, h) /\ h.at = at
<1> DEFINE g == tasks[t]
           h == Moved(g, at, g.status)
<1>1. g \in Handlers /\ g.status \in VmStatus
  BY Places DEF Typed
<1>2. h \in Handlers /\ h.at = at /\ h.kind = g.kind /\ h.vm = g.vm
  BY <1>1, MovedHandler
<1>3. h = [g EXCEPT !.at = at]
  BY <1>1 DEF Handlers, At, Free, Moved
<1>4. tasks' = [tasks EXCEPT ![t] = h]
  BY <1>3 DEF Goto, Typed
<1> HIDE DEF h
<1>5. Becomes(t, h)
  BY <1>2, <1>4 DEF Becomes, Typed
<1>6. QED
  BY <1>2, <1>5 DEF GoesOn

-----------------------------------------------------------------------------
(* What all steps but a deletion and the end of the process leave alone.   *)

\* No row goes, and nobody new uses, lets or saves a VM that is not listed.
RowsStay ==
  /\ \A v \in Vms : vms'[v].at \in {vms[v].at, "listed"}
  /\ \A v \in let' : v \in let \/ Listed(v)
  /\ \A v \in Vms : (Served(v) \/ Handled(v))' => Served(v) \/ Handled(v) \/ Listed(v)
  /\ \A v \in Vms : Saving(v)' => Saving(v) \/ Listed(v)
  /\ UNCHANGED history

LEMMA Stays ==
  ASSUME CatalogueInv, Typed', RowsStay
  PROVE  CatalogueInv'
<1> USE DEF CatalogueInv, RowsStay
<1>1. LetVmIsKept'
  BY DEF LetVmIsKept, Listed, Typed
<1>2. SavesAreOfListed'
  BY DEF SavesAreOfListed, Listed
<1>3. UsedIsListed'
  <2>1. \A v \in Vms : (Served(v) \/ Handled(v))' => Listed(v) \/ v \in history.pulled
    BY DEF UsedIsListed
  <2>2. QED
    BY <2>1 DEF UsedIsListed, Listed
<1>4. EndsOnlyAfterPulling'
  BY DEF EndsOnlyAfterPulling
<1>5. QED
  BY <1>1, <1>2, <1>3, <1>4

\* The steps of handlers and the steps of nobody: who uses or saves a VM afterwards.
LEMMA GoingOn ==
  ASSUME NEW t \in Tasks, NEW h, GoesOn(t, h), UNCHANGED clients
  PROVE  /\ \A v \in Vms : (Served(v) \/ Handled(v))' <=> Served(v) \/ Handled(v)
         /\ \A v \in Vms : Saving(v)' => Saving(v) \/ (h.at = "save" /\ v = h.vm)
BY DEF GoesOn, Becomes, Served, Handled, Saving

LEMMA ComingAndGoing ==
  ASSUME NEW t \in Tasks, NEW h, Becomes(t, h), h.at # "save", UNCHANGED clients
  PROVE  /\ \A v \in Vms : (Served(v) \/ Handled(v))' => \/ Served(v) \/ Handled(v)
                                                         \/ h # Free /\ v = h.vm
         /\ \A v \in Vms : Saving(v)' => Saving(v)
BY FreeHandler DEF Becomes, Served, Handled, Saving

LEMMA NoHandler ==
  ASSUME UNCHANGED <<clients, tasks>>
  PROVE  /\ \A v \in Vms : (Served(v) \/ Handled(v))' <=> Served(v) \/ Handled(v)
         /\ \A v \in Vms : Saving(v)' <=> Saving(v)
BY DEF Served, Handled, Saving

-----------------------------------------------------------------------------
(* Requests.                                                               *)

LEMMA CreateVmKeeps ==
  ASSUME CatalogueInv, NEW v \in Vms, CreateVm(v)
  PROVE  CatalogueInv'
<1> USE DEF CreateVm
<1>1. Typed'
  BY DEF CatalogueInv, Typed, VmRow
<1>2. RowsStay
  BY NoHandler DEF RowsStay, CatalogueInv, Typed, VmRow
<1>3. QED
  BY <1>1, <1>2, Stays

LEMMA ServeKeeps ==
  ASSUME CatalogueInv, NEW v \in Vms, NEW status \in Statuses, Serve(v, status)
  PROVE  CatalogueInv'
<1> USE DEF Serve
<1>1. status \in VmStatus
  BY CatalogueAssumption
<1>2. vms' \in [Vms -> VmRow] /\ \A w \in Vms : vms'[w].at = vms[w].at
  BY <1>1 DEF CatalogueInv, Typed, VmRow
<1>3. Typed'
  BY <1>2 DEF CatalogueInv, Typed
<1>4. RowsStay
  BY <1>2, NoHandler DEF RowsStay
<1>5. QED
  BY <1>3, <1>4, Stays

LEMMA LaunchKeeps ==
  ASSUME CatalogueInv, NEW m \in Machines, NEW v \in Vms, Launch(m, v)
  PROVE  CatalogueInv'
<1> USE DEF Launch
<1>1. Typed'
  BY CatalogueAssumption DEF CatalogueInv, Typed
<1>2. RowsStay
  BY NoHandler DEF RowsStay
<1>3. QED
  BY <1>1, <1>2, Stays

\* A handler starts on a VM that is listed, or on any VM that it neither uses nor saves.
LEMMA StartKeeps ==
  ASSUME CatalogueInv, NEW t \in Tasks, NEW h \in Handlers, Start(t, h), h.at # "save",
         Listed(h.vm) \/ h.kind \notin {"register", "disconnect", "heartbeat"},
         UNCHANGED <<vms, let, machine, clients, history>>, socket' \in [Sockets -> SocketState]
  PROVE  CatalogueInv'
<1>1. Becomes(t, h)
  BY Starts DEF CatalogueInv
<1>2. Typed'
  BY <1>1 DEF CatalogueInv, Typed, Becomes
<1>3. \A v \in Vms : /\ (Served(v) \/ Handled(v))' => Served(v) \/ Handled(v) \/ Listed(v)
                     /\ Saving(v)' => Saving(v)
  BY <1>1 DEF Becomes, Served, Handled, Saving
<1>4. RowsStay
  BY <1>3 DEF RowsStay
<1>5. QED
  BY <1>2, <1>4, Stays

LEMMA RequestKeeps ==
  ASSUME CatalogueInv, NEW t \in Tasks, NEW v \in Vms,
         DeleteVm(t, v) \/ CreateRental(t, v) \/ \E status \in Statuses : PatchVm(t, v, status)
  PROVE  CatalogueInv'
<1>1. PICK h \in Handlers : /\ Start(t, h)
                            /\ h.kind \in {"delete", "rent", "patch"} /\ h.at # "save"
  <2>1. CASE DeleteVm(t, v)
    <3>1. LET h == Handler("delete", "delete", NoSocket, v, "configuring")
          IN  h \in Handlers /\ h.kind = "delete" /\ h.at = "delete"
      BY NewHandler DEF VmStatus
    <3>2. QED
      BY <2>1, <3>1 DEF DeleteVm
  <2>2. CASE CreateRental(t, v)
    <3>1. LET h == Handler("rent", "insert", NoSocket, v, "available")
          IN  h \in Handlers /\ h.kind = "rent" /\ h.at = "insert"
      BY NewHandler DEF VmStatus
    <3>2. QED
      BY <2>2, <3>1 DEF CreateRental
  <2>3. ASSUME NEW status \in Statuses, PatchVm(t, v, status)
        PROVE  \E h \in Handlers : Start(t, h) /\ h.kind = "patch" /\ h.at # "save"
    <3>1. LET h == Handler("patch", "load", NoSocket, v, status)
          IN  h \in Handlers /\ h.kind = "patch" /\ h.at = "load"
      BY NewHandler, CatalogueAssumption
    <3>2. QED
      BY <2>3, <3>1 DEF PatchVm
  <2>4. QED
    BY <2>1, <2>2, <2>3
<1>2. UNCHANGED <<vms, let, machine, socket, clients, history>>
  BY DEF DeleteVm, CreateRental, PatchVm
<1>3. QED
  BY <1>1, <1>2, StartKeeps DEF CatalogueInv, Typed

LEMMA DeleteRowKeeps ==
  ASSUME CatalogueInv, NEW t \in Tasks, DeleteRow(t)
  PROVE  CatalogueInv'
<1> DEFINE v == tasks[t].vm
           gone == Listed(v) /\ Unreferred(v)
<1>1. tasks[t].kind = "delete" /\ v \in Vms /\ Becomes(t, Free)
  BY Places, Ends, FreeHandler DEF CatalogueInv, Typed, DeleteRow
<1>2. \A w \in Vms : /\ (Served(w) \/ Handled(w))' => Served(w) \/ Handled(w)
                     /\ Saving(w)' => Saving(w)
  BY <1>1, ComingAndGoing, FreeHandler DEF DeleteRow
<1>3. /\ history' \in History /\ history'.ended = history.ended
      /\ history.pulled \subseteq history'.pulled
      /\ history.overtaken \subseteq history'.overtaken
      /\ gone /\ (Served(v) \/ Handled(v)) => v \in history'.pulled
      /\ gone /\ Saving(v) => v \in history'.overtaken
  <2>1. history \in History
    BY DEF CatalogueInv, Typed
  <2>2. CASE gone
    <3> DEFINE p == IF Served(v) \/ Handled(v) THEN history.pulled \cup {v} ELSE history.pulled
               o == IF Saving(v) THEN history.overtaken \cup {v} ELSE history.overtaken
    <3>1. history' = [history EXCEPT !.pulled = p, !.overtaken = o]
      BY <2>2 DEF DeleteRow
    <3>2. /\ p \in SUBSET Vms /\ history.pulled \subseteq p
          /\ Served(v) \/ Handled(v) => v \in p
      BY <1>1, <2>1 DEF History
    <3>3. /\ o \in SUBSET Vms /\ history.overtaken \subseteq o /\ (Saving(v) => v \in o)
      BY <1>1, <2>1 DEF History
    <3> HIDE DEF p, o
    <3>4. /\ history' \in History /\ history'.pulled = p /\ history'.overtaken = o
          /\ history'.ended = history.ended
      BY <2>1, <3>1, <3>2, <3>3 DEF History
    <3>5. QED
      BY <3>2, <3>3, <3>4
  <2>3. CASE ~gone
    BY <2>1, <2>3 DEF DeleteRow
  <2>4. QED
    BY <2>2, <2>3
<1>4. /\ vms' \in [Vms -> VmRow]
      /\ v \in let => ~gone
      /\ \A w \in Vms : vms'[w].at = IF w = v /\ gone THEN "deleted" ELSE vms[w].at
  <2>1. vms \in [Vms -> VmRow] /\ v \in Vms
    BY <1>1 DEF CatalogueInv, Typed
  <2>2. vms' = IF gone THEN [vms EXCEPT ![v].at = "deleted"] ELSE vms
    BY DEF DeleteRow
  <2>3. v \in let => ~gone
    BY DEF Unreferred
  <2> HIDE DEF gone, v
  <2>4. QED
    BY <2>1, <2>2, <2>3 DEF VmRow
<1>5. UNCHANGED <<let, machine, socket, clients>>
  BY DEF DeleteRow
<1> HIDE DEF gone
<1>6. Typed'
  BY <1>1, <1>3, <1>4, <1>5 DEF CatalogueInv, Typed, Becomes
<1>7. LetVmIsKept'
  BY <1>4, <1>5 DEF CatalogueInv, Typed, LetVmIsKept, Listed
<1>8. SavesAreOfListed'
  BY <1>2, <1>3, <1>4 DEF CatalogueInv, SavesAreOfListed
<1>9. UsedIsListed'
  <2>1. ASSUME NEW w \in Vms, (Served(w) \/ Handled(w))'
        PROVE  Listed(w)' \/ w \in history'.pulled
    <3>1. Served(w) \/ Handled(w)
      BY <1>2, <2>1
    <3>2. CASE w = v /\ gone
      BY <1>3, <3>1, <3>2
    <3>3. CASE ~(w = v /\ gone)
      BY <1>3, <1>4, <3>1, <3>3 DEF CatalogueInv, UsedIsListed, Listed
    <3>4. QED
      BY <3>2, <3>3
  <2>2. QED
    BY <2>1 DEF UsedIsListed
<1>10. EndsOnlyAfterPulling'
  BY <1>3 DEF CatalogueInv, EndsOnlyAfterPulling
<1>11. QED
  BY <1>6, <1>7, <1>8, <1>9, <1>10 DEF CatalogueInv

LEMMA InsertRentalKeeps ==
  ASSUME CatalogueInv, NEW t \in Tasks, InsertRental(t)
  PROVE  CatalogueInv'
<1>1. tasks[t].vm \in Vms /\ Becomes(t, Free)
  BY Places, Ends, FreeHandler DEF CatalogueInv, Typed, InsertRental
<1>2. UNCHANGED <<vms, machine, socket, clients, history>>
  BY DEF InsertRental
<1>3. let' \subseteq Vms /\ \A w \in let' : w \in let \/ Listed(w)
  BY <1>1 DEF InsertRental, CatalogueInv, Typed
<1>4. Typed'
  BY <1>1, <1>2, <1>3 DEF CatalogueInv, Typed, Becomes
<1>5. RowsStay
  BY <1>1, <1>2, <1>3, ComingAndGoing, FreeHandler DEF RowsStay
<1>6. QED
  BY <1>4, <1>5, Stays

-----------------------------------------------------------------------------
(* Connections.                                                            *)

\* Connections come and go; no handler starts.
LEMMA NetworkKeeps ==
  ASSUME CatalogueInv,
         socket' \in [Sockets -> SocketState],
         machine' \in [Machines -> [key : Vms \cup {NoVm}, session : 0..MaxSessions]],
         \A m \in Machines : machine'[m].session # 0 => machine'[m].key # NoVm,
         UNCHANGED <<vms, let, clients, tasks, history>>
  PROVE  CatalogueInv'
<1>1. Typed'
  BY DEF CatalogueInv, Typed
<1>2. RowsStay
  BY NoHandler DEF RowsStay
<1>3. QED
  BY <1>1, <1>2, Stays

\* The connection of a machine that has a session.
LEMMA SessionSocket ==
  ASSUME Typed, NEW m \in Machines, machine[m].session # 0
  PROVE  <<m, machine[m].session>> \in Sockets /\ machine[m].key \in Vms
BY CatalogueAssumption DEF Typed, Sockets

\* One connection changes its state.
LEMMA SocketTyped ==
  ASSUME Typed, NEW s \in Sockets, NEW state \in SocketState,
         socket' = [socket EXCEPT ![s] = state]
  PROVE  socket' \in [Sockets -> SocketState]
BY DEF Typed

LEMMA ConnectKeeps ==
  ASSUME CatalogueInv, NEW m \in Machines, Connect(m)
  PROVE  CatalogueInv'
<1>1. PICK n \in 1..MaxSessions :
        /\ machine' = [machine EXCEPT ![m].session = n]
        /\ socket' = [socket EXCEPT ![<<m, n>>] = "open"]
  BY DEF Connect
<1>2. /\ machine' \in [Machines -> [key : Vms \cup {NoVm}, session : 0..MaxSessions]]
      /\ \A k \in Machines : machine'[k].session # 0 => machine'[k].key # NoVm
  BY <1>1, CatalogueAssumption DEF Connect, CatalogueInv, Typed
<1>3. <<m, n>> \in Sockets
  BY DEF Sockets
<1>4. socket' \in [Sockets -> SocketState]
  BY <1>1, <1>3, SocketTyped DEF CatalogueInv, SocketState
<1>5. QED
  BY <1>2, <1>4, NetworkKeeps DEF Connect

LEMMA LoseKeeps ==
  ASSUME CatalogueInv, NEW m \in Machines, Lose(m)
  PROVE  CatalogueInv'
<1>1. socket' \in [Sockets -> SocketState]
  BY SessionSocket, SocketTyped DEF CatalogueInv, Lose, SocketState
<1>2. /\ machine' \in [Machines -> [key : Vms \cup {NoVm}, session : 0..MaxSessions]]
      /\ \A k \in Machines : machine'[k].session # 0 => machine'[k].key # NoVm
  BY CatalogueAssumption DEF Lose, CatalogueInv, Typed
<1>3. QED
  BY <1>1, <1>2, NetworkKeeps DEF Lose

\* The process ends on an exception for a VM that was deleted under its machine.
LEMMA EndProcessKeeps ==
  ASSUME CatalogueInv, EndProcess, history.pulled # {}
  PROVE  CatalogueInv'
<1>1. /\ history' \in History /\ history'.pulled = history.pulled
      /\ history'.overtaken = history.overtaken /\ history'.ended = TRUE
  BY DEF EndProcess, CatalogueInv, Typed, History
<1>2. /\ \A s \in Sockets : clients'[s] = NoVm /\ socket'[s] \in {"unused", "closed"}
      /\ \A t \in Tasks : tasks'[t] = Free
      /\ socket' \in [Sockets -> SocketState] /\ clients' \in [Sockets -> Vms \cup {NoVm}]
      /\ tasks' \in [Tasks -> Handlers]
  BY FreeHandler DEF EndProcess, SocketState
<1>3. /\ machine' \in [Machines -> [key : Vms \cup {NoVm}, session : 0..MaxSessions]]
      /\ \A k \in Machines : machine'[k].session = 0
  BY SMTT(20), CatalogueAssumption DEF EndProcess, CatalogueInv, Typed
<1>4. UNCHANGED <<vms, let>>
  BY DEF EndProcess
<1>5. Typed'
  BY <1>1, <1>2, <1>3, <1>4 DEF CatalogueInv, Typed
<1>6. \A v \in Vms : ~Served(v)' /\ ~Handled(v)' /\ ~Saving(v)'
  BY <1>2, FreeHandler, CatalogueAssumption DEF Served, Handled, Saving
<1>7. LetVmIsKept' /\ UsedIsListed' /\ EndsOnlyAfterPulling'
  BY <1>1, <1>4, <1>6
     DEF CatalogueInv, LetVmIsKept, UsedIsListed, EndsOnlyAfterPulling, Listed
<1>8. SavesAreOfListed'
  BY <1>6 DEF SavesAreOfListed
<1>9. QED
  BY <1>5, <1>7, <1>8 DEF CatalogueInv

\* A handler ends with what it was about, and its connection may be answered.
LEMMA EndKeeps ==
  ASSUME CatalogueInv, NEW t \in Tasks, End(t), UNCHANGED <<vms, let, machine, clients, history>>,
         socket' \in [Sockets -> SocketState]
  PROVE  CatalogueInv'
<1>1. Becomes(t, Free)
  BY Ends DEF CatalogueInv
<1>2. Typed'
  BY <1>1 DEF CatalogueInv, Typed, Becomes
<1>3. RowsStay
  BY <1>1, ComingAndGoing, FreeHandler DEF RowsStay
<1>4. QED
  BY <1>2, <1>3, Stays

\* The answer to a registration.
LEMMA AnsweredTyped ==
  ASSUME Typed, NEW s \in Sockets, NEW state \in {"registered", "refused"},
         socket' = [socket EXCEPT ![s] = Answered(s, state)]
  PROVE  socket' \in [Sockets -> SocketState]
BY DEF Typed, Answered, SocketState

\* findOne throws: the VM of a handler of a connection was deleted under it.
LEMMA ThrowKeeps ==
  ASSUME CatalogueInv, NEW t \in Tasks, Throw(t), ~Listed(tasks[t].vm)
  PROVE  CatalogueInv'
<1>1. tasks[t] \in Handlers
  BY DEF CatalogueInv, Typed
<1>2. CASE /\ tasks[t].kind = "register"
           /\ socket' = [socket EXCEPT ![tasks[t].socket] = Answered(tasks[t].socket, "refused")]
           /\ End(t) /\ UNCHANGED <<vms, let, machine, clients, history>>
  BY <1>1, <1>2, Places, AnsweredTyped, EndKeeps DEF CatalogueInv
<1>3. CASE End(t) /\ UNCHANGED <<vms, let, machine, socket, clients, history>>
  BY <1>3, EndKeeps DEF CatalogueInv, Typed
<1>4. CASE tasks[t].kind = "disconnect" /\ EndProcess
  <2>1. tasks[t].vm \in Vms /\ Handled(tasks[t].vm)
    BY <1>1, <1>4, Places, FreeHandler DEF Handled
  <2>2. tasks[t].vm \in history.pulled
    BY <2>1 DEF CatalogueInv, UsedIsListed
  <2>3. QED
    BY <1>4, <2>2, EndProcessKeeps
<1>5. QED
  BY <1>2, <1>3, <1>4 DEF Throw

-----------------------------------------------------------------------------
(* Registration.                                                           *)

LEMMA ClientConnectedKeeps ==
  ASSUME CatalogueInv, NEW t \in Tasks, NEW m \in Machines, HandleClientConnected(t, m)
  PROVE  CatalogueInv'
<1> DEFINE s == <<m, machine[m].session>>
           v == machine[m].key
           h == Handler("register", "link", s, v, vms[v].status)
<1>1. s \in Sockets /\ v \in Vms /\ vms[v].status \in VmStatus
  BY SessionSocket DEF CatalogueInv, HandleClientConnected, Typed, VmRow
<1>2. UNCHANGED <<vms, let, machine, clients, history>>
  BY DEF HandleClientConnected
<1>3. socket' \in [Sockets -> SocketState]
  <2>1. PICK state \in SocketState : socket' = [socket EXCEPT ![s] = state]
    BY DEF HandleClientConnected, SocketState
  <2> HIDE DEF s
  <2>2. QED
    BY <1>1, <2>1, SocketTyped DEF CatalogueInv
<1>4. CASE ~Listed(v)
  BY <1>2, <1>3, <1>4, NetworkKeeps DEF HandleClientConnected, CatalogueInv, Typed
<1>5. CASE Listed(v)
  <2>1. Start(t, h)
    BY <1>5 DEF HandleClientConnected
  <2>2. h \in Handlers /\ h.at # "save" /\ h.vm = v
    BY <1>1, NewHandler
  <2> HIDE DEF s, v, h
  <2>3. QED
    BY <1>2, <1>3, <1>5, <2>1, <2>2, StartKeeps
<1>6. QED
  BY <1>4, <1>5

\* A handler goes on; it comes to a save only from a row it has just loaded.
LEMMA GoKeeps ==
  ASSUME CatalogueInv, NEW t \in Tasks, NEW h \in Handlers, GoesOn(t, h),
         h.at = "save" => Listed(h.vm),
         UNCHANGED <<vms, let, machine, socket, clients, history>>
  PROVE  CatalogueInv'
<1>1. Typed'
  BY DEF CatalogueInv, Typed, GoesOn, Becomes
<1>2. RowsStay
  BY GoingOn DEF RowsStay
<1>3. QED
  BY <1>1, <1>2, Stays

LEMMA SetPhysicalComputerKeeps ==
  ASSUME CatalogueInv, NEW t \in Tasks, SetPhysicalComputer(t)
  PROVE  CatalogueInv'
<1> DEFINE g == tasks[t]
           revive == g.status \in {"configuring", "offline", "failed"}
           at == IF revive THEN "load" ELSE "store"
           st == IF revive THEN Revived ELSE g.status
           h == Moved(g, at, st)
<1>1. g \in Handlers /\ g.kind = "register" /\ g.at = "link" /\ g.vm \in Vms /\ st \in VmStatus
  BY Places, FreeHandler DEF CatalogueInv, Typed, SetPhysicalComputer, VmStatus, Revived
<1>2. h \in Handlers /\ h.at = at /\ h.kind = g.kind /\ h.vm = g.vm
  BY <1>1, MovedHandler
<1>3. tasks' = [tasks EXCEPT ![t] = h]
  BY DEF SetPhysicalComputer, Moved
<1>4. h.at # "save"
  BY <1>2
<1> HIDE DEF h
<1>5. GoesOn(t, h)
  BY <1>2, <1>3 DEF GoesOn, Becomes, CatalogueInv, Typed
<1>6. QED
  BY <1>2, <1>4, <1>5, GoKeeps DEF SetPhysicalComputer

LEMMA StoreClientKeeps ==
  ASSUME CatalogueInv, NEW t \in Tasks, StoreClient(t)
  PROVE  CatalogueInv'
<1> DEFINE v == tasks[t].vm
           s == tasks[t].socket
<1>1. tasks[t].kind = "register" /\ v \in Vms /\ s \in Sockets
  BY Places, FreeHandler DEF CatalogueInv, Typed, StoreClient
<1>2. Becomes(t, Free)
  BY Ends DEF CatalogueInv, StoreClient
<1>3. UNCHANGED <<vms, let, machine, history>>
  BY DEF StoreClient
<1>4. /\ clients' \in [Sockets -> Vms \cup {NoVm}]
      /\ \A r \in Sockets : clients'[r] = IF r = s THEN v ELSE clients[r]
  BY <1>1 DEF StoreClient, CatalogueInv, Typed
<1>5. socket' \in [Sockets -> SocketState]
  BY <1>1, AnsweredTyped DEF StoreClient, CatalogueInv
<1>6. Handled(v)
  BY <1>1 DEF Handled
<1>7. Typed'
  BY <1>2, <1>3, <1>4, <1>5 DEF CatalogueInv, Typed, Becomes
<1>8. \A w \in Vms : /\ (Served(w) \/ Handled(w))' => Served(w) \/ Handled(w)
                     /\ Saving(w)' => Saving(w)
  BY <1>2, <1>4, <1>6, FreeHandler DEF Served, Handled, Saving, Becomes
<1>9. RowsStay
  BY <1>3, <1>8 DEF RowsStay
<1>10. QED
  BY <1>7, <1>9, Stays

-----------------------------------------------------------------------------
(* Statuses: four kinds of handlers load a row and save it.                *)

LEMMA LoadVmKeeps ==
  ASSUME CatalogueInv, NEW t \in Tasks, LoadVm(t)
  PROVE  CatalogueInv'
<1>1. CASE ~Listed(tasks[t].vm)
  BY <1>1, ThrowKeeps DEF LoadVm
<1>2. CASE Listed(tasks[t].vm)
  <2>1. /\ tasks[t].kind \in {"patch", "register", "disconnect", "heartbeat"}
        /\ Goto(t, "save") /\ UNCHANGED <<vms, let, machine, socket, clients, history>>
    BY <1>2, Places DEF CatalogueInv, Typed, LoadVm
  <2>2. PICK h \in Handlers : GoesOn(t, h) /\ h.at = "save"
    BY <2>1, Goes DEF CatalogueInv
  <2>3. QED
    BY <1>2, <2>1, <2>2, GoKeeps DEF GoesOn
<1>3. QED
  BY <1>1, <1>2

LEMMA SaveVmKeeps ==
  ASSUME CatalogueInv, NEW t \in Tasks, SaveVm(t)
  PROVE  CatalogueInv'
<1> DEFINE g == tasks[t]
           v == g.vm
           row == [at |-> "listed", status |-> g.status]
<1>1. /\ g \in Handlers /\ g.kind \in {"patch", "register", "disconnect", "heartbeat"}
      /\ v \in Vms /\ g.status \in VmStatus
  BY Places, FreeHandler DEF CatalogueInv, Typed, SaveVm
<1>2. UNCHANGED <<let, machine, socket, clients, history>>
  BY DEF SaveVm
<1>3. vms' \in [Vms -> VmRow] /\ \A w \in Vms : vms'[w].at \in {vms[w].at, "listed"}
  <2>1. row \in VmRow /\ row.at = "listed"
    BY <1>1 DEF VmRow
  <2>2. vms' = [vms EXCEPT ![v] = row]
    BY DEF SaveVm
  <2> HIDE DEF row
  <2>3. QED
    BY <1>1, <2>1, <2>2 DEF CatalogueInv, Typed
<1>4. /\ tasks' \in [Tasks -> Handlers]
      /\ \A w \in Vms : /\ (Served(w) \/ Handled(w))' => Served(w) \/ Handled(w)
                        /\ Saving(w)' => Saving(w)
  <2>1. CASE g.kind \in {"patch", "heartbeat"}
    <3>1. End(t)
      BY <2>1 DEF SaveVm
    <3>2. Becomes(t, Free)
      BY <3>1, Ends DEF CatalogueInv
    <3>3. QED
      BY <1>2, <3>2, ComingAndGoing, FreeHandler DEF Becomes
  <2>2. CASE g.kind \in {"register", "disconnect"}
    <3>1. \/ g.kind = "register" /\ Goto(t, "store")
          \/ g.kind = "disconnect" /\ Goto(t, "forget")
      BY <2>2 DEF SaveVm
    <3>2. PICK h \in Handlers : GoesOn(t, h) /\ h.at \in {"store", "forget"}
      BY <3>1, Goes DEF CatalogueInv
    <3>3. QED
      BY <1>2, <3>2, GoingOn DEF GoesOn, Becomes
  <2>3. QED
    BY <1>1, <2>1, <2>2
<1>5. Typed'
  BY <1>2, <1>3, <1>4 DEF CatalogueInv, Typed
<1>6. RowsStay
  BY <1>2, <1>3, <1>4 DEF RowsStay
<1>7. QED
  BY <1>5, <1>6, Stays

LEMMA LookUpVmKeeps ==
  ASSUME CatalogueInv, NEW t \in Tasks, LookUpVm(t)
  PROVE  CatalogueInv'
<1> DEFINE g == tasks[t]
           v == g.vm
           st == IF vms[v].status \in {"running", "building", "shutting_down"} THEN "offline"
                 ELSE vms[v].status
           h == Moved(g, "load", st)
<1>1. g \in Handlers /\ g.kind = "disconnect" /\ v \in Vms /\ st \in VmStatus
  BY Places, FreeHandler DEF CatalogueInv, Typed, LookUpVm, VmRow, VmStatus
<1>2. CASE ~Listed(v)
  BY <1>2, ThrowKeeps DEF LookUpVm
<1>3. CASE Listed(v)
  <2>1. h \in Handlers /\ h.at = "load" /\ h.kind = g.kind /\ h.vm = v
    BY <1>1, MovedHandler
  <2>2. tasks' = [tasks EXCEPT ![t] = h]
    BY <1>3 DEF LookUpVm, Moved
  <2> HIDE DEF h
  <2>3. GoesOn(t, h)
    BY <2>1, <2>2 DEF GoesOn, Becomes, CatalogueInv, Typed
  <2>4. QED
    BY <1>3, <2>1, <2>3, GoKeeps DEF LookUpVm
<1>4. QED
  BY <1>2, <1>3

-----------------------------------------------------------------------------
(* Disconnects and heartbeats.                                             *)

LEMMA DisconnectKeeps ==
  ASSUME CatalogueInv, NEW t \in Tasks, NEW s \in Sockets, HandleDisconnect(t, s)
  PROVE  CatalogueInv'
<1> DEFINE v == clients[s]
           h == Handler("disconnect", "look", s, v, "offline")
<1>1. UNCHANGED <<vms, let, machine, clients, history>> /\ socket' \in [Sockets -> SocketState]
  BY SocketTyped DEF HandleDisconnect, CatalogueInv, SocketState
<1>2. CASE v = NoVm
  BY <1>1, <1>2, NetworkKeeps DEF HandleDisconnect, CatalogueInv, Typed
<1>3. CASE v # NoVm
  <2>1. v \in Vms /\ Start(t, h)
    BY <1>3 DEF HandleDisconnect, CatalogueInv, Typed
  <2>2. h \in Handlers /\ h.at # "save" /\ h.vm = v
    BY <2>1, NewHandler DEF VmStatus
  <2>3. Served(v)
    BY DEF Served
  <2> HIDE DEF h
  <2>4. Becomes(t, h)
    BY <2>1, <2>2, Starts DEF CatalogueInv
  <2>5. Typed'
    BY <1>1, <2>4 DEF CatalogueInv, Typed, Becomes
  <2>6. RowsStay
    BY <1>1, <2>2, <2>3, <2>4, ComingAndGoing DEF RowsStay
  <2>7. QED
    BY <2>5, <2>6, Stays
<1>4. QED
  BY <1>2, <1>3

LEMMA ForgetClientKeeps ==
  ASSUME CatalogueInv, NEW t \in Tasks, ForgetClient(t)
  PROVE  CatalogueInv'
<1> DEFINE s == tasks[t].socket
<1>1. s \in Sockets
  BY Places DEF CatalogueInv, Typed, ForgetClient
<1>2. Becomes(t, Free)
  BY Ends DEF CatalogueInv, ForgetClient
<1>3. UNCHANGED <<vms, let, machine, socket, history>>
  BY DEF ForgetClient
<1>4. /\ clients' \in [Sockets -> Vms \cup {NoVm}]
      /\ \A r \in Sockets : clients'[r] = IF r = s THEN NoVm ELSE clients[r]
  BY <1>1 DEF ForgetClient, CatalogueInv, Typed
<1>5. Typed'
  BY <1>2, <1>3, <1>4 DEF CatalogueInv, Typed, Becomes
<1>6. \A w \in Vms : /\ (Served(w) \/ Handled(w))' => Served(w) \/ Handled(w)
                     /\ Saving(w)' => Saving(w)
  BY <1>2, <1>4, FreeHandler, CatalogueAssumption DEF Served, Handled, Saving, Becomes
<1>7. RowsStay
  BY <1>3, <1>6 DEF RowsStay
<1>8. QED
  BY <1>5, <1>7, Stays

LEMMA HeartbeatKeeps ==
  ASSUME CatalogueInv, NEW t \in Tasks, NEW s \in Sockets, HandleHeartbeat(t, s)
  PROVE  CatalogueInv'
<1> DEFINE v == clients[s]
           h == Handler("heartbeat", "load", s, v, "available")
<1>1. v \in Vms /\ Listed(v) /\ Start(t, h)
  BY DEF HandleHeartbeat, CatalogueInv, Typed
<1>2. h \in Handlers /\ h.at # "save" /\ h.vm = v
  BY <1>1, NewHandler DEF VmStatus
<1> HIDE DEF h
<1>3. QED
  BY <1>1, <1>2, StartKeeps DEF HandleHeartbeat, CatalogueInv, Typed

-----------------------------------------------------------------------------
(* The invariant.                                                          *)

LEMMA CatalogueInvInit ==
  ASSUME Init
  PROVE  CatalogueInv
<1> USE DEF Init
<1>1. Typed
  <2>1. vms \in [Vms -> VmRow] /\ \A v \in Vms : vms[v].at = "new"
    BY DEF VmRow, VmStatus
  <2>2. /\ machine \in [Machines -> [key : Vms \cup {NoVm}, session : 0..MaxSessions]]
        /\ \A m \in Machines : machine[m].session = 0
    BY CatalogueAssumption
  <2>3. history \in History
    BY DEF History
  <2>4. socket \in [Sockets -> SocketState] /\ clients \in [Sockets -> Vms \cup {NoVm}]
    BY DEF SocketState
  <2>5. QED
    BY <2>1, <2>2, <2>3, <2>4, FreeHandler DEF Typed
<1>2. \A v \in Vms : ~Served(v) /\ ~Handled(v) /\ ~Saving(v)
  BY FreeHandler, CatalogueAssumption DEF Served, Handled, Saving
<1>3. LetVmIsKept /\ SavesAreOfListed /\ UsedIsListed /\ EndsOnlyAfterPulling
  BY <1>2 DEF LetVmIsKept, SavesAreOfListed, UsedIsListed, EndsOnlyAfterPulling
<1>4. QED
  BY <1>1, <1>3 DEF CatalogueInv

LEMMA CatalogueInvStep ==
  ASSUME CatalogueInv, [Next]_vars
  PROVE  CatalogueInv'
<1>1. ASSUME NEW t \in Tasks, HandlerStep(t)
      PROVE  CatalogueInv'
  BY <1>1, DeleteRowKeeps, InsertRentalKeeps, SetPhysicalComputerKeeps, LoadVmKeeps,
     SaveVmKeeps, StoreClientKeeps, LookUpVmKeeps, ForgetClientKeeps DEF HandlerStep
<1>2. ASSUME NEW t \in Tasks, NEW v \in Vms,
             \/ DeleteVm(t, v) \/ CreateRental(t, v)
             \/ \E status \in Statuses : PatchVm(t, v, status)
      PROVE  CatalogueInv'
  BY <1>2, RequestKeeps
<1>3. ASSUME NEW v \in Vms, CreateVm(v) \/ \E status \in Statuses : Serve(v, status)
      PROVE  CatalogueInv'
  BY <1>3, CreateVmKeeps, ServeKeeps
<1>4. ASSUME NEW m \in Machines,
             Connect(m) \/ Lose(m) \/ \E v \in Vms : Launch(m, v)
      PROVE  CatalogueInv'
  BY <1>4, ConnectKeeps, LoseKeeps, LaunchKeeps
<1>5. ASSUME NEW t \in Tasks, NEW s \in Sockets, HandleDisconnect(t, s) \/ HandleHeartbeat(t, s)
      PROVE  CatalogueInv'
  BY <1>5, DisconnectKeeps, HeartbeatKeeps
<1>6. CASE UNCHANGED vars
  <2>1. UNCHANGED <<vms, let, machine, socket, clients, tasks, history>>
    BY <1>6 DEF vars
  <2>2. Typed'
    BY <2>1 DEF CatalogueInv, Typed
  <2>3. RowsStay
    BY <2>1, NoHandler DEF RowsStay
  <2>4. QED
    BY <2>2, <2>3, Stays
<1>7. QED
  BY <1>1, <1>2, <1>3, <1>4, <1>5, <1>6, ClientConnectedKeeps DEF Next, vars

\* However listings, rentals, connections and handlers interleave, every VM that is used
\* is listed or was deleted under its user: the invariant the other theorems rest on.
THEOREM CatalogueKept == Spec => []CatalogueInv
<1>1. Init => CatalogueInv
  BY CatalogueInvInit
<1>2. CatalogueInv /\ [Next]_vars => CatalogueInv'
  BY CatalogueInvStep
<1>3. QED
  BY <1>1, <1>2, PTL DEF Spec

-----------------------------------------------------------------------------
(* What follows from it.                                                   *)

\* Rows, connections, handlers and the history have their types.
THEOREM TypeCorrect == Spec => []TypeOK
<1>1. ASSUME CatalogueInv
      PROVE  TypeOK
  <2>1. \A t \in Tasks :
          /\ tasks[t].kind \in {"none", "patch", "delete", "rent", "register", "disconnect",
                                "heartbeat"}
          /\ tasks[t].status \in VmStatus
          /\ tasks[t].at # "free" => tasks[t].vm \in Vms
    BY <1>1, Places DEF CatalogueInv, Typed
  <2>2. QED
    BY <1>1, <2>1 DEF CatalogueInv, Typed, TypeOK
<1>2. QED
  BY <1>1, CatalogueKept, PTL

\* A VM that was ever let is never deleted, for any number of deletions and rentals that
\* race each other: the foreign key of rentals decides, not a check of delete.
THEOREM LetVmsAreKept == Spec => []LetVmIsKept
<1>1. CatalogueInv => LetVmIsKept
  BY DEF CatalogueInv
<1>2. QED
  BY <1>1, CatalogueKept, PTL

\* The backend ends itself only when a VM was deleted under the machine that serves it:
\* every VM that a connection or a handler is about exists otherwise, so findOne does not
\* throw in handleDisconnect (websocket.gateway.ts:82).
THEOREM EndsAfterPulling == Spec => []EndsOnlyAfterPulling
<1>1. CatalogueInv => EndsOnlyAfterPulling
  BY DEF CatalogueInv
<1>2. QED
  BY <1>1, CatalogueKept, PTL

\* A deletion is final unless a save of the VM's status was pending when it was made.
THEOREM DeletionsAreFinal == Spec => DeletionIsFinal
<1>1. ASSUME CatalogueInv, [Next]_vars, NEW v \in Vms,
             vms[v].at = "deleted", v \notin history.overtaken
      PROVE  vms'[v].at = "deleted"
  <2>1. \A t \in Tasks : tasks[t].at = "save" => tasks[t].vm # v
    BY <1>1 DEF CatalogueInv, SavesAreOfListed, Saving
  <2>2. ~Listed(v) /\ vms \in [Vms -> VmRow]
    BY <1>1 DEF Listed, CatalogueInv, Typed
  <2>3. ASSUME NEW w \in Vms, CreateVm(w) \/ \E status \in Statuses : Serve(w, status)
        PROVE  vms'[v] = vms[v]
    BY <1>1, <2>2, <2>3 DEF CreateVm, Serve, Listed
  <2>4. ASSUME NEW t \in Tasks, DeleteRow(t) \/ SaveVm(t)
        PROVE  vms'[v] = vms[v]
    BY <2>1, <2>2, <2>4 DEF DeleteRow, SaveVm, Listed
  <2>5. ASSUME NEW t \in Tasks,
               \/ InsertRental(t) \/ SetPhysicalComputer(t) \/ LoadVm(t) \/ StoreClient(t)
               \/ LookUpVm(t) \/ ForgetClient(t)
        PROVE  vms' = vms
    BY <2>5 DEF InsertRental, SetPhysicalComputer, LoadVm, StoreClient, LookUpVm,
                ForgetClient, Throw, EndProcess
  <2>6. ASSUME NEW t \in Tasks,
               \/ \E w \in Vms : \/ DeleteVm(t, w) \/ CreateRental(t, w)
                                 \/ \E status \in Statuses : PatchVm(t, w, status)
               \/ \E m \in Machines : HandleClientConnected(t, m)
               \/ \E s \in Sockets : HandleDisconnect(t, s) \/ HandleHeartbeat(t, s)
        PROVE  vms' = vms
    BY <2>6 DEF DeleteVm, CreateRental, PatchVm, HandleClientConnected, HandleDisconnect,
                HandleHeartbeat
  <2>7. ASSUME NEW m \in Machines, Connect(m) \/ Lose(m) \/ \E w \in Vms : Launch(m, w)
        PROVE  vms' = vms
    BY <2>7 DEF Connect, Lose, Launch
  <2>8. QED
    BY <1>1, <2>3, <2>4, <2>5, <2>6, <2>7 DEF Next, HandlerStep, vars
<1>2. CatalogueInv /\ [Next]_vars =>
        [\A v \in Vms : vms[v].at = "deleted" /\ v \notin history.overtaken
                        => vms'[v].at = "deleted"]_vars
  BY <1>1
<1>3. QED
  BY <1>2, CatalogueKept, PTL DEF Spec, DeletionIsFinal
=============================================================================
