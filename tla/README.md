# Hive rental backend: specification, model checking and proofs

The repository is the backend of a marketplace for virtual machines. A *provider*
lists a VM and runs a *connector* (a Python script) on the machine that will host
it; a *receiver* rents the VM, runs jobs in it and pays. A NestJS process with a
PostgreSQL database serves both over HTTP and talks to the connectors over
Socket.IO. This directory holds TLA+ modules of that system, the TLC runs that
check them and the theorems TLAPS proves about them.

## 1. Inventory

| Part (source) | State | Operations | What makes it correct |
|---|---|---|---|
| Rentals service (`src/src/rentals`) | table `vm_rentals`: state, end time, cost, payment | create, end, pay, fail | one receiver per VM; an ended rental stays ended, a paid one stays paid; a VM with an active rental is being built or runs |
| WebSocket gateway (`src/src/websocket`) | `connectedClients`, a map in insertion order from socket id to computer and VM | registration, provisioning and lifecycle events, heartbeats, disconnects, sending orders | an entry exists exactly for live registered sockets; a computer stored as connected has one; orders go to an acknowledged socket; VMs do not stay in transient states |
| Virtual machines service (`src/src/virtual-machines`) | table `virtual_machines`: status, link to the computer | create, findAll, updateStatus, setPhysicalComputer, PATCH by the provider, delete | the link survives the saves of other handlers; a VM that was let is kept, a deletion is not undone by a late save |
| Computers service (`src/src/computers`) | table `physical_computers`: connected, available, status, current VM | register, updateStatus, setConnected, setCurrentVM, findAvailable, selectBestComputer | the row agrees with the registry |
| Connector (`src/assets/scripts/agent_lifecycle_debug.py`) | `current_vm_id`, `registration_confirmed`, the socket, builds and commands running in threads | read its settings, connect and register, provision, stop, destroy, run a job, heartbeat | every order is answered while the connection holds; an answer says what the machine is |
| Jobs service (`src/src/jobs`) and the execution events | table `vm_jobs`: status, result | create and dispatch, updateResult, execution events | status and result belong together; a refused job is not run; results are kept |
| Accounts (`src/src/auth`, `src/src/users`) | table `users`, JWTs, `JWT_SECRET` | register, login, profile | one account per email and username; the password it was made with opens it |
| Metrics (`src/src/metrics`) | appended rows | record, list the latest of a rental | the rows listed are the latest |
| Calculator (`src/src/calculator`) | none | estimate | it covers what the workload needs, and no more |
| Downloads (`src/src/download`) | the folder of installers, changed from outside | list, serve, build the connector's bundle | the answer is about the folder as it is; a bundle's connector finds its backend and its VM |
| Application shell (`main.ts`, `app.module.ts`, `config`) | none | wiring | - |

**Interactions.** RentalsService and JobsService call VirtualMachinesService and the
gateway's send methods; the gateway calls both VM and computer services and writes
rentals and jobs itself. All of them share four tables without transactions, row
locks or version columns. Connectors only exchange events with the gateway. The bundle
of the download service carries the token by which a connector registers for its VM.
Accounts, metrics, the calculator and downloads share no state with the rest.

**Hard behaviours.** Every handler awaits the database between its reads and its
writes, and `repository.save` writes back all columns of an entity loaded earlier,
so handlers of one or of several users interleave and overwrite each other. Events
of one socket are handled concurrently too. Connections fail with orders and
results on the way; Socket.IO tells the connector and the server at different
times; the connector comes back on a new socket. The process may be restarted,
which clears the registry and keeps the tables; it ends by itself when the disconnect
handler, whose promise nobody awaits, rejects. On the provider's machine a build runs in
a thread beside the event loop, while stop and destroy hold the loop up; Vagrant locks
its machine, fails, and is asked by words that differ between its providers.

`PROJECT.json` lists the components and, under `hazards`, each place where one of
these behaviours bites, with the properties that watch it.

## 2. Modules

```
HiveRecords      rows, messages, the state of a suspended handler
  ProviderAgent    the connector and its sockets
    RentalBackend    tables, gateway, services: the whole rental life cycle
      RentalProperties   properties and fairness    -> refines RentalLedger
        MCRentalBackend    TLC instances
        RentalProofs       type correctness; what stale saves of rentals can do
          RentalLinkProofs   orders follow the acknowledgment, links last
            RentalTurnProofs   what holds when handlers take turns; the ledger
RentalLedger     what the rental tables promise (abstract)
JobExecution     the job pipeline over RentalLedger
  JobProperties    properties and fairness
    MCJobExecution   TLC instances
    JobProofs        type correctness, whole rows, refused jobs
Host             the connector's orders over Vagrant, with its fairness
  HostProperties   properties                       -> refines ConnectorPromise
    MCHost           TLC instance
    HostProofs       what answers say, and the refinement
ConnectorPromise what the backend may assume of a connector (abstract)
Catalogue        VMs listed, patched, deleted and served
  CatalogueProperties, MCCatalogue
    CatalogueProofs  what deletions do
Accounts         users, passwords, tokens
  AccountProperties, MCAccounts
    AccountProofs    one maker per account, what passwords open
Listings         findAll, findAvailable, selectBestComputer as operators
Calculator       the estimate as operators
ConnectorSettings  the bundle's configuration and how a connector reads it
Downloads        the installers and their folder
  Endpoints        downloads, metrics, and every question to the operators
    EndpointProperties, MCEndpoints
      EndpointProofs   every answer is right, for every size and every folder
```

`RentalBackend` composes the connector (`ProviderAgent`) with the backend: the
connector's actions and the backend's share the sockets. `JobExecution` is composed
with rentals through their abstract specification: its variable `ledger` is moved by
the actions `Open` and `Close` of `RentalLedger`, which `RentalBackend` is shown to
implement while handlers do not interleave (run `one_at_a_time`, and section 4); what it
implements while they do is `OverlapSpec` beside it. `ProviderAgent` takes a connector to
be what `ConnectorPromise` says: a build under way until its one answer,
which names the VM the connector has at that time, and a removal that is one step. `Host`,
which has the handlers with their threads and Vagrant, is shown to implement it. The
correspondence of `ConnectorPromise` and `ProviderAgent` is by inspection:

| ConnectorPromise | ProviderAgent |
|---|---|
| `Provision` | `AgentProvision`, a build that begins (`current_vm_id`, `builds` + 1) |
| `Reject` | `AgentProvision`, then an `AgentProvisionDone` that failed |
| `Finish` | `AgentProvisionDone` |
| `Remove` | `AgentDestroy` |
| `Acknowledge` | `AgentAcknowledged` |
| `Restart` | none: ProviderAgent's connector is not restarted |

`Catalogue` has deletions and keeps of a rental only that its row refers to the VM. What
building, ending and destroying write to a VM that was let is one permissive action
(`Serve`: any of `Statuses`, at any time), which allows more than the handlers do, so that
what the properties promise does not depend on their order; `RentalBackend` has their steps,
and no deletion. The table of computers is in `RentalBackend` alone.

### How code becomes actions

*Steps and handlers.* Node runs a handler until it awaits the database. A step of the
model is the code between two awaits. An event or a request takes a free slot `t` of
`Tasks`; the action that starts it makes the handler's first read and all checks made
on it, and leaves in `tasks[t].todo` the list of service calls the handler still has
to make. The calls are actions of their own (`LoadVm` and `SaveVm` are
`VirtualMachinesService.updateStatus`, `LoadComputer` and `SaveComputer` are
`ComputersService.updateStatus`, `LoadActiveRental` and `SaveRental` are
`closeActiveRentalForVm` and `failRentalForVm`, ...). So `CreateRental` is the check
of `create`, and its list is `insertRental`, `vmStatus` BUILDING and `provision_vm`;
when no entry is found `SendProvisionVM` replaces the rest by `closeRental` and
`vmStatus` FAILED, as the code does before it throws.

*Saves.* `repository.save` is a load and a later save of the whole row, with the steps
of other handlers in between. `repository.update` writes only its columns
(`SetPhysicalComputer`, `SetConnectedFalse`, `SetCurrentVm`). An entity loaded with its
relation `virtualMachines` (`ComputersService.findOne`) restores that relation when it
is saved: `hostsVm` is what the relation held when it was loaded. The save itself is one
step. TypeORM, which is outside the repository, reads the row once more and updates the
columns that differ; a write of a third handler between that read and the update is finer
than the grain of the models, and what `RentalsAreWhole` and `JobsAreWhole` say of whole
rows is said up to it.

*Ids.* A computer is registered with the token of its VM and the token is unique, so
computers and VMs correspond one to one and a computer is named by its VM;
`physicalComputerId` is the flag `linked`. A null id is dropped from a WHERE clause by
the TypeORM version of the repository (0.3), so `findOne` finds any row (`FoundBy`), and
`update` refuses it.

*Sockets.* A socket is `open`, then `lost` (the connector has noticed), then `closed`
(the disconnect callback has run). What the backend had still to send is lost with the
socket; what the connector sent may still be read until the callback runs. With
`Lingering` the connector may be back on a new socket before the callback of the old
one has run. With `EarlyLoss` a connection may fail before the registration is
acknowledged.

*Abstractions.* `totalCost` is zero or "usage" (hours times price). IP addresses, SSH
data, hardware data, heartbeat times, logging and the wording of errors are left out. The
user of a request is any account; the checks on who may do what are in the guards.
`current_vm_id`, `registration_confirmed` and the number of running builds are the
connector's state. The failure of an unsupported operating system is a provisioning
that fails at once.

*A provider's machine.* `Host` numbers the orders a machine receives. A handler's place
is where its coroutine or its thread is; `loop` is the order whose command the event loop
waits for (`subprocess.run` in `on_stop_vm` and `on_destroy_vm`), `lock` the one whose
command Vagrant works on. Vagrant is external: its commands lock the machine, fail at
once when it is locked, and may fail otherwise; `up` starts the machine there is, and
makes one only when there is none. `seenHalted` says whether the provider's word for a
halted machine is one of those `run_vagrant` looks for. `made` is the order whose `up`
made the machine: it tells a renter's machine from the one before. As an address it is
that machine's; 0 is the default address of `get_vagrant_ssh_info`, which it reports when
`vagrant ssh-config` fails, as it may for a machine that runs. A failing `vagrant status`
ends the build.

*The catalogue.* `HandleDisconnect` and the steps after it are those of the gateway;
where a service throws, `Throw` says who catches it: a registration answers an error, a
heartbeat an exception, a disconnect nobody, and the process ends (Node's default for
an unhandled rejection). A save over a row that was deleted inserts it again
(`SaveVm`), as `repository.save` of an entity with an id does. Rows of rentals make the
database refuse the deletion of their VM (the foreign key has no `onDelete`). A connection
may be lost at any time, also while it registers: its entry is made all the same
(`StoreClient`).

*Accounts.* The checks of `register` and its insert are steps; the unique columns are
the table's own check at the insert. A token keeps the key it was signed with, so a
restart with another secret, or with none, leaves tokens that are not accepted. bcrypt
takes the first 72 bytes of a password: `Read` maps each password to what is read of it,
and two passwords that are read alike have one hash. A profile's user is looked up twice,
by the strategy and by the controller; rows are never removed, so it is one step.

*Endpoints.* The questions are asked over every combination of a small set of requests
and rows, and their answers are the operators' values; the properties state what the
answer should be in other words: the comparison of every candidate, the definition of
the ceiling, the conditions under which a connector can start. A query without ORDER BY
returns its rows in any order, so its value is a set, and a choice that depends on the
order is any of those it may give. Installers are told apart
by their ending and by the platforms their name says.

*Job rows.* `JobExecution` follows the same convention with a smaller handler state: a
row to insert, an order to send or a row to write back. A command whose VM was not linked
to a machine when the rental was loaded is stored and not sent; `InsertJob` allows that of
any command. Creating a rental is one step, of which the ledger's `Open` is the effect: the
check of the VM's status and the rental that fails without an entry are `RentalBackend`'s.
Its connection is the registry
entry and the connector's end of it; registration is one step there and the
re-registration races are `RentalBackend`'s matter.

## 3. Runs

The rental, job and catalogue instances use one or two handlers in flight (`Tasks`): their
properties speak of the effect of at most two handlers on each other, and a third adds
orders of the same pairs; the theorems of section 4 are for any number. One VM is enough:
rows, sockets and messages of different VMs do not meet but for events with a null id,
which a connector sends only when a destroy has been handled during its build
(`KeepsPromise`). Such an event is the one thing that makes a second VM matter, and section
4 says what it does. Two accounts: the provider and a receiver; two sockets per connector
are one reconnection, which is what every property about reconnection needs; two rentals
let a VM be let again.

| Run | Bounds | Shows |
|---|---|---|
| `one_at_a_time` | 1 handler, 2 sockets, 2 rentals, 2 builds, losses at any time | `TypeOK`; a VM is let once (`AtMostOneActiveRental`), is busy while let (`RentedVmIsBusy`), tables and registry agree (`ConnectedIsRegistered`), and the backend implements `RentalLedger` (`LedgerSpec`) |
| `races` | 2 handlers, 2 sockets, 1 rental, 1 build, losses at any time, restarts of the process | orders do not overtake the acknowledgment (`OrdersFollowAck`); no stale save tears a rental (`RentalsAreWhole`); `RevivedOnlyByPayment` and `UnpaidOnlyByEnding` are the most that stale saves of rentals can do |
| `recovery` | 1 handler, 2 sockets, lingering sockets, losses at any time, PATCH to AVAILABLE, fairness | while its order is under way or its build goes on, a VM gets out of BUILDING and of SHUTTING_DOWN (`BuildingEnds`, `ShutdownEnds`); heartbeats bring an idle VM back (`HeartbeatRecovers`) |
| `jobs` | 2 handlers, 2 jobs, 1 rental, 1 loss, VMs linked or not, reports of COMPLETED, fairness | rows of jobs stay whole (`JobsAreWhole`), a refused job is not run, only a late `execution_started` removes a result, what arrives is acted on |
| `host` | 3 orders of any kind, failures of every command and reboots at any time, both kinds of provider, fairness | a build reported live is its order's own machine, which runs, with its address or the default one (`LiveMeansItsOwn`), a destroy leaves none (`NothingOutlivesDestroy`), each with its named exceptions; `EveryOrderIsAnswered`; the handlers implement `ConnectorPromise` (`KeepsPromise`) |
| `catalogue` | 1 VM, 2 machines, 2 handlers, 3 connections, 3 statuses to set, losses at any time, the process may end | what was let is kept (`LetVmIsKept`); only a pending save undoes a deletion (`DeletionIsFinal`); a disconnect ends the process only after a VM was pulled from under its machine (`EndsOnlyAfterPulling`) |
| `accounts` | 3 requests, 2 emails, 2 usernames, 3 passwords of which bcrypt reads 2 alike, 2 secrets or none, 1 restart | `AccountHasOneMaker`, `AnsweredNamesAreHeld`, `OwnPasswordOpens` |
| `endpoints` | tables of up to 2 computers, every workload and intensity, every way to give a connector its settings, 4 metrics of which 2 are listed, 3 file names, 3 files put | `OffersMeetTheRequest`, `EstimateIsLeastEnough`, `BundleServesItsVm`, `LatestMetrics`, `DownloadsAreOfTheFolder` |

*Bounds.* Three orders let a build meet one before and one after it; what an answer says
does not depend on more, and the theorems of section 4 hold for any number. Three
requests of accounts are two that race and one that logs in or asks with a token. Two
machines may run with the key of one VM, and the third connection is a return of either.
The three statuses that are set in `catalogue` are one that can be rented, one that a
disconnect takes OFFLINE and one that a heartbeat takes back; which it is of those treated
alike nobody tells.
A choice by rank compares two rows at a time. Three file names are one of one platform,
one of none and one with the marks of two. The time a metric is stamped with is the clock
when its handler began, now or one tick ago, so rows are stored out of order.

*Exceptions.* The properties of `host` and `catalogue` name the cases in which they do
not hold, and the runs show that the models have no others. Each of the cases is an effect
of the code: a destroy that fails is answered like one that succeeded; a halted machine of
an unknown word is started for the next renter; a save that was pending when its VM was
deleted inserts the row again.

*Two handlers.* `recovery` has one handler in flight: two, with two sockets, are more states
than a run can take. The same three properties also pass with two handlers, losses at any
time, one socket per connector and no PATCH, an instance of its own with 315,310 states.
What they do not promise is what is false of the code:

* a BUILDING that `vm_provisioning_started` saves after the failure of its build was saved
  lasts, for nothing is under way by then (`BuildingEnds` asks for an order or a build
  that is);
* `endRental` that saves SHUTTING_DOWN after the disconnect has saved OFFLINE writes its
  order to an entry that is about to go, and nothing revives SHUTTING_DOWN
  (`ShutdownEnds` asks for an order that is read, or whose lost socket is still to be
  given up);
* a restart handles no disconnect.

`races` uses the symmetry of the handler slots, `catalogue` also that of the machines,
`accounts` that of requests, names and secrets: no property and no action
tells them apart (the user a login finds is unique). The runs with fairness use none.
`CHECK_DEADLOCK FALSE` is set everywhere but in `host`, whose connector can always be acknowledged again: the bounds on
sockets, rentals, jobs, requests and losses let a behaviour end.

Four promises of the code do not hold once handlers interleave, messages are late or a
rental is over. Each is a run that expects a violation, and a finding:

| Run | Promise | What happens |
|---|---|---|
| `double_booking` | `AtMostOneActiveRental` | two creates both pass the status check before either reserves the VM |
| `late_destroy` | `RentedVmIsBusy` | a `vm_destroyed` left on the old socket frees a VM that has been let again |
| `dead_socket` | `NoClosedSocketRegistered` | a socket that closes while it is being registered stays in the registry |
| `job_after_end` | `JobsAreOfTheTenant` | the receiver of an ended rental runs jobs in a VM that another receiver rents |

Other effects are stated as what a passing property leaves possible, and the property
says that nothing worse happens: a payment and an end undo each other
(`RevivedOnlyByPayment`, `UnpaidOnlyByEnding`), a late `execution_started` removes a
result (`ResultLostOnlyByStart`), a build that outlives a destroy reports for no VM
(`ConnectorPromise`'s `Finish`, with the VM the connector has then) and the backend takes
it for an arbitrary one (`FoundBy`). Effects that have no property, because nothing in
the repository says what should happen, are hazards with a note: the list of free computers
is wrong after a build reported late, after a machine was lost while let, after an older
connection's goodbye and after a restart; a PATCH may unlink a VM that is being registered;
a VM in SHUTTING_DOWN at a restart stays there; a job whose machine is lost is never
resolved.

### Fairness

*Rental runs.* Weak fairness on the steps of a started handler: Node resumes a handler
whose query has returned. Strong fairness on taking up an event and on the disconnect
callback: they need a free slot of `Tasks`, which others may take again and again, and
the slots are a bound of the model that Node does not have. Weak fairness on the
connector's handlers, the end of `vagrant up` included, and on its heartbeat while it is
online. Nothing forces a receiver, a provider, a loss or a reconnection. An order may go
to a dead socket that never leaves the registry (`dead_socket`): the callback of that socket
has run, so the order is not under way.

*Host run.* Weak fairness on the steps of a started handler: Vagrant's commands end, the
thread of a build ends with them, and the event loop resumes a handler when it is free.
A removal holds the loop only until its command ends. That Vagrant is installed is
assumed; without it `subprocess.run` raises in the handler of a removal, which then
answers nothing. A reboot is never forced, and an order it ends is not answered.

*Job run.* The same for handlers, events, disconnects and the start of a job; none for
the end of a command, which nothing in the connector bounds. The progress properties
start from an order or an outcome that was sent.

## 4. Proofs

Checked by TLAPS for every set of VMs, accounts and handlers and every value of the
bounds, from `RecordsAssumption`, `AgentAssumption`, `BackendAssumption` and
`JobsAssumption` (types of the constants, that SQL null is no result, no VM and no socket)
alone, for `Accounts` and `Catalogue` for every set of requests, names, VMs, machines and
handlers from `NamesAssumption`, `RestartsAssumption` and `CatalogueAssumption` (an unset
secret is no secret, null is no VM, the bounds are numbers, the statuses are some of the
enumeration's; what bcrypt reads of passwords may be anything), and for
`Host` for every number of orders from `HostAssumption` (a natural number, and a VM that
is not Python's None), and for the endpoints for every set of rentals, installers, sizes
and requests from `DownloadsAssumption` and `EndpointsAssumption` (the bounds are numbers,
the limit of a listing is positive, sizes are natural numbers).

* `TypeCorrect` (`RentalProofs`): `Spec => []TypeOK`. `TypeOK` is inductive; one lemma
  per group of actions. The work is in the handlers' call lists and in the records
  handlers hold between a load and a save.
* `RentalsStayWhole`, `OnlyPaymentRevives`, `OnlyEndingUndoesPayment`
  (`RentalProofs`). The tables alone are not inductive: a row may be overwritten by any
  copy some handler holds. The invariant `RentalInv` adds
  `PendingSavesWhole`: every copy held is whole and, over a row of the table, ends the
  rental or pays it. Most actions neither write a rental nor load one (`QuietStep`);
  the others are `CreateRental`, `EndRental`, `ProcessPayment`, `LoadActiveRental`,
  `InsertRental` and `SaveRental`, one lemma each. `SafeWrites` is what a step may do to
  a row, and the two action properties follow from it.
* `OverlapKeepsEntries` (`RentalProofs`): what is left of `RentalLedger` when handlers do
  overlap. `OverlapSpec`, beside the ledger, opens an entry though the VM has an open one
  and writes an entry as somebody saw it; so a payment may be undone by an end, an end by a
  payment, and a price may be another than the first. What it keeps, the backend keeps
  with any number of handlers, sockets and restarts: no rental is lost, an entry stays of
  its VM and its receiver, an open one costs nothing, and a write is of one entry. The
  invariant adds `CopiesKeepParties`: a copy is of the VM and receiver of the row it will
  be written over. No run has this property (two handlers and two rentals are more states
  than a run can take; TLC went through seven million of them without a counterexample).
* `JobTypeCorrect`, `JobsStayWhole`, `OnlyStartLosesResult`, `RefusedJobsStayUnrun`
  (`JobProofs`): the same argument for job rows, and that a job failed as "not connected" is never run. Here not even the types
  are inductive alone: the handler of an event reads the job the event names. The
  invariant `JobInv` adds `DispatchInv`: what is underway to, in or from a connector
  exists and has been sent, by one handler, and was neither refused nor is still to be
  sent. Every step but the sending of an order adds nothing to what is underway
  (`Settles`); the others are taken one lemma per action.
* `HostTypeCorrect`, `LiveBuildsOwnTheirMachine`, `DestroyLeavesNothing`,
  `ConnectorKeepsPromise` (`HostProofs`). That an answer is right does not follow from the
  answers: the invariant `HostInv` says what a handler that met no other can rely on at
  each of its places (`BuildsUndisturbed`: no machine before `up`, its own after, and an
  address that is its own or the default), that
  orders are taken in turn, so that two in progress have both met another
  (`TakenInTurn`), that only what has ended is answered, and what the last destroy has
  left (`DestroyedIsAbsent`). Most steps of a handler move it to another place and leave
  the environment alone; one lemma per action shows what it leaves. The refinement maps a
  removal that holds the loop to an order that has not come, so that its end is the one
  step of `Remove`; a step of a build that is not its last is a stutter. The
  step cases use `HostInv` for the types and for an order not being in two places.

* `AckPrecedesOrders` (`RentalLinkProofs`): `OrdersFollowAck` in every interleaving, with
  lingering sockets. The invariant `AckInv` says where the acknowledgment is: an open
  socket is the current one of its connector, only open sockets carry orders, a socket
  that was never opened is known to nobody, and on an open one that is not acknowledged
  the acknowledgment comes first. What makes it inductive is that the entry orders are
  looked up by and the acknowledgment come in one step.
* `LinksLast` (`RentalLinkProofs`). That a linked VM stays linked (`LinkIsKept`, there)
  does not hold for every value of the constants, and the attempt to prove it found both
  ways it fails (TLC shows each in an instance of its own): a PATCH of the provider that
  loads the VM before its machine's first registration, and, with two VMs, a failure without
  a VM that loads the one that is not linked yet. `updateStatus` saves the row it loaded,
  `physicalComputerId` null. `LinksLast` has these two as its hypotheses, stated of the
  behaviour (`PatchesFindLinked`, `NullReportsFindLinked`), and says that nothing else
  unlinks a VM: neither the saves of other handlers nor the relation that
  `ComputersService.updateStatus` saves. No run has the property: with one VM and no PATCH
  neither case can arise, and with either of them it is false. The invariant `LinkInv` says
  that whatever belongs to a VM is of a linked one: a status other than the first, a rental,
  an entry of the registry, a connector's VM, a message, a call a handler has still to make.
* `LetOnce`, `BusyWhileLet`, `ConnectedHaveEntries`, `BackendKeepsLedger`,
  `OneVmIsLetInTurn` (`RentalTurnProofs`): what the runs of several handlers refute, proved
  for handlers that take turns. The hypothesis `TakeTurns` is of the constants: one handler
  in flight, no lingering socket, no restart, and no PATCH but to BUILDING or RUNNING, which
  is more than the run `one_at_a_time` allows. Sockets still fail at any time, and the
  connectors go on between the calls of a handler.
  - The first four also take `[]NullReportsFindOne`, and the attempt to do without it found
    why. A failure reported after a destroy names no VM; with two VMs its handler may fail
    a VM that is let and close the rental of the other. TLC shows in an instance of its own
    that `RentedVmIsBusy` then fails, and that `AtMostOneActiveRental` does, with no two
    handlers interleaved: the VM has the entry of a socket that failed while it registered,
    and its next registration, which takes FAILED for free, makes it AVAILABLE while it is let. With one
    VM the condition holds of itself, and `OneVmIsLetInTurn` has `TakeTurns` alone.
  - The invariant `TurnInv` has three parts. `LineInv`: a VM has one connection in use, an
    announcement comes first in its queue, and a destroy is pending once, in the order or
    in the answer. `HandlerInv`: which VM and socket the calls left to make are about, that
    what was loaded is as in the table (nobody else writes), and that a handler which takes
    the VM from its renter closes the rental too. `TableInv`: `AtMostOneActiveRental`; that
    a let VM is busy or a handler is about to make it so or to close its rental
    (`LetIsBusy`); that a VM being destroyed is not let (`PendingIsNotLet`), which is what
    makes it safe to have it AVAILABLE when it is gone; and that a connected computer has
    its entry or is about to get it (`ConnectedHasEntry`).
  - The refinement maps `InsertRental` to `Open` and `SaveRental` to `Close` or `Pay` of the
    same entry. Every other step leaves the table of rentals alone (`WhoWritesRentals`).
* `OneMakerEach`, `RefusalsHaveACause`, `PasswordsOpen`, `TypeCorrect` (`AccountProofs`) all follow from one invariant, `AccountInv`: what each request may
  rely on at the place it waits at (the account it found or created, and that a
  registration past its checks has made no account), and that every account
  has its one registration. Rows are only appended, so what was read stays true.
* `LetVmsAreKept`, `DeletionsAreFinal`, `EndsAfterPulling`, `TypeCorrect`
  (`CatalogueProofs`) follow from `CatalogueInv`: rows of rentals hold what was let; a
  handler about to save the status of a deleted VM was overtaken by the deletion; and an
  entry of the registry, or a handler of a registration, disconnect or heartbeat, that is
  about a VM which is not listed is of one that was pulled.

* `OffersMeet`, `EstimatesAreLeast`, `BundlesServe`, `MetricsAreLatest`,
  `DownloadsAreThere` (`EndpointProofs`): the properties of `endpoints`, from one
  invariant, `EndpointInv`.
  - An answer to a question is right when it is given, and the tables it is about do not
    change with it: `AnswersAreRight` is inductive with the types (a metric recorded
    answers another question). The work is in the operators. That an estimate is the
    ceiling of what is needed is arithmetic over each workload's and each intensity's
    constants (`ScaledCovers`). The settings of a connector are the first of up to five
    texts that is not empty (`FirstOfTwo` to `FirstOfFive`, `SettledKey`, `SettledUrl`).
  - A listing orders each entry against the next one only, as a database or a sort does.
    That the first is then no older than the last is an induction, done here by a least
    counterexample (`SortedThroughout`, with `LeastNatural` from the library's
    well-foundedness of the natural numbers). That a list of a finite set has every
    element, so that nothing newer is left out by the limit, is a count of an injection
    (`ListOfSet`).
  - A listing of the folder reads one entry after the other while the folder changes.
    `DownloadsInv` says what it may rely on between two reads: what was found bears a mark
    of its platform (`FoundIsMarked`), a file that stayed as it was and was read is among
    what was found, as it is (`FoundIsThere`), and one that stayed and is still to be read
    is there when its turn comes, as a file if it is sent (`TodoIsThere`).

Every invariant and every action property that a passing run checks is so a theorem, in
`RentalTurnProofs` under the hypotheses named there. Liveness under
fairness is out of reach of TLAPS and stays with TLC: `BuildingEnds`, `ShutdownEnds`,
`HeartbeatRecovers`, `SentOutcomeIsStored`, `SentOrderIsStarted`, `EveryOrderIsAnswered`.

## 5. Not modelled

* `stop_vm` is never sent by the gateway, so `vm_stopped` never arrives there; its handler
  has the code of `vm_destroyed`. `Host` has the connector's handler of it.
* `upload_file` and `download_file` of the connector are never ordered either. The hardware
  profile, the search for Vagrant and the log output of the connector are I/O.
* What is stored and never read by the backend: heartbeat times, SSH addresses and
  passwords, `vm_metrics`, `error_occurred`. Without a step that depends on them there is
  nothing to state.
* `UsersService.update` has no caller.
* How archives are packed and the texts in them; the template of the connector's README.
* The application shell: module wiring, Swagger, CORS, the connection to the database. The
  scripts of `src/scripts` are clients for trying the backend out.
* `RentalsService.findOne` also loads the jobs of a rental, so its save may touch the link
  of a job created meanwhile. Jobs that are polled over HTTP have no client in the
  repository.
* A save split into TypeORM's comparison and its update of the columns that differ: outside
  the repository, see section 2.

## 6. Plan

Done: the rental life cycle, jobs, the provider's machine, the catalogue, accounts, and
the endpoints beside renting, with the proofs of section 4. Left, in this order:

1. A theorem in place of the table of section 2. The direction it needs is that
   `ProviderAgent` allows whatever `ConnectorPromise` does, so a simulation and not a
   refinement: for each step of the promise there is one of the agent.
2. The jobs over `OverlapSpec` instead of `RentalLedger`, which would show what of the job
   pipeline holds for rentals that overlap.
