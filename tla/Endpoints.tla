------------------------------ MODULE Endpoints ------------------------------
(***************************************************************************)
(* The endpoints beside renting: the price calculator, the choice of a     *)
(* computer, the listing of VMs, the bundle a connector is started from,   *)
(* the usage metrics and the desktop installers.  They share no state, so  *)
(* a behaviour is about one of them.                                       *)
(***************************************************************************)
EXTENDS Downloads

CONSTANTS Rentals,      \* the rentals there are
          MaxMetrics,   \* bound: metrics recorded
          TakeLimit,    \* how many metrics are listed: 100 in the code
          Workloads, Intensities, Hours,   \* requests of an estimate
          Specs         \* sizes of machines, and of requirements

ASSUME EndpointsAssumption ==
    MaxMetrics \in Nat /\ TakeLimit \in Nat \ {0} /\ Specs \subseteq Nat

Listing == INSTANCE Listings
Calculator == INSTANCE Calculator
Settings == INSTANCE ConnectorSettings

VARIABLES service,  \* the endpoints this behaviour is about
          metrics,  \* the table of metrics, in the order of their insertion
          now,      \* the clock
          query     \* the last question and its answer
vars == <<downloadVars, service, metrics, now, query>>

Init == /\ DownloadsInit
        /\ \/ service = "downloads"
           \/ service \in {"metrics", "queries"} /\ site = [production |-> TRUE, has |-> {"dist"}]
        /\ metrics = <<>> /\ now = 1 /\ query = [kind |-> "none"]

-----------------------------------------------------------------------------
(* Usage metrics. *)

\* Time passes, or the listing of a rental is asked for.
Tick == now < MaxMetrics /\ now' = now + 1 /\ UNCHANGED <<metrics, query>>

\* The handler read the clock before it inserts the row; the row of a rental that is not
\* there is refused by the database.
CreateMetric(rental, time) ==
    /\ Len(metrics) < MaxMetrics
    /\ metrics' = IF rental \in Rentals THEN Append(metrics, [rental |-> rental, time |-> time])
                  ELSE metrics
    /\ query' = [kind |-> "created", refused |-> rental \notin Rentals]
    /\ UNCHANGED now

\* Mutant: order ASC.
OldestFirst(a, b) == metrics[a].time <= metrics[b].time
LatestFirst(a, b) == metrics[a].time >= metrics[b].time

\* Rows of one time come in any order.
FindByRental(rental) ==
    LET rows == {i \in DOMAIN metrics : metrics[i].rental = rental} IN
    /\ \E list \in SetToSeqs(rows) :
          /\ \A i \in 1..(Len(list) - 1) : LatestFirst(list[i], list[i + 1])
          /\ query' = [kind |-> "metrics", rental |-> rental,
                       list |-> SubSeq(list, 1, IF Len(list) < TakeLimit THEN Len(list) ELSE TakeLimit)]
    /\ UNCHANGED <<metrics, now>>

MetricsNext == \/ Tick
               \/ \E rental \in Rentals \cup {"unknown"} :
                     \/ \E time \in {now - 1, now} : CreateMetric(rental, time)
                     \/ FindByRental(rental)

-----------------------------------------------------------------------------
(* Questions whose answer depends on the request, and on tables that are read once. *)
Asked(question) == query' = question /\ UNCHANGED <<metrics, now>>

\* POST /calculator/estimate.
Estimate(dto) == Asked([kind |-> "estimate", dto |-> dto, answer |-> Calculator!Calculate(dto)])

\* How a computer stands: free, or not for one of the reasons.
Standings == {[isConnected |-> TRUE, isAvailable |-> TRUE, status |-> "available"],
              [isConnected |-> FALSE, isAvailable |-> TRUE, status |-> "available"],
              [isConnected |-> TRUE, isAvailable |-> FALSE, status |-> "active"],
              [isConnected |-> TRUE, isAvailable |-> TRUE, status |-> "offline"]}
Computer(cpu, ram, storage, standing) ==
    [cpuCores |-> cpu, ramGb |-> ram, storageGb |-> storage, isConnected |-> standing.isConnected,
     isAvailable |-> standing.isAvailable, status |-> standing.status]
Computers == {Computer(cpu, ram, storage, standing) :
              cpu \in Specs, ram \in Specs, storage \in Specs, standing \in Standings}
Requirement(cpu, ram, storage) == [minCpu |-> cpu, minRam |-> ram, minStorage |-> storage]

\* selectBestComputer over a table of up to two computers.
SelectBestComputer(rows, req) ==
    \E answer \in Listing!SelectBestComputer(rows, req) :
        Asked([kind |-> "best", rows |-> rows, req |-> req, answer |-> answer])

\* GET /vms, its filters as texts.
FindAll(vm, params, hasGpu, status) ==
    LET filters == [minCpu |-> Listing!Coerced(params[1]), minRam |-> Listing!Coerced(params[2]),
                    minStorage |-> Listing!Coerced(params[3]), hasGpu |-> hasGpu, status |-> status]
    IN  Asked([kind |-> "vms", vm |-> vm, params |-> params, hasGpu |-> hasGpu, status |-> status,
               answer |-> Listing!FindAll({vm}, filters)])

\* A bundle, of a VM or the template, is unpacked and its connector started, by the
\* launcher or without it, on a machine that may have settings and a file of its own.
OwnFile == [Settings!NoFile EXCEPT !.key = "own_key"]
StartConnector(token, configured, launched, args, env, own, typed) ==
    LET url == Settings!ResolveBackendUrl(configured, "host_url")
        files == [path \in {"bundle"} \cup (IF own THEN {"own"} ELSE {}) |->
                    IF path = "bundle" THEN Settings!BundleConfig(url, token) ELSE OwnFile]
        used == IF launched THEN Settings!Bootstrap(args, env, "bundle") ELSE args
    IN  Asked([kind |-> "start", token |-> token, url |-> url, launched |-> launched,
               args |-> args, env |-> env, own |-> own, typed |-> typed,
               answer |-> Settings!Start(used, env, files, typed, "production_url")])

AskEstimate ==
    \E w \in Workloads, i \in Intensities, h \in Hours, g \in BOOLEAN :
       Estimate([workload |-> w, intensity |-> i, hours |-> h, requiresGpu |-> g])
AskBestComputer ==
    \E rows \in {{}} \cup {{c, d} : c, d \in Computers},
       cpu, ram, storage \in {Listing!Off} \cup Specs :
       SelectBestComputer(rows, Requirement(cpu, ram, storage))
AskVms ==
    \E cpu, ram, storage \in Specs, gpu, hasGpu \in BOOLEAN,
       params \in [1..3 -> {"", "0", "2", "4", "many"}], status \in {"any", "available"},
       vmStatus \in {"available", "running"} :
       FindAll([cpuCores |-> cpu, ramGb |-> ram, storageGb |-> storage, hasGpu |-> gpu,
                status |-> vmStatus], params, hasGpu, status)
AskStart ==
    \E token \in {Settings!Absent, "token"}, configured \in {Settings!Absent, "public_url"},
       launched, own \in BOOLEAN, typed \in {"", "typed_key"},
       config \in {Settings!Absent, "own"}, key, url \in {Settings!Absent, "given"},
       envUrl, envConfig \in {Settings!Absent, "", "own"}, envKey \in {Settings!Absent, "env_key"},
       apiUrl \in {Settings!Absent, "api"} :
       StartConnector(token, configured, launched,
           [config |-> config, key |-> key, legacyKey |-> Settings!Absent, url |-> url, jsonLogs |-> FALSE],
           [config |-> envConfig, key |-> envKey, backendUrl |-> envUrl, apiUrl |-> apiUrl,
            jsonLogs |-> FALSE],
           own, typed)

QueriesNext == AskEstimate \/ AskBestComputer \/ AskVms \/ AskStart

-----------------------------------------------------------------------------
Next == \/ service = "downloads" /\ DownloadsNext /\ UNCHANGED <<service, metrics, now, query>>
        \/ service = "metrics" /\ MetricsNext /\ UNCHANGED <<downloadVars, service>>
        \/ service = "queries" /\ query.kind = "none" /\ QueriesNext /\ UNCHANGED <<downloadVars, service>>

Spec == Init /\ [][Next]_vars
=============================================================================
