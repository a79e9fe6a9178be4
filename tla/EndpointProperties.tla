------------------------- MODULE EndpointProperties -------------------------
(***************************************************************************)
(* What the endpoints beside renting answer.                               *)
(***************************************************************************)
EXTENDS Endpoints

\* A computer is chosen if and only if one is free and meets the requirements; the one
\* chosen is, and no other such computer is bigger by the sum that ranks them.  A VM is
\* listed if and only if it has what every filter asks for, where a text that is empty,
\* zero or no number asks for nothing.
OffersMeetTheRequest ==
    /\ query.kind = "best" =>
          LET fit(c) == /\ c.isConnected /\ c.isAvailable /\ c.status = "available"
                        /\ c.cpuCores >= query.req.minCpu /\ c.ramGb >= query.req.minRam
                        /\ c.storageGb >= query.req.minStorage
              fitting == {c \in query.rows : fit(c)}
          IN  IF query.answer.refused THEN fitting = {}
              ELSE /\ query.answer.computer \in fitting
                   /\ \A c \in fitting : Listing!Score(c) <= Listing!Score(query.answer.computer)
    /\ query.kind = "vms" =>
          LET asked(i) == IF query.params[i] = "2" THEN 2 ELSE IF query.params[i] = "4" THEN 4 ELSE 0
          IN  query.vm \in query.answer <=>
                /\ query.vm.cpuCores >= asked(1) /\ query.vm.ramGb >= asked(2)
                /\ query.vm.storageGb >= asked(3)
                /\ query.hasGpu => query.vm.hasGpu
                /\ query.status \in {"any", query.vm.status}

\* An estimate recommends the least whole amounts that cover what the workload needs at
\* its intensity, and a GPU whenever the workload or the request asks for one; only a
\* name that objects inherit is answered without numbers.
EstimateIsLeastEnough ==
    query.kind = "estimate" =>
        LET dto == query.dto
            base == Calculator!GetBaseRequirements(dto.workload)
            times == Calculator!GetIntensityMultiplier(dto.intensity)
            covers(amount, need) == amount * 10 >= need * times /\ (amount - 1) * 10 < need * times
        IN  IF "inherited" \in {dto.workload, dto.intensity}
            THEN query.answer.costPerDay = Calculator!NaN
            ELSE /\ covers(query.answer.minCpu, base.cpu) /\ covers(query.answer.minRam, base.ram)
                 /\ covers(query.answer.minStorage, base.storage)
                 /\ dto.requiresGpu \/ base.requiresGpu => query.answer.requiresGpu

\* How a connector is started rightly.
StartsRightly(q) ==
    LET unset(texts) == \A i \in DOMAIN texts : texts[i] \in {Settings!Absent, ""}
        plain == unset(<<q.args.config, q.args.key, q.args.url, q.env.config,
                         q.env.key, q.env.backendUrl, q.env.apiUrl>>)
        fromBundle == q.launched /\ unset(<<q.args.config, q.env.config>>)
        named == "own" \in {q.args.config, q.env.config}
        keyed == \/ ~unset(<<q.args.key, q.env.key, q.typed>>)
                 \/ fromBundle /\ q.token = "token"
                 \/ named /\ q.own
        reachable == \/ q.env.backendUrl # "" \/ fromBundle
                     \/ ~unset(<<q.args.url, q.env.apiUrl>>)
    IN  /\ plain /\ q.launched /\ q.token = "token" =>
              /\ q.answer.started /\ q.answer.key = "token"
              /\ q.answer.url = q.url /\ q.answer.jsonLogs
        /\ q.answer.started <=> (named => q.own) /\ keyed /\ reachable
        /\ ~unset(<<q.env.key>>) /\ unset(<<q.args.key>>) => q.answer.key = q.env.key

\* A connector that the launcher starts from the bundle of a VM, where nothing else is
\* configured, connects to the backend it came from with the key of that VM.  However it
\* is started, it fails only for a file that is named and not there, for want of a key,
\* or for want of a URL; a key in the environment goes before the file's.
BundleServesItsVm == query.kind = "start" => StartsRightly(query)

\* The metrics listed for a rental are its own and in order, and one that is left out is
\* no newer than any of the TakeLimit that are listed, in whatever order the inserts of
\* concurrent requests came.
LatestMetrics ==
    query.kind = "metrics" =>
        LET listed == Range(query.list)
            own == {i \in DOMAIN metrics : metrics[i].rental = query.rental}
        IN  /\ listed \subseteq own
            /\ \A i \in own \ listed :
                  /\ Len(query.list) = TakeLimit
                  /\ \A j \in listed : metrics[j].time >= metrics[i].time
            /\ \A i, j \in DOMAIN query.list :
                  i < j => metrics[query.list[i]].time >= metrics[query.list[j]].time

\* The marks of assets/desktop-apps/README.md; .app.tar.gz is one of macOS.
Marks(n) == {p \in {"windows", "macos", "linux"} :
    \/ p = "windows" /\ (n.ends \in {".exe", ".msi"} \/ "windows" \in n.says)
    \/ p = "macos" /\ (n.ends \in {".dmg", ".app.tar.gz"} \/ n.says \cap {"macos", "darwin"} # {})
    \/ p = "linux" /\ (n.ends \in {".appimage", ".deb", ".rpm", ".tar.gz"} \/ "linux" \in n.says)}

\* The installers listed are those of the folder, newest first and each under a platform
\* its name bears a mark of; an installer that was there all through the call is listed.
\* A request fails only when an entry changed while it was answered.
DownloadsAreOfTheFolder ==
    /\ given.status = "listed" =>
          /\ \A n \in given.steady :
                folder[n].kind = "file" /\ Marks(n) # {} <=>
                \E i \in DOMAIN given.list :
                    given.list[i].name = n /\ given.list[i].updatedAt = folder[n].version
          /\ \A i \in DOMAIN given.list : given.list[i].platform \in Marks(given.list[i].name)
          /\ \A i, j \in DOMAIN given.list :
                i < j => given.list[i].updatedAt >= given.list[j].updatedAt
    /\ given.status = "error" => given.steady # Names
=============================================================================
