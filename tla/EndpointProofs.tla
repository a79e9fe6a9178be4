--------------------------- MODULE EndpointProofs ---------------------------
(***************************************************************************)
(* Proofs about Endpoints: what is listed, estimated, chosen and started   *)
(* is right for every set of rentals, installers, sizes and workloads, and *)
(* every bound.  No answer is about more than what the tables and the      *)
(* folder held when they were read.                                        *)
(***************************************************************************)
EXTENDS EndpointProperties, FiniteSetTheorems, SequenceTheorems, TLAPS

-----------------------------------------------------------------------------
(* Lists that are sorted, and lists of a set.                              *)

LEMMA LeastNatural ==
  ASSUME NEW T, T \subseteq Nat, T # {}
  PROVE  \E x \in T : \A y \in T : x <= y
<1>1. PICK x \in T : \A y \in T : ~ (<<y, x>> \in OpToRel(<, Nat))
  BY NatLessThanWellFounded, WFMin
<1>2. ASSUME NEW y \in T, y < x PROVE FALSE
  <2>1. <<y, x>> \in OpToRel(<, Nat)
    BY <1>2 DEF OpToRel
  <2>2. QED
    BY <2>1, <1>1
<1>3. QED
  BY <1>2

\* Where each is no less than the next, each is no less than any later one: the first
\* that was greater would come right after one that is not.
LEMMA SortedThroughout ==
  ASSUME NEW n \in Nat, NEW f, \A i \in 1..n : f[i] \in Int,
         \A i \in 1..(n - 1) : f[i] >= f[i + 1],
         NEW i \in 1..n, NEW j \in 1..n, i < j
  PROVE  f[i] >= f[j]
<1> DEFINE greater == {k \in 1..n : i < k /\ ~ (f[i] >= f[k])}
<1>1. SUFFICES ASSUME greater # {} PROVE FALSE
  BY <1>1
<1>2. greater \subseteq Nat
  OBVIOUS
<1>3. PICK k \in greater : \A l \in greater : k <= l
  BY <1>1, <1>2, LeastNatural
<1> HIDE DEF greater
<1>4. k \in 1..n /\ i < k /\ ~ (f[i] >= f[k])
  BY <1>3 DEF greater
<1>5. k - 1 \in 1..(n - 1) /\ k - 1 \in 1..n /\ (k - 1) + 1 = k /\ k - 1 >= i
  BY <1>4
<1>6. f[k - 1] >= f[k]
  BY <1>5
<1>7. k - 1 # i
  BY <1>4, <1>6
<1>8. k - 1 \notin greater
  BY <1>3, <1>5
<1>9. f[i] >= f[k - 1]
  BY <1>5, <1>7, <1>8 DEF greater
<1>10. QED
  BY <1>4, <1>5, <1>6, <1>9

\* A list of a finite set names every element, each once.
LEMMA ListOfSet ==
  ASSUME NEW S, IsFiniteSet(S), NEW list \in SetToSeqs(S)
  PROVE  /\ list \in Seq(S)
         /\ Len(list) \in Nat /\ DOMAIN list = 1..Len(list)
         /\ \A x \in S : \E i \in 1..Len(list) : list[i] = x
<1> DEFINE n == Cardinality(S)
<1>1. n \in Nat
  BY FS_CardinalityType
<1>2. list \in [1..n -> S] /\ \A i, j \in 1..n : i # j => list[i] # list[j]
  BY DEF SetToSeqs
<1>3. list \in Seq(S) /\ Len(list) = n /\ DOMAIN list = 1..n
  BY <1>1, <1>2, SeqDef, LenProperties
<1>4. list \in Injection(1..n, S)
  BY <1>2 DEF Injection, IsInjective
<1>5. IsFiniteSet(1..n) /\ Cardinality(1..n) = n
  BY <1>1, FS_Interval
<1>6. list \in Surjection(1..n, S)
  BY <1>4, <1>5, FS_Injection
<1>7. \A x \in S : \E i \in 1..n : list[i] = x
  BY <1>6 DEF Surjection
<1>8. QED
  BY <1>1, <1>3, <1>7

-----------------------------------------------------------------------------
(* Estimates.                                                              *)

\* Rounding up gives the least amount that covers what is needed.
LEMMA ScaledCovers ==
  ASSUME NEW need \in Nat, NEW times \in Nat
  PROVE  LET amount == Calculator!Scaled(need, times)
         IN  amount \in Int /\ amount * 10 >= need * times /\ (amount - 1) * 10 < need * times
<1> DEFINE all == need * times
<1>1. all \in Nat
  OBVIOUS
<1>2. Calculator!Scaled(need, times) = (all + 9) \div 10
  BY DEF Calculator!Scaled, Calculator!NaN
<1> HIDE DEF all
<1>3. LET amount == (all + 9) \div 10
      IN  amount \in Int /\ amount * 10 >= all /\ (amount - 1) * 10 < all
  BY <1>1
<1>4. QED
  BY <1>2, <1>3 DEF all

LEMMA NeedsAreNumbers ==
  ASSUME NEW workload, workload # "inherited"
  PROVE  LET base == Calculator!GetBaseRequirements(workload)
         IN  base.cpu \in Nat /\ base.ram \in Nat /\ base.storage \in Nat
BY DEF Calculator!GetBaseRequirements, Calculator!Requirements, Calculator!DefaultNeed,
       Calculator!Need, Calculator!Inherited

LEMMA MultipliersAreNumbers ==
  ASSUME NEW intensity, intensity # "inherited"
  PROVE  Calculator!GetIntensityMultiplier(intensity) \in Nat
BY DEF Calculator!GetIntensityMultiplier, Calculator!Multipliers, Calculator!Inherited

LEMMA EstimateStep ==
  ASSUME NEW w, NEW i, NEW h, NEW g \in BOOLEAN,
         Estimate([workload |-> w, intensity |-> i, hours |-> h, requiresGpu |-> g])
  PROVE  EstimateIsLeastEnough' /\ query'.kind = "estimate" /\ UNCHANGED <<metrics, now>>
<1> DEFINE dto == [workload |-> w, intensity |-> i, hours |-> h, requiresGpu |-> g]
           base == Calculator!GetBaseRequirements(w)
           times == Calculator!GetIntensityMultiplier(i)
           answer == Calculator!Calculate(dto)
<1>1. query' = [kind |-> "estimate", dto |-> dto, answer |-> answer] /\ UNCHANGED <<metrics, now>>
  BY DEF Estimate, Asked
<1>2. /\ query'.kind = "estimate" /\ query'.dto.workload = w /\ query'.dto.intensity = i
      /\ query'.dto.requiresGpu = g /\ query'.answer = answer
  BY <1>1
<1>3. /\ answer.minCpu = Calculator!Scaled(base.cpu, times)
      /\ answer.minRam = Calculator!Scaled(base.ram, times)
      /\ answer.minStorage = Calculator!Scaled(base.storage, times)
      /\ answer.requiresGpu = (g \/ base.requiresGpu)
      /\ answer.costPerDay = Calculator!EstimateCost(h, answer.minCpu, answer.minRam)
  BY DEF Calculator!Calculate
<1> HIDE DEF answer
<1>4. CASE "inherited" \in {w, i}
  <2>1. base.cpu = Calculator!NaN \/ times = Calculator!NaN
    BY <1>4 DEF Calculator!GetBaseRequirements, Calculator!GetIntensityMultiplier,
                Calculator!Need, Calculator!Inherited
  <2>2. answer.minCpu = Calculator!NaN
    BY <1>3, <2>1 DEF Calculator!Scaled
  <2>3. answer.costPerDay = Calculator!NaN
    BY <1>3, <2>2 DEF Calculator!EstimateCost
  <2>4. QED
    BY <1>1, <1>2, <1>4, <2>3 DEF EstimateIsLeastEnough
<1>5. CASE "inherited" \notin {w, i}
  <2>1. base.cpu \in Nat /\ base.ram \in Nat /\ base.storage \in Nat /\ times \in Nat
    BY <1>5, NeedsAreNumbers, MultipliersAreNumbers
  <2> DEFINE covers(amount, need) == amount * 10 >= need * times /\ (amount - 1) * 10 < need * times
  <2>2. /\ covers(answer.minCpu, base.cpu) /\ covers(answer.minRam, base.ram)
        /\ covers(answer.minStorage, base.storage)
    BY <1>3, <2>1, ScaledCovers
  <2>3. g \/ base.requiresGpu => answer.requiresGpu
    BY <1>3
  <2> HIDE DEF base, times
  <2>4. QED
    BY <1>1, <1>2, <1>5, <2>2, <2>3 DEF EstimateIsLeastEnough, base, times
<1>6. QED
  BY <1>4, <1>5

-----------------------------------------------------------------------------
(* Offers.                                                                 *)

\* A filter that is off asks for nothing, sizes being natural numbers.
LEMMA OffAsksForNothing ==
  ASSUME NEW column \in Nat, NEW min \in Nat
  PROVE  Listing!AtLeast(column, min) <=> column >= min
BY DEF Listing!AtLeast, Listing!Off

\* A text is taken for the number it is, and for Off where it is none.
LEMMA CoercedIsAsked ==
  ASSUME NEW param
  PROVE  /\ Listing!Coerced(param) = (IF param = "2" THEN 2 ELSE IF param = "4" THEN 4 ELSE 0)
         /\ Listing!Coerced(param) \in Nat
<1>1. CASE param = "2"
  BY <1>1 DEF Listing!Coerced, Listing!Off
<1>2. CASE param = "4"
  BY <1>2 DEF Listing!Coerced, Listing!Off
<1>3. CASE param # "2" /\ param # "4"
  BY <1>3 DEF Listing!Coerced, Listing!Off
<1>4. QED
  BY <1>1, <1>2, <1>3

LEMMA ComputerSizes ==
  ASSUME NEW c \in Computers
  PROVE  c.cpuCores \in Nat /\ c.ramGb \in Nat /\ c.storageGb \in Nat
BY EndpointsAssumption DEF Computers, Computer

LEMMA BestStep ==
  ASSUME NEW rows \in SUBSET Computers,
         NEW cpu \in {Listing!Off} \cup Specs, NEW ram \in {Listing!Off} \cup Specs,
         NEW storage \in {Listing!Off} \cup Specs,
         SelectBestComputer(rows, Requirement(cpu, ram, storage))
  PROVE  OffersMeetTheRequest' /\ query'.kind = "best" /\ UNCHANGED <<metrics, now>>
<1> DEFINE req == Requirement(cpu, ram, storage)
           fit(c) == /\ c.isConnected /\ c.isAvailable /\ c.status = "available"
                     /\ c.cpuCores >= req.minCpu /\ c.ramGb >= req.minRam
                     /\ c.storageGb >= req.minStorage
           available == Listing!FindAvailable(rows, req)
<1>1. PICK answer \in Listing!SelectBestComputer(rows, req) :
         /\ query' = [kind |-> "best", rows |-> rows, req |-> req, answer |-> answer]
         /\ UNCHANGED <<metrics, now>>
  BY DEF SelectBestComputer, Asked
<1>2. /\ query'.kind = "best" /\ query'.rows = rows /\ query'.req = req
      /\ query'.answer = answer
  BY <1>1
<1>3. req.minCpu \in Nat /\ req.minRam \in Nat /\ req.minStorage \in Nat
  BY EndpointsAssumption DEF Requirement, Listing!Off
<1> HIDE DEF req
<1>4. ASSUME NEW c \in rows PROVE c \in available <=> fit(c)
  BY <1>3, ComputerSizes, OffAsksForNothing
     DEF Listing!FindAvailable, Listing!IsFree, Listing!Meets
<1>5. available = {c \in rows : fit(c)}
  BY <1>4 DEF Listing!FindAvailable
<1>6. CASE available = {}
  <2>1. answer.refused = TRUE
    BY <1>6 DEF Listing!SelectBestComputer
  <2>2. QED
    BY <1>1, <1>2, <1>5, <1>6, <2>1 DEF OffersMeetTheRequest
<1>7. CASE available # {}
  <2>1. PICK b \in available : /\ answer = [refused |-> FALSE, computer |-> b]
                               /\ \A d \in available : Listing!BetterFirst(b, d)
    BY <1>7 DEF Listing!SelectBestComputer
  <2>2. \A c \in available : Listing!Score(c) \in Nat
    BY ComputerSizes DEF Listing!Score, Listing!FindAvailable
  <2>3. \A d \in available : Listing!Score(d) <= Listing!Score(b)
    BY <2>1, <2>2 DEF Listing!BetterFirst
  <2>4. answer.refused = FALSE /\ answer.computer = b
    BY <2>1
  <2> HIDE DEF available
  <2>5. QED
    BY <1>1, <1>2, <1>5, <2>1, <2>3, <2>4 DEF OffersMeetTheRequest
<1>8. QED
  BY <1>6, <1>7

LEMMA ListStep ==
  ASSUME NEW vm, vm.cpuCores \in Specs, vm.ramGb \in Specs, vm.storageGb \in Specs,
         NEW params, NEW hasGpu, NEW status, FindAll(vm, params, hasGpu, status)
  PROVE  OffersMeetTheRequest' /\ query'.kind = "vms" /\ UNCHANGED <<metrics, now>>
<1> DEFINE filters == [minCpu |-> Listing!Coerced(params[1]),
                       minRam |-> Listing!Coerced(params[2]),
                       minStorage |-> Listing!Coerced(params[3]),
                       hasGpu |-> hasGpu, status |-> status]
           answer == Listing!FindAll({vm}, filters)
           asked(i) == IF params[i] = "2" THEN 2 ELSE IF params[i] = "4" THEN 4 ELSE 0
<1>1. /\ query' = [kind |-> "vms", vm |-> vm, params |-> params, hasGpu |-> hasGpu,
                   status |-> status, answer |-> answer]
      /\ UNCHANGED <<metrics, now>>
  BY DEF FindAll, Asked
<1>2. /\ query'.kind = "vms" /\ query'.vm = vm /\ query'.params = params
      /\ query'.hasGpu = hasGpu /\ query'.status = status /\ query'.answer = answer
  BY <1>1
<1>3. /\ Listing!Coerced(params[1]) = asked(1) /\ Listing!Coerced(params[2]) = asked(2)
      /\ Listing!Coerced(params[3]) = asked(3)
      /\ asked(1) \in Nat /\ asked(2) \in Nat /\ asked(3) \in Nat
  BY CoercedIsAsked
<1>4. vm.cpuCores \in Nat /\ vm.ramGb \in Nat /\ vm.storageGb \in Nat
  BY EndpointsAssumption
<1> HIDE DEF asked
<1>5. vm \in answer <=> /\ Listing!Meets(vm, filters)
                        /\ filters.hasGpu => vm.hasGpu
                        /\ filters.status \in {"any", vm.status}
  BY DEF Listing!FindAll
<1>6. Listing!Meets(vm, filters) <=>
        vm.cpuCores >= asked(1) /\ vm.ramGb >= asked(2) /\ vm.storageGb >= asked(3)
  BY <1>3, <1>4, OffAsksForNothing DEF Listing!Meets
<1>7. vm \in answer <=> /\ vm.cpuCores >= asked(1) /\ vm.ramGb >= asked(2)
                        /\ vm.storageGb >= asked(3)
                        /\ hasGpu => vm.hasGpu
                        /\ status \in {"any", vm.status}
  BY <1>5, <1>6
<1> HIDE DEF answer
<1>8. QED
  BY <1>1, <1>2, <1>7 DEF OffersMeetTheRequest, asked

-----------------------------------------------------------------------------
(* Metrics.                                                                *)

Metric == [rental : Rentals, time : Nat]
MetricsType == metrics \in Seq(Metric) /\ now \in Nat \ {0}

LEMMA TickStep ==
  ASSUME MetricsType, LatestMetrics, Tick
  PROVE  MetricsType' /\ LatestMetrics' /\ UNCHANGED query
BY DEF MetricsType, Tick, LatestMetrics

LEMMA CreateStep ==
  ASSUME MetricsType, NEW rental, NEW time \in {now - 1, now}, CreateMetric(rental, time)
  PROVE  MetricsType' /\ query'.kind = "created"
<1>1. query'.kind = "created" /\ now' = now
  BY DEF CreateMetric
<1>2. metrics' \in Seq(Metric)
  <2>1. CASE rental \in Rentals
    <3>1. [rental |-> rental, time |-> time] \in Metric
      BY <2>1 DEF Metric, MetricsType
    <3>2. metrics' = Append(metrics, [rental |-> rental, time |-> time])
      BY <2>1 DEF CreateMetric
    <3> HIDE DEF Metric
    <3>3. QED
      BY <3>1, <3>2, AppendProperties DEF MetricsType
  <2>2. CASE rental \notin Rentals
    BY <2>2 DEF CreateMetric, MetricsType
  <2>3. QED
    BY <2>1, <2>2
<1>3. QED
  BY <1>1, <1>2 DEF MetricsType

LEMMA FindStep ==
  ASSUME MetricsType, NEW rental, FindByRental(rental)
  PROVE  LatestMetrics' /\ query'.kind = "metrics" /\ UNCHANGED <<metrics, now>>
<1> DEFINE rows == {i \in DOMAIN metrics : metrics[i].rental = rental}
<1>1. PICK list \in SetToSeqs(rows) :
         /\ \A i \in 1..(Len(list) - 1) : LatestFirst(list[i], list[i + 1])
         /\ query' = [kind |-> "metrics", rental |-> rental,
                      list |-> SubSeq(list, 1, IF Len(list) < TakeLimit THEN Len(list) ELSE TakeLimit)]
         /\ UNCHANGED <<metrics, now>>
  BY DEF FindByRental
<1> DEFINE shown == IF Len(list) < TakeLimit THEN Len(list) ELSE TakeLimit
           answer == SubSeq(list, 1, shown)
           timeOf == [i \in 1..Len(list) |-> metrics[list[i]].time]
<1>2. Len(metrics) \in Nat /\ DOMAIN metrics = 1..Len(metrics)
      /\ \A i \in DOMAIN metrics : metrics[i].time \in Int
  <2>1. Len(metrics) \in Nat /\ DOMAIN metrics = 1..Len(metrics)
        /\ \A i \in 1..Len(metrics) : metrics[i] \in Metric
    BY LenProperties DEF MetricsType
  <2>2. \A m \in Metric : m.time \in Int
    BY DEF Metric
  <2>3. QED
    BY <2>1, <2>2
<1>3. IsFiniteSet(rows)
  <2>1. IsFiniteSet(1..Len(metrics))
    BY <1>2, FS_Interval
  <2>2. rows \subseteq 1..Len(metrics)
    BY <1>2
  <2> HIDE DEF rows
  <2>3. QED
    BY <2>1, <2>2, FS_Subset
<1>4. list \in Seq(rows) /\ Len(list) \in Nat /\ DOMAIN list = 1..Len(list)
      /\ \A x \in rows : \E i \in 1..Len(list) : list[i] = x
  BY <1>3, ListOfSet
<1>5. \A i \in 1..Len(list) : list[i] \in rows /\ list[i] \in DOMAIN metrics
  BY <1>4
<1>6. /\ shown \in Nat /\ (shown = Len(list) \/ shown = TakeLimit)
      /\ \A i \in 1..shown : i \in 1..Len(list)
  <2>1. Len(list) \in Nat /\ TakeLimit \in Nat
    BY <1>4, EndpointsAssumption
  <2>2. QED
    BY <2>1
<1>7. Len(answer) = shown /\ DOMAIN answer = 1..shown /\ \A i \in 1..shown : answer[i] = list[i]
  <2>1. Len(answer) = shown /\ answer \in Seq(rows)
    BY <1>4, <1>6
  <2>2. QED
    BY <1>4, <1>6, <2>1
<1>8. \A i \in 1..(Len(list) - 1) : timeOf[i] >= timeOf[i + 1]
  <2>1. ASSUME NEW i \in 1..(Len(list) - 1) PROVE timeOf[i] >= timeOf[i + 1]
    <3>1. i \in 1..Len(list) /\ i + 1 \in 1..Len(list)
      BY <1>4
    <3>2. metrics[list[i]].time >= metrics[list[i + 1]].time
      BY <1>1 DEF LatestFirst
    <3>3. QED
      BY <3>1, <3>2
  <2>2. QED
    BY <2>1
<1>9. ASSUME NEW i \in 1..Len(list), NEW j \in 1..Len(list), i < j
      PROVE  metrics[list[i]].time >= metrics[list[j]].time
  <2>1. \A k \in 1..Len(list) : timeOf[k] \in Int
    BY <1>2, <1>5
  <2> HIDE DEF timeOf
  <2>2. timeOf[i] >= timeOf[j]
    BY <1>4, <1>8, <1>9, <2>1, SortedThroughout
  <2>3. QED
    BY <2>2 DEF timeOf
<1> HIDE DEF shown, answer, rows
<1>10. Range(answer) \subseteq rows
  BY <1>5, <1>6, <1>7 DEF Range
<1>11. ASSUME NEW i \in rows \ Range(answer)
       PROVE  shown = TakeLimit /\ \A j \in Range(answer) : metrics[j].time >= metrics[i].time
  <2>1. PICK k \in 1..Len(list) : list[k] = i
    BY <1>4
  <2>2. k \notin 1..shown
    BY <1>7, <1>11, <2>1 DEF Range
  <2>3. shown = TakeLimit
    BY <1>6, <2>1, <2>2
  <2>4. ASSUME NEW j \in Range(answer) PROVE metrics[j].time >= metrics[i].time
    <3>1. PICK l \in 1..shown : j = list[l]
      BY <1>7 DEF Range
    <3>2. l \in 1..Len(list) /\ l < k
      BY <1>6, <2>2
    <3>3. QED
      BY <1>9, <2>1, <3>1, <3>2
  <2>5. QED
    BY <2>3, <2>4
<1>12. ASSUME NEW i \in DOMAIN answer, NEW j \in DOMAIN answer, i < j
       PROVE  metrics[answer[i]].time >= metrics[answer[j]].time
  <2>1. i \in 1..shown /\ j \in 1..shown /\ answer[i] = list[i] /\ answer[j] = list[j]
    BY <1>7
  <2>2. i \in 1..Len(list) /\ j \in 1..Len(list)
    BY <1>6, <2>1
  <2>3. QED
    BY <1>9, <1>12, <2>1, <2>2
<1>13. /\ query'.kind = "metrics" /\ query'.rental = rental /\ query'.list = answer
       /\ metrics' = metrics
  BY <1>1 DEF answer, shown
<1>14. rows = {i \in DOMAIN metrics : metrics[i].rental = rental}
  BY DEF rows
<1>15. LatestMetrics'
  BY <1>7, <1>10, <1>11, <1>12, <1>13, <1>14 DEF LatestMetrics
<1>16. QED
  BY <1>1, <1>13, <1>15

-----------------------------------------------------------------------------
(* Installers.                                                             *)

Artifact == [name : Names, platform : {"windows", "macos", "linux"}, updatedAt : Nat]
Call == [at : {"idle", "list", "stat", "stream"}, todo : SUBSET Names,
         found : SUBSET Artifact, steady : SUBSET Names]
Given == [status : {"none", "empty", "listed", "error", "not_found", "sent"},
          list : Seq(Artifact), steady : SUBSET Names]

DownloadsType == /\ folder \in [Names -> Entries] /\ versions \in 0..MaxVersion
                 /\ call \in Call /\ IsFiniteSet(call.found) /\ given \in Given

\* What a listing has found is rightly named, and of the names it has yet to look at
\* nothing is found yet.
FoundIsMarked == \A a \in call.found : a.platform \in Marks(a.name) /\ a.name \notin call.todo

\* Of an entry that has not changed, a listing has found what is there.
FoundIsThere ==
  call.at = "list" =>
    \A n \in call.steady \ call.todo :
       folder[n].kind = "file" /\ Marks(n) # {} <=>
       \E a \in call.found : a.name = n /\ a.updatedAt = folder[n].version

\* An entry that has not changed is there when it is looked at, and is a file when it
\* is sent.
TodoIsThere ==
  \A n \in call.steady \cap call.todo :
     folder[n] # Nothing /\ (call.at = "stream" => folder[n].kind = "file")

DownloadsInv == DownloadsType /\ FoundIsMarked /\ FoundIsThere /\ TodoIsThere

\* The platform a name is listed under is one it bears a mark of; none is found only where
\* there is no mark.
LEMMA InferredIsMarked ==
  ASSUME NEW n
  PROVE  LET platform == InferPlatformFromFilename(n)
         IN  /\ platform = "none" <=> Marks(n) = {}
             /\ platform # "none" => platform \in Marks(n)
<1>1. CASE n.ends \in WindowsEnds \/ "windows" \in n.says
  BY <1>1 DEF InferPlatformFromFilename, Marks, WindowsEnds
<1>2. CASE /\ ~ (n.ends \in WindowsEnds \/ "windows" \in n.says)
           /\ n.ends \in MacosEnds \/ n.says \cap {"macos", "darwin"} # {}
  BY <1>2 DEF InferPlatformFromFilename, Marks, MacosEnds
<1>3. CASE /\ ~ (n.ends \in WindowsEnds \/ "windows" \in n.says)
           /\ ~ (n.ends \in MacosEnds \/ n.says \cap {"macos", "darwin"} # {})
           /\ n.ends \in LinuxEnds \/ "linux" \in n.says
  BY <1>3 DEF InferPlatformFromFilename, Marks, LinuxEnds, MacosEnds
<1>4. CASE /\ ~ (n.ends \in WindowsEnds \/ "windows" \in n.says)
           /\ ~ (n.ends \in MacosEnds \/ n.says \cap {"macos", "darwin"} # {})
           /\ ~ (n.ends \in LinuxEnds \/ "linux" \in n.says)
  BY <1>4 DEF InferPlatformFromFilename, Marks, WindowsEnds, MacosEnds, LinuxEnds
<1>5. QED
  BY <1>1, <1>2, <1>3, <1>4

LEMMA EntryTypes ==
  /\ Nothing \in Entries /\ Directory \in Entries
  /\ \A version \in 1..MaxVersion : File(version) \in Entries
  /\ \A e \in Entries : e.version \in Nat /\ (e.kind = "file" <=> e # Nothing /\ e # Directory)
  /\ Nothing.kind # "file"
<1>1. Nothing.kind # "file" /\ Directory.kind # "file"
  BY DEF Nothing, Directory
<1>2. \A version \in 1..MaxVersion : File(version).kind = "file" /\ File(version).version \in Nat
  BY DownloadsAssumption DEF File
<1>3. Nothing.version \in Nat /\ Directory.version \in Nat
  BY DEF Nothing, Directory
<1>4. QED
  BY <1>1, <1>2, <1>3 DEF Entries

\* An answer that is no listing and no error says nothing.
LEMMA OtherAnswer ==
  ASSUME given'.status \notin {"listed", "error"}
  PROVE  DownloadsAreOfTheFolder'
BY DEF DownloadsAreOfTheFolder

LEMMA NoAnswerType ==
  NoAnswer \in Given /\ NoAnswer.status \notin {"listed", "error"}
BY EmptySeq DEF NoAnswer, Given

LEMMA IdleCallType == Idle \in Call /\ Idle.at = "idle" /\ Idle.todo = {} /\ Idle.found = {}
                      /\ Idle.steady = {}
BY DEF Idle, Call

\* Whoever changes an entry ends what is known of it.
LEMMA ChangeStep ==
  ASSUME DownloadsInv, NEW n \in Names, NEW entry \in Entries, Change(n, entry),
         versions' \in 0..MaxVersion
  PROVE  DownloadsInv' /\ DownloadsAreOfTheFolder'
<1>1. /\ folder' = [folder EXCEPT ![n] = entry]
      /\ call' = [call EXCEPT !.steady = @ \ {n}]
      /\ given' = NoAnswer
  BY DEF Change
<1>2. call \in Call /\ IsFiniteSet(call.found) /\ folder \in [Names -> Entries]
  BY DEF DownloadsInv, DownloadsType
<1>3. /\ call' \in Call /\ call'.at = call.at /\ call'.todo = call.todo
      /\ call'.found = call.found /\ call'.steady = call.steady \ {n}
  BY <1>1, <1>2 DEF Call
<1>4. folder' \in [Names -> Entries] /\ \A m \in Names \ {n} : folder'[m] = folder[m]
  BY <1>1, <1>2
<1>5. call.steady \subseteq Names
  BY <1>2 DEF Call
<1>6. DownloadsType'
  BY <1>1, <1>2, <1>3, <1>4, NoAnswerType DEF DownloadsType
<1>7. FoundIsMarked'
  BY <1>3 DEF DownloadsInv, FoundIsMarked
<1>8. FoundIsThere'
  BY <1>3, <1>4, <1>5 DEF DownloadsInv, FoundIsThere
<1>9. TodoIsThere'
  BY <1>3, <1>4, <1>5 DEF DownloadsInv, TodoIsThere
<1>10. DownloadsAreOfTheFolder'
  BY <1>1, NoAnswerType, OtherAnswer
<1>11. QED
  BY <1>6, <1>7, <1>8, <1>9, <1>10 DEF DownloadsInv

LEMMA ReleaseStep ==
  ASSUME DownloadsInv, NEW n \in Names, PutFile(n) \/ MakeDirectory(n) \/ RemoveEntry(n)
  PROVE  DownloadsInv' /\ DownloadsAreOfTheFolder'
<1>1. versions \in 0..MaxVersion /\ MaxVersion \in Nat
  BY DownloadsAssumption DEF DownloadsInv, DownloadsType
<1>2. CASE PutFile(n)
  <2>1. versions + 1 \in 1..MaxVersion /\ versions' \in 0..MaxVersion /\ Change(n, File(versions + 1))
    BY <1>1, <1>2 DEF PutFile
  <2>2. QED
    BY <2>1, EntryTypes, ChangeStep
<1>3. CASE MakeDirectory(n)
  BY <1>1, <1>3, EntryTypes, ChangeStep DEF MakeDirectory
<1>4. CASE RemoveEntry(n)
  BY <1>1, <1>4, EntryTypes, ChangeStep DEF RemoveEntry
<1>5. QED
  BY <1>2, <1>3, <1>4

\* An answer ends the call; what it says is of the folder as it is.
LEMMA RespondStep ==
  ASSUME DownloadsInv, NEW status \in {"empty", "listed", "error", "not_found", "sent"},
         NEW list \in Seq(Artifact), Respond(status, list)
  PROVE  /\ DownloadsInv' /\ folder' = folder
         /\ given'.status = status /\ given'.list = list /\ given'.steady = call.steady
<1>1. /\ given' = [status |-> status, list |-> list, steady |-> call.steady]
      /\ call' = Idle /\ UNCHANGED <<folder, versions>>
  BY DEF Respond, Answer
<1>2. call \in Call /\ folder \in [Names -> Entries] /\ versions \in 0..MaxVersion
  BY DEF DownloadsInv, DownloadsType
<1>3. call.steady \in SUBSET Names
  BY <1>2 DEF Call
<1>4. given' \in Given
  BY <1>1, <1>3 DEF Given
<1>5. call' \in Call /\ call'.at = "idle" /\ call'.todo = {} /\ call'.found = {} /\ call'.steady = {}
  BY <1>1, IdleCallType
<1>6. DownloadsType'
  BY <1>1, <1>2, <1>4, <1>5, FS_EmptySet DEF DownloadsType
<1>7. FoundIsMarked' /\ FoundIsThere' /\ TodoIsThere'
  BY <1>5 DEF FoundIsMarked, FoundIsThere, TodoIsThere
<1>8. QED
  BY <1>1, <1>6, <1>7 DEF DownloadsInv

\* A call that goes on leaves the folder alone.
LEMMA ProceedStep ==
  ASSUME DownloadsInv, NEW next \in Call, IsFiniteSet(next.found), Proceed(next)
  PROVE  /\ DownloadsType' /\ DownloadsAreOfTheFolder' /\ call' = next /\ folder' = folder
<1>1. call' = next /\ given' = NoAnswer /\ UNCHANGED <<folder, versions>>
  BY DEF Proceed
<1>2. DownloadsType'
  BY <1>1, NoAnswerType DEF DownloadsInv, DownloadsType
<1>3. DownloadsAreOfTheFolder'
  BY <1>1, NoAnswerType, OtherAnswer
<1>4. QED
  BY <1>1, <1>2, <1>3

\* Answers that list nothing.
LEMMA BareAnswerStep ==
  ASSUME DownloadsInv, NEW status \in {"empty", "not_found", "sent"}, Respond(status, <<>>)
  PROVE  DownloadsInv' /\ DownloadsAreOfTheFolder'
<1>1. <<>> \in Seq(Artifact)
  BY EmptySeq
<1>2. DownloadsInv' /\ given'.status = status
  BY <1>1, RespondStep
<1>3. QED
  BY <1>2, OtherAnswer

\* A request that fails has met an entry that changed.
LEMMA ErrorStep ==
  ASSUME DownloadsInv, NEW n \in Names, n \notin call.steady, Respond("error", <<>>)
  PROVE  DownloadsInv' /\ DownloadsAreOfTheFolder'
<1>1. <<>> \in Seq(Artifact)
  BY EmptySeq
<1>2. DownloadsInv' /\ given'.status = "error" /\ given'.steady = call.steady
  BY <1>1, RespondStep
<1>3. QED
  BY <1>2 DEF DownloadsAreOfTheFolder

LEMMA ListStarts ==
  ASSUME DownloadsInv, ListDesktopAppArtifacts
  PROVE  DownloadsInv' /\ DownloadsAreOfTheFolder'
<1>1. CASE NoFolder
  BY <1>1, BareAnswerStep DEF ListDesktopAppArtifacts
<1>2. CASE ~NoFolder
  <2> DEFINE next == [at |-> "list", found |-> {}, steady |-> Names,
                      todo |-> {n \in Names : folder[n] # Nothing}]
  <2>1. Proceed(next)
    BY <1>2 DEF ListDesktopAppArtifacts
  <2>2. /\ next \in Call /\ next.at = "list" /\ next.found = {} /\ next.steady = Names
        /\ next.todo = {n \in Names : folder[n] # Nothing}
    BY DEF Call
  <2> HIDE DEF next
  <2>3. DownloadsType' /\ DownloadsAreOfTheFolder' /\ call' = next /\ folder' = folder
    BY <2>1, <2>2, FS_EmptySet, ProceedStep
  <2>4. FoundIsMarked' /\ TodoIsThere'
    BY <2>2, <2>3 DEF FoundIsMarked, TodoIsThere
  <2>5. FoundIsThere'
    BY <2>2, <2>3, EntryTypes DEF FoundIsThere
  <2>6. QED
    BY <2>3, <2>4, <2>5 DEF DownloadsInv
<1>3. QED
  BY <1>1, <1>2

LEMMA LookAtEntry ==
  ASSUME DownloadsInv, NEW n \in Names, StatEntry(n)
  PROVE  DownloadsInv' /\ DownloadsAreOfTheFolder'
<1> DEFINE platform == InferPlatformFromFilename(n)
           artifact == [name |-> n, platform |-> platform, updatedAt |-> folder[n].version]
           shown == IF folder[n].kind = "file" /\ platform # "none" THEN {artifact} ELSE {}
           next == [call EXCEPT !.todo = @ \ {n}, !.found = @ \cup shown]
<1>1. call \in Call /\ call.at = "list" /\ n \in call.todo /\ IsFiniteSet(call.found)
      /\ folder \in [Names -> Entries]
  BY DEF StatEntry, DownloadsInv, DownloadsType
<1>2. CASE folder[n] = Nothing
  <2>1. n \notin call.steady
    BY <1>1, <1>2 DEF DownloadsInv, TodoIsThere
  <2>2. Respond("error", <<>>)
    BY <1>2 DEF StatEntry
  <2>3. QED
    BY <2>1, <2>2, ErrorStep
<1>3. CASE folder[n] # Nothing
  <2>1. Proceed(next)
    BY <1>3 DEF StatEntry
  <2>2. /\ platform # "none" => platform \in Marks(n)
        /\ platform = "none" <=> Marks(n) = {}
    BY InferredIsMarked
  <2>3. folder[n].version \in Nat
    BY <1>1, EntryTypes
  <2>4. platform # "none" => artifact \in Artifact
    BY <2>2, <2>3 DEF Artifact, Marks
  <2>5. artifact.name = n /\ artifact.platform = platform /\ artifact.updatedAt = folder[n].version
    OBVIOUS
  <2> HIDE DEF platform, artifact
  <2>6. shown \subseteq Artifact /\ IsFiniteSet(call.found \cup shown)
    <3>1. CASE shown = {}
      <4>1. call.found \cup shown = call.found
        BY <3>1
      <4>2. QED
        BY <1>1, <3>1, <4>1
    <3>2. CASE shown = {artifact} /\ platform # "none"
      BY <1>1, <2>4, <3>2, FS_AddElement
    <3>3. QED
      BY <3>1, <3>2
  <2>7. /\ \A a \in shown : a.name = n /\ a.platform \in Marks(n) /\ a.updatedAt = folder[n].version
        /\ shown # {} <=> folder[n].kind = "file" /\ Marks(n) # {}
    BY <2>2, <2>5
  <2> HIDE DEF shown
  <2>8. /\ next \in Call /\ next.at = "list" /\ next.todo = call.todo \ {n}
        /\ next.found = call.found \cup shown /\ next.steady = call.steady
    BY <1>1, <2>6 DEF Call
  <2> HIDE DEF next
  <2>9. DownloadsType' /\ DownloadsAreOfTheFolder' /\ call' = next /\ folder' = folder
    BY <2>1, <2>6, <2>8, ProceedStep
  <2>10. FoundIsMarked'
    BY <2>7, <2>8, <2>9 DEF DownloadsInv, FoundIsMarked
  <2>11. TodoIsThere'
    BY <2>8, <2>9, <1>1 DEF DownloadsInv, TodoIsThere
  <2>12. FoundIsThere'
    <3>1. ASSUME NEW m \in call.steady \ next.todo
          PROVE  folder[m].kind = "file" /\ Marks(m) # {} <=>
                 \E a \in next.found : a.name = m /\ a.updatedAt = folder[m].version
      <4>1. CASE m = n
        BY <1>1, <2>7, <2>8, <4>1 DEF DownloadsInv, FoundIsMarked
      <4>2. CASE m # n
        <5>1. m \in call.steady \ call.todo
          BY <2>8, <3>1, <4>2
        <5>2. folder[m].kind = "file" /\ Marks(m) # {} <=>
              \E a \in call.found : a.name = m /\ a.updatedAt = folder[m].version
          BY <1>1, <5>1 DEF DownloadsInv, FoundIsThere
        <5>3. QED
          BY <2>7, <2>8, <4>2, <5>2
      <4>3. QED
        BY <4>1, <4>2
    <3>2. QED
      BY <2>8, <2>9, <3>1 DEF FoundIsThere
  <2>13. QED
    BY <2>9, <2>10, <2>11, <2>12 DEF DownloadsInv
<1>4. QED
  BY <1>2, <1>3

LEMMA ListEnds ==
  ASSUME DownloadsInv, EndListing
  PROVE  DownloadsInv' /\ DownloadsAreOfTheFolder'
<1>1. PICK list \in SetToSeqs(call.found) :
         /\ \A i \in 1..(Len(list) - 1) : NewestFirst(list[i], list[i + 1])
         /\ Respond("listed", list)
  BY DEF EndListing
<1>2. /\ call.at = "list" /\ call.todo = {} /\ IsFiniteSet(call.found)
      /\ call.found \subseteq Artifact
  BY DEF EndListing, DownloadsInv, DownloadsType, Call
<1>3. /\ list \in Seq(call.found) /\ Len(list) \in Nat /\ DOMAIN list = 1..Len(list)
      /\ \A a \in call.found : \E i \in 1..Len(list) : list[i] = a
  BY <1>2, ListOfSet
<1>4. list \in Seq(Artifact) /\ \A i \in 1..Len(list) : list[i] \in call.found
  BY <1>2, <1>3
<1>5. /\ DownloadsInv' /\ folder' = folder /\ given'.status = "listed"
      /\ given'.list = list /\ given'.steady = call.steady
  BY <1>1, <1>4, RespondStep
<1>6. ASSUME NEW n \in call.steady
      PROVE  folder[n].kind = "file" /\ Marks(n) # {} <=>
             \E i \in DOMAIN list : list[i].name = n /\ list[i].updatedAt = folder[n].version
  BY <1>2, <1>3, <1>4 DEF DownloadsInv, FoundIsThere
<1>7. \A i \in DOMAIN list : list[i].platform \in Marks(list[i].name)
  BY <1>3, <1>4 DEF DownloadsInv, FoundIsMarked
<1>8. ASSUME NEW i \in DOMAIN list, NEW j \in DOMAIN list, i < j
      PROVE  list[i].updatedAt >= list[j].updatedAt
  <2> DEFINE timeOf == [k \in 1..Len(list) |-> list[k].updatedAt]
  <2>1. \A k \in 1..Len(list) : timeOf[k] \in Int
    BY <1>2, <1>4 DEF Artifact
  <2>2. \A k \in 1..(Len(list) - 1) : k \in 1..Len(list) /\ k + 1 \in 1..Len(list)
    BY <1>3
  <2>3. \A k \in 1..(Len(list) - 1) : timeOf[k] >= timeOf[k + 1]
    BY <1>1, <2>2 DEF NewestFirst
  <2> HIDE DEF timeOf
  <2>4. timeOf[i] >= timeOf[j]
    BY <1>3, <1>8, <2>1, <2>3, SortedThroughout
  <2>5. QED
    BY <1>3, <2>4 DEF timeOf
<1>9. QED
  BY <1>5, <1>6, <1>7, <1>8 DEF DownloadsAreOfTheFolder

LEMMA OpenStep ==
  ASSUME DownloadsInv, NEW n \in Names, OpenDesktopAppArtifact(n)
  PROVE  DownloadsInv' /\ DownloadsAreOfTheFolder'
<1>1. CASE NoFolder \/ folder[n] = Nothing
  BY <1>1, BareAnswerStep DEF OpenDesktopAppArtifact
<1>2. CASE ~ (NoFolder \/ folder[n] = Nothing)
  <2> DEFINE next == [at |-> "stat", todo |-> {n}, found |-> {}, steady |-> Names]
  <2>1. Proceed(next) /\ folder[n] # Nothing
    BY <1>2 DEF OpenDesktopAppArtifact
  <2>2. /\ next \in Call /\ next.at = "stat" /\ next.todo = {n} /\ next.found = {}
        /\ next.steady = Names
    BY DEF Call
  <2> HIDE DEF next
  <2>3. DownloadsType' /\ DownloadsAreOfTheFolder' /\ call' = next /\ folder' = folder
    BY <2>1, <2>2, FS_EmptySet, ProceedStep
  <2>4. FoundIsMarked' /\ FoundIsThere' /\ TodoIsThere'
    BY <2>1, <2>2, <2>3 DEF FoundIsMarked, FoundIsThere, TodoIsThere
  <2>5. QED
    BY <2>3, <2>4 DEF DownloadsInv
<1>3. QED
  BY <1>1, <1>2

LEMMA StatStep ==
  ASSUME DownloadsInv, NEW n \in Names, StatFile(n)
  PROVE  DownloadsInv' /\ DownloadsAreOfTheFolder'
<1>1. /\ call \in Call /\ call.at = "stat" /\ call.todo = {n} /\ IsFiniteSet(call.found)
      /\ folder[n] \in Entries
  BY DEF StatFile, DownloadsInv, DownloadsType
<1>2. CASE folder[n] = Nothing
  <2>1. n \notin call.steady
    BY <1>1, <1>2 DEF DownloadsInv, TodoIsThere
  <2>2. Respond("error", <<>>)
    BY <1>2 DEF StatFile
  <2>3. QED
    BY <2>1, <2>2, ErrorStep
<1>3. CASE folder[n] = Directory /\ folder[n] # Nothing
  BY <1>3, BareAnswerStep DEF StatFile
<1>4. CASE folder[n] # Nothing /\ folder[n] # Directory
  <2> DEFINE next == [call EXCEPT !.at = "stream"]
  <2>1. Proceed(next)
    BY <1>4 DEF StatFile
  <2>2. /\ next \in Call /\ next.at = "stream" /\ next.todo = {n} /\ next.found = call.found
        /\ next.steady = call.steady
    BY <1>1 DEF Call
  <2> HIDE DEF next
  <2>3. DownloadsType' /\ DownloadsAreOfTheFolder' /\ call' = next /\ folder' = folder
    BY <1>1, <2>1, <2>2, ProceedStep
  <2>4. folder[n].kind = "file"
    BY <1>1, <1>4, EntryTypes
  <2>5. FoundIsMarked'
    BY <1>1, <2>2, <2>3 DEF DownloadsInv, FoundIsMarked
  <2>6. FoundIsThere' /\ TodoIsThere'
    BY <1>4, <2>2, <2>3, <2>4 DEF FoundIsThere, TodoIsThere
  <2>7. QED
    BY <2>3, <2>5, <2>6 DEF DownloadsInv
<1>5. QED
  BY <1>2, <1>3, <1>4

LEMMA StreamStep ==
  ASSUME DownloadsInv, NEW n \in Names, StreamFile(n)
  PROVE  DownloadsInv' /\ DownloadsAreOfTheFolder'
<1>1. CASE folder[n].kind = "file"
  BY <1>1, BareAnswerStep DEF StreamFile
<1>2. CASE folder[n].kind # "file"
  <2>1. n \notin call.steady
    BY <1>2 DEF StreamFile, DownloadsInv, TodoIsThere
  <2>2. Respond("error", <<>>)
    BY <1>2 DEF StreamFile
  <2>3. QED
    BY <2>1, <2>2, ErrorStep
<1>3. QED
  BY <1>1, <1>2

LEMMA DownloadsStep ==
  ASSUME DownloadsInv, DownloadsNext
  PROVE  DownloadsInv' /\ DownloadsAreOfTheFolder'
<1>1. CASE ListDesktopAppArtifacts
  BY <1>1, ListStarts
<1>2. CASE EndListing
  BY <1>2, ListEnds
<1>3. CASE RefuseFilename
  BY <1>3, BareAnswerStep DEF RefuseFilename
<1>4. ASSUME NEW n \in Names, PutFile(n) \/ MakeDirectory(n) \/ RemoveEntry(n)
      PROVE  DownloadsInv' /\ DownloadsAreOfTheFolder'
  BY <1>4, ReleaseStep
<1>5. ASSUME NEW n \in Names, StatEntry(n) PROVE DownloadsInv' /\ DownloadsAreOfTheFolder'
  BY <1>5, LookAtEntry
<1>6. ASSUME NEW n \in Names, OpenDesktopAppArtifact(n)
      PROVE  DownloadsInv' /\ DownloadsAreOfTheFolder'
  BY <1>6, OpenStep
<1>7. ASSUME NEW n \in Names, StatFile(n) PROVE DownloadsInv' /\ DownloadsAreOfTheFolder'
  BY <1>7, StatStep
<1>8. ASSUME NEW n \in Names, StreamFile(n) PROVE DownloadsInv' /\ DownloadsAreOfTheFolder'
  BY <1>8, StreamStep
<1>9. QED
  BY <1>1, <1>2, <1>3, <1>4, <1>5, <1>6, <1>7, <1>8 DEF DownloadsNext

-----------------------------------------------------------------------------
(* Settings of a connector.                                                *)

\* The first text that is not empty, or the empty text.
LEMMA FirstIs ==
  ASSUME NEW n \in Nat, NEW texts, DOMAIN texts = 1..n
  PROVE  \/ /\ \A i \in 1..n : texts[i] = Settings!Empty
            /\ Settings!FirstOf(texts) = Settings!Empty
         \/ \E k \in 1..n : /\ texts[k] # Settings!Empty /\ Settings!FirstOf(texts) = texts[k]
                            /\ \A j \in 1..n : j < k => texts[j] = Settings!Empty
<1>1. CASE \A i \in 1..n : texts[i] = Settings!Empty
  BY <1>1 DEF Settings!FirstOf
<1>2. CASE \E i \in 1..n : texts[i] # Settings!Empty
  <2> DEFINE some == {i \in 1..n : texts[i] # Settings!Empty}
             isFirst(i) == texts[i] # Settings!Empty /\ \A j \in 1..(i - 1) : texts[j] = Settings!Empty
             first == CHOOSE i \in 1..n : isFirst(i)
  <2>1. some # {} /\ some \subseteq Nat
    BY <1>2
  <2>2. PICK k \in some : \A j \in some : k <= j
    BY <2>1, LeastNatural
  <2>3. k \in 1..n /\ isFirst(k)
    BY <2>2
  <2>4. first \in 1..n /\ isFirst(first)
    BY <2>3
  <2>5. Settings!FirstOf(texts) = texts[first]
    BY <1>2 DEF Settings!FirstOf
  <2> HIDE DEF first
  <2>6. \A j \in 1..n : j < first => texts[j] = Settings!Empty
    <3>1. ASSUME NEW j \in 1..n, j < first PROVE j \in 1..(first - 1)
      BY <2>4, <3>1
    <3>2. QED
      BY <2>4, <3>1
  <2>7. QED
    BY <2>4, <2>5, <2>6
<1>3. QED
  BY <1>1, <1>2

LEMMA FirstOfTwo ==
  ASSUME NEW a, NEW b
  PROVE  Settings!FirstOf(<<a, b>>) =
           IF a # Settings!Empty THEN a ELSE b
<1> DEFINE texts == <<a, b>>
<1>1. /\ DOMAIN texts = 1..2
      /\ texts[1] = a /\ texts[2] = b
  OBVIOUS
<1> HIDE DEF texts
<1>2. \/ /\ \A i \in 1..2 : texts[i] = Settings!Empty
         /\ Settings!FirstOf(texts) = Settings!Empty
      \/ \E k \in 1..2 : /\ texts[k] # Settings!Empty /\ Settings!FirstOf(texts) = texts[k]
                         /\ \A j \in 1..2 : j < k => texts[j] = Settings!Empty
  BY <1>1, FirstIs
<1>3. Settings!FirstOf(texts) =
        IF a # Settings!Empty THEN a ELSE b
  BY <1>1, <1>2
<1>4. QED
  BY <1>3 DEF texts

LEMMA FirstOfFour ==
  ASSUME NEW a, NEW b, NEW c, NEW d
  PROVE  Settings!FirstOf(<<a, b, c, d>>) =
           IF a # Settings!Empty THEN a ELSE IF b # Settings!Empty THEN b
           ELSE IF c # Settings!Empty THEN c ELSE d
<1> DEFINE texts == <<a, b, c, d>>
<1>1. /\ DOMAIN texts = 1..4
      /\ texts[1] = a /\ texts[2] = b /\ texts[3] = c /\ texts[4] = d
  OBVIOUS
<1> HIDE DEF texts
<1>2. \/ /\ \A i \in 1..4 : texts[i] = Settings!Empty
         /\ Settings!FirstOf(texts) = Settings!Empty
      \/ \E k \in 1..4 : /\ texts[k] # Settings!Empty /\ Settings!FirstOf(texts) = texts[k]
                         /\ \A j \in 1..4 : j < k => texts[j] = Settings!Empty
  BY <1>1, FirstIs
<1>3. Settings!FirstOf(texts) =
        IF a # Settings!Empty THEN a ELSE IF b # Settings!Empty THEN b
        ELSE IF c # Settings!Empty THEN c ELSE d
  BY <1>1, <1>2
<1>4. QED
  BY <1>3 DEF texts

LEMMA FirstOfFive ==
  ASSUME NEW a, NEW b, NEW c, NEW d, NEW e
  PROVE  Settings!FirstOf(<<a, b, c, d, e>>) =
           IF a # Settings!Empty THEN a ELSE IF b # Settings!Empty THEN b
           ELSE IF c # Settings!Empty THEN c ELSE IF d # Settings!Empty THEN d ELSE e
<1> DEFINE texts == <<a, b, c, d, e>>
<1>1. /\ DOMAIN texts = 1..5
      /\ texts[1] = a /\ texts[2] = b /\ texts[3] = c /\ texts[4] = d /\ texts[5] = e
  OBVIOUS
<1> HIDE DEF texts
<1>2. \/ /\ \A i \in 1..5 : texts[i] = Settings!Empty
         /\ Settings!FirstOf(texts) = Settings!Empty
      \/ \E k \in 1..5 : /\ texts[k] # Settings!Empty /\ Settings!FirstOf(texts) = texts[k]
                         /\ \A j \in 1..5 : j < k => texts[j] = Settings!Empty
  BY <1>1, FirstIs
<1>3. Settings!FirstOf(texts) =
        IF a # Settings!Empty THEN a ELSE IF b # Settings!Empty THEN b
        ELSE IF c # Settings!Empty THEN c ELSE IF d # Settings!Empty THEN d ELSE e
  BY <1>1, <1>2
<1>4. QED
  BY <1>3 DEF texts

\* A text that is there and not empty.
Supplied(text) == text \notin {Settings!Absent, Settings!Empty}

\* What the program settles on, of the texts it is given.
LEMMA SettledKey ==
  ASSUME NEW args, NEW env, NEW file, NEW typed, args.legacyKey = Settings!Absent
  PROVE  Settings!FirstOf(<<Settings!SetupKey(args, env, file), typed>>) =
           IF Supplied(args.key) THEN args.key ELSE IF Supplied(env.key) THEN env.key
           ELSE IF Supplied(file.key) THEN file.key ELSE typed
<1> DEFINE empty == Settings!Empty
           key == Settings!SetupKey(args, env, file)
<1>1. \A text : Settings!Text(text) = IF Supplied(text) THEN text ELSE empty
  BY DEF Settings!Text, Supplied
<1>2. \A text : Settings!Get(text, empty) = IF Supplied(text) THEN text ELSE empty
  BY DEF Settings!Get, Supplied
<1>3. \A text : Supplied(text) => text # empty
  BY DEF Supplied
<1>4. ~Supplied(Settings!Absent)
  BY DEF Supplied
<1>5. key = IF Supplied(args.key) THEN args.key ELSE IF Supplied(env.key) THEN env.key
            ELSE IF Supplied(file.key) THEN file.key ELSE empty
  BY <1>1, <1>2, <1>3, <1>4, FirstOfFour DEF Settings!SetupKey
<1> HIDE DEF key
<1>6. Settings!FirstOf(<<key, typed>>) = IF key # empty THEN key ELSE typed
  BY FirstOfTwo
<1>7. QED
  BY <1>3, <1>5, <1>6 DEF key

LEMMA SettledUrl ==
  ASSUME NEW args, NEW env, NEW file, NEW production
  PROVE  Settings!BackendUrl(args, env, file, production) =
           LET default == Settings!DefaultUrl(env, production)
           IN  IF Supplied(args.url) THEN args.url
               ELSE IF Supplied(env.backendUrl) THEN env.backendUrl
               ELSE IF Supplied(env.apiUrl) THEN env.apiUrl
               ELSE IF Supplied(file.url) THEN file.url ELSE default
<1> DEFINE empty == Settings!Empty
           default == Settings!DefaultUrl(env, production)
<1>1. \A text : Settings!Text(text) = IF Supplied(text) THEN text ELSE empty
  BY DEF Settings!Text, Supplied
<1>2. \A text : Supplied(text) => text # empty
  BY DEF Supplied
<1>3. \/ Settings!Get(file.url, default) = empty /\ ~Supplied(file.url)
      \/ Settings!Get(file.url, default) = default /\ ~Supplied(file.url)
      \/ Settings!Get(file.url, default) = file.url /\ Supplied(file.url)
  BY DEF Settings!Get, Supplied
<1> HIDE DEF default
<1>4. Settings!BackendUrl(args, env, file, production) =
        Settings!FirstOf(<<Settings!Text(args.url), Settings!Text(env.backendUrl),
          Settings!Text(env.apiUrl), Settings!Get(file.url, default), default>>)
  BY DEF Settings!BackendUrl, default
<1>5. QED
  BY <1>1, <1>2, <1>3, <1>4, FirstOfFive DEF default

LEMMA Texts ==
  /\ Settings!Empty = "" /\ Settings!Absent = "absent"
  /\ ~Supplied(Settings!Absent) /\ ~Supplied("")
  /\ Supplied("own") /\ Supplied("bundle") /\ Supplied("given") /\ Supplied("host_url")
  /\ Supplied("public_url") /\ Supplied("production_url") /\ Supplied("token")
  /\ Supplied("own_key") /\ Supplied("env_key") /\ Supplied("api") /\ Supplied("typed_key")
BY DEF Settings!Empty, Settings!Absent, Supplied

\* The texts a connector may be started with.
Offered(args, env, typed) ==
  /\ args.config \in {Settings!Absent, "own"} /\ args.key \in {Settings!Absent, "given"}
  /\ args.url \in {Settings!Absent, "given"} /\ args.legacyKey = Settings!Absent
  /\ env.config \in {Settings!Absent, "", "own"} /\ env.key \in {Settings!Absent, "env_key"}
  /\ env.backendUrl \in {Settings!Absent, "", "own"} /\ env.apiUrl \in {Settings!Absent, "api"}
  /\ typed \in {"", "typed_key"}
  /\ args.jsonLogs = FALSE /\ env.jsonLogs = FALSE

\* What the launcher makes of them, if there is one.
Passed(args, env, launched, used) ==
  /\ used.key = args.key /\ used.url = args.url /\ used.legacyKey = args.legacyKey
  /\ used.jsonLogs = args.jsonLogs
  /\ used.config = IF /\ launched /\ args.config = Settings!Absent
                      /\ Settings!Text(env.config) = Settings!Empty
                   THEN "bundle" ELSE args.config

\* The file that is read: the one that is named, else the launcher's own.
LEMMA FileThatIsRead ==
  ASSUME NEW args, NEW env, NEW typed, Offered(args, env, typed), NEW launched, NEW used,
         Passed(args, env, launched, used)
  PROVE  Settings!ConfigPath(used, env) =
           IF "own" \in {args.config, env.config} THEN "own"
           ELSE IF launched THEN "bundle" ELSE ""
<1>1. Settings!ConfigPath(used, env) =
        IF Settings!Text(used.config) # Settings!Empty THEN Settings!Text(used.config)
        ELSE Settings!Text(env.config)
  BY FirstOfTwo DEF Settings!ConfigPath
<1>2. \A text : Settings!Text(text) = IF text = "absent" THEN "" ELSE text
  BY Texts DEF Settings!Text
<1>3. Settings!Empty = "" /\ Settings!Absent = "absent"
  BY Texts
<1>4. QED
  BY <1>1, <1>2, <1>3 DEF Offered, Passed

\* The files there are.
Unpacked(files, public, token, own) ==
  /\ DOMAIN files = {"bundle"} \cup (IF own THEN {"own"} ELSE {})
  /\ files["bundle"] = Settings!BundleConfig(public, token)
  /\ own => files["own"] = OwnFile

\* What Start answers, told by the texts it is given.
Settles(answer, public, token, launched, own, args, env, typed) ==
  LET named == "own" \in {args.config, env.config}
      fromBundle == launched /\ ~named
  IN  /\ answer.key = IF Supplied(args.key) THEN args.key
                      ELSE IF Supplied(env.key) THEN env.key
                      ELSE IF named /\ own THEN "own_key"
                      ELSE IF fromBundle /\ token = "token" THEN "token" ELSE typed
      /\ answer.url = IF Supplied(args.url) THEN args.url
                      ELSE IF Supplied(env.backendUrl) THEN env.backendUrl
                      ELSE IF Supplied(env.apiUrl) THEN env.apiUrl
                      ELSE IF fromBundle THEN public
                      ELSE IF env.backendUrl = "" THEN "" ELSE "production_url"
      /\ answer.started <=> (named => own) /\ answer.key # "" /\ answer.url # ""
      /\ fromBundle => answer.jsonLogs = TRUE

LEMMA StartAnswers ==
  ASSUME NEW token \in {Settings!Absent, "token"}, NEW public, Supplied(public),
         NEW launched \in BOOLEAN, NEW own \in BOOLEAN,
         NEW args, NEW env, NEW typed, Offered(args, env, typed),
         NEW used, Passed(args, env, launched, used),
         NEW files, Unpacked(files, public, token, own)
  PROVE  Settles(Settings!Start(used, env, files, typed, "production_url"),
                 public, token, launched, own, args, env, typed)
<1> DEFINE answer == Settings!Start(used, env, files, typed, "production_url")
           named == "own" \in {args.config, env.config}
           fromBundle == launched /\ ~named
           path == Settings!ConfigPath(used, env)
           file == IF path \in DOMAIN files THEN files[path] ELSE Settings!NoFile
           key == Settings!FirstOf(<<Settings!SetupKey(used, env, file), typed>>)
           url == Settings!BackendUrl(used, env, file, "production_url")
<1>1. path = IF named THEN "own" ELSE IF launched THEN "bundle" ELSE ""
  BY FileThatIsRead
<1>2. /\ answer.key = key /\ answer.url = url
      /\ answer.started = ((path = Settings!Empty \/ path \in DOMAIN files)
                           /\ key # Settings!Empty /\ url # Settings!Empty)
      /\ answer.jsonLogs = (used.jsonLogs \/ env.jsonLogs \/ file.jsonLogs)
  BY DEF Settings!Start
<1> HIDE DEF answer, path, key, url
<1>3. /\ file.key = IF named /\ own THEN "own_key"
                    ELSE IF fromBundle THEN Settings!Get(token, Settings!Empty)
                    ELSE Settings!Absent
      /\ file.url = IF fromBundle THEN public ELSE Settings!Absent
      /\ fromBundle => file.jsonLogs = TRUE
      /\ path = "" \/ path \in DOMAIN files <=> (named => own)
  <2>1. CASE named /\ own
    BY <1>1, <2>1 DEF OwnFile, Settings!NoFile, Unpacked
  <2>2. CASE named /\ ~own
    BY <1>1, <2>2 DEF Settings!NoFile, Unpacked
  <2>3. CASE fromBundle
    <3>1. path = "bundle" /\ path \in DOMAIN files
      BY <1>1, <2>3 DEF Unpacked
    <3>2. file = Settings!BundleConfig(public, token)
      BY <3>1 DEF Unpacked
    <3>3. /\ file.key = Settings!Get(token, Settings!Empty) /\ file.url = public
          /\ file.jsonLogs = TRUE
      <4> HIDE DEF file
      <4>1. QED
        BY <3>2 DEF Settings!BundleConfig
    <3>4. QED
      BY <2>3, <3>1, <3>3
  <2>4. CASE ~named /\ ~launched
    BY <1>1, <2>4 DEF Settings!NoFile, Unpacked
  <2>5. QED
    BY <2>1, <2>2, <2>3, <2>4
<1> HIDE DEF file
<1>4. key = IF Supplied(args.key) THEN args.key ELSE IF Supplied(env.key) THEN env.key
            ELSE IF Supplied(file.key) THEN file.key ELSE typed
  <2>1. used.legacyKey = Settings!Absent
    BY DEF Offered, Passed
  <2>2. key = IF Supplied(used.key) THEN used.key ELSE IF Supplied(env.key) THEN env.key
              ELSE IF Supplied(file.key) THEN file.key ELSE typed
    BY <2>1, SettledKey DEF key
  <2>3. QED
    BY <2>2 DEF Passed
<1>5. url = IF Supplied(args.url) THEN args.url
            ELSE IF Supplied(env.backendUrl) THEN env.backendUrl
            ELSE IF Supplied(env.apiUrl) THEN env.apiUrl
            ELSE IF Supplied(file.url) THEN file.url
            ELSE Settings!DefaultUrl(env, "production_url")
  BY SettledUrl DEF url, Passed
<1>6. Supplied(file.key) <=> (named /\ own) \/ (fromBundle /\ token = "token")
  BY <1>3, Texts DEF Settings!Get
<1>7. fromBundle /\ token = "token" => file.key = "token"
  BY <1>3, Texts DEF Settings!Get
<1>8. Supplied(file.url) <=> fromBundle
  BY <1>3, Texts
<1>9. ~Supplied(env.backendUrl) /\ ~Supplied(env.apiUrl) =>
        Settings!DefaultUrl(env, "production_url") =
          IF env.backendUrl = "" THEN "" ELSE "production_url"
  BY Texts DEF Settings!DefaultUrl, Offered, Supplied
<1>10. answer.key = IF Supplied(args.key) THEN args.key
                    ELSE IF Supplied(env.key) THEN env.key
                    ELSE IF named /\ own THEN "own_key"
                    ELSE IF fromBundle /\ token = "token" THEN "token" ELSE typed
  BY <1>2, <1>3, <1>4, <1>6, <1>7
<1>11. answer.url = IF Supplied(args.url) THEN args.url
                    ELSE IF Supplied(env.backendUrl) THEN env.backendUrl
                    ELSE IF Supplied(env.apiUrl) THEN env.apiUrl
                    ELSE IF fromBundle THEN public
                    ELSE IF env.backendUrl = "" THEN "" ELSE "production_url"
  <2>1. fromBundle => file.url = public
    BY <1>3
  <2> HIDE DEF fromBundle
  <2>2. QED
    BY <1>2, <1>5, <1>8, <1>9, <2>1
<1>12. answer.started <=> (named => own) /\ answer.key # "" /\ answer.url # ""
  BY <1>2, <1>3, Texts
<1>13. fromBundle => answer.jsonLogs = TRUE
  BY <1>2, <1>3
<1>14. QED
  BY <1>10, <1>11, <1>12, <1>13 DEF answer, Settles

\* A list of texts is unset where each of them is.
Unset(texts) == \A i \in DOMAIN texts : texts[i] \in {Settings!Absent, ""}

LEMMA UnsetEach ==
  ASSUME NEW texts, NEW n \in Nat, DOMAIN texts = 1..n
  PROVE  Unset(texts) <=> \A i \in 1..n : ~Supplied(texts[i])
BY Texts DEF Unset, Supplied

LEMMA UnsetOne ==
  ASSUME NEW a
  PROVE  Unset(<<a>>) <=> ~Supplied(a)
<1> DEFINE texts == <<a>>
<1>1. /\ DOMAIN texts = 1..1
      /\ texts[1] = a
  OBVIOUS
<1> HIDE DEF texts
<1>2. Unset(texts) <=> \A i \in 1..1 : ~Supplied(texts[i])
  BY <1>1, UnsetEach
<1>3. QED
  BY <1>1, <1>2 DEF texts

LEMMA UnsetTwo ==
  ASSUME NEW a, NEW b
  PROVE  Unset(<<a, b>>) <=> ~Supplied(a) /\ ~Supplied(b)
<1> DEFINE texts == <<a, b>>
<1>1. /\ DOMAIN texts = 1..2
      /\ texts[1] = a /\ texts[2] = b
  OBVIOUS
<1> HIDE DEF texts
<1>2. Unset(texts) <=> \A i \in 1..2 : ~Supplied(texts[i])
  BY <1>1, UnsetEach
<1>3. QED
  BY <1>1, <1>2 DEF texts

LEMMA UnsetThree ==
  ASSUME NEW a, NEW b, NEW c
  PROVE  Unset(<<a, b, c>>) <=> ~Supplied(a) /\ ~Supplied(b) /\ ~Supplied(c)
<1> DEFINE texts == <<a, b, c>>
<1>1. /\ DOMAIN texts = 1..3
      /\ texts[1] = a /\ texts[2] = b /\ texts[3] = c
  OBVIOUS
<1> HIDE DEF texts
<1>2. Unset(texts) <=> \A i \in 1..3 : ~Supplied(texts[i])
  BY <1>1, UnsetEach
<1>3. QED
  BY <1>1, <1>2 DEF texts

LEMMA UnsetSeven ==
  ASSUME NEW a, NEW b, NEW c, NEW d, NEW e, NEW f, NEW g
  PROVE  Unset(<<a, b, c, d, e, f, g>>) <=>
           /\ ~Supplied(a) /\ ~Supplied(b) /\ ~Supplied(c) /\ ~Supplied(d)
           /\ ~Supplied(e) /\ ~Supplied(f) /\ ~Supplied(g)
<1> DEFINE texts == <<a, b, c, d, e, f, g>>
<1>1. /\ DOMAIN texts = 1..7
      /\ texts[1] = a /\ texts[2] = b /\ texts[3] = c /\ texts[4] = d
      /\ texts[5] = e /\ texts[6] = f /\ texts[7] = g
  OBVIOUS
<1> HIDE DEF texts
<1>2. Unset(texts) <=> \A i \in 1..7 : ~Supplied(texts[i])
  BY <1>1, UnsetEach
<1>3. QED
  BY <1>1, <1>2 DEF texts

LEMMA StartStep ==
  ASSUME NEW token \in {Settings!Absent, "token"}, NEW configured \in {Settings!Absent, "public_url"},
         NEW launched \in BOOLEAN, NEW own \in BOOLEAN, NEW args, NEW env, NEW typed,
         Offered(args, env, typed), StartConnector(token, configured, launched, args, env, own, typed),
         \E c, k, l, u, j : args = [config |-> c, key |-> k, legacyKey |-> l, url |-> u, jsonLogs |-> j]
  PROVE  BundleServesItsVm' /\ query'.kind = "start" /\ UNCHANGED <<metrics, now>>
<1> DEFINE public == Settings!ResolveBackendUrl(configured, "host_url")
           files == [path \in {"bundle"} \cup (IF own THEN {"own"} ELSE {}) |->
                       IF path = "bundle" THEN Settings!BundleConfig(public, token) ELSE OwnFile]
           used == IF launched THEN Settings!Bootstrap(args, env, "bundle") ELSE args
           answer == Settings!Start(used, env, files, typed, "production_url")
           named == "own" \in {args.config, env.config}
           fromBundle == launched /\ ~named
<1>1. /\ query' = [kind |-> "start", token |-> token, url |-> public, launched |-> launched,
                   args |-> args, env |-> env, own |-> own, typed |-> typed, answer |-> answer]
      /\ UNCHANGED <<metrics, now>>
  BY DEF StartConnector, Asked
<1>2. /\ query'.kind = "start" /\ query'.token = token /\ query'.url = public
      /\ query'.launched = launched /\ query'.args = args /\ query'.env = env
      /\ query'.own = own /\ query'.typed = typed /\ query'.answer = answer
  BY <1>1
<1>3. Supplied(public)
  <2>1. public = IF Settings!Text(configured) # Settings!Empty THEN Settings!Text(configured)
                 ELSE "host_url"
    BY FirstOfTwo DEF Settings!ResolveBackendUrl
  <2> HIDE DEF public
  <2>2. QED
    BY <2>1, Texts DEF Settings!Text
<1>4. Passed(args, env, launched, used)
  <2>1. PICK c, k, l, u, j :
           args = [config |-> c, key |-> k, legacyKey |-> l, url |-> u, jsonLogs |-> j]
    OBVIOUS
  <2>2. CASE /\ launched /\ args.config = Settings!Absent
             /\ Settings!Text(env.config) = Settings!Empty
    <3>1. used = [args EXCEPT !.config = "bundle"]
      BY <2>2, Texts DEF Settings!Bootstrap
    <3>2. QED
      BY <2>1, <2>2, <3>1 DEF Passed
  <2>3. CASE ~ (/\ launched /\ args.config = Settings!Absent
                /\ Settings!Text(env.config) = Settings!Empty)
    <3>1. used = args
      BY <2>3 DEF Settings!Bootstrap
    <3>2. QED
      BY <2>3, <3>1 DEF Passed
  <2>4. QED
    BY <2>2, <2>3
<1>5. Unpacked(files, public, token, own)
  BY DEF Unpacked
<1> HIDE DEF public, files, used
<1>6. Settles(answer, public, token, launched, own, args, env, typed)
  BY <1>3, <1>4, <1>5, StartAnswers
<1> HIDE DEF answer
<1>7. \A text : Supplied(text) <=> ~ (text \in {Settings!Absent, ""})
  BY Texts DEF Supplied
<1> DEFINE keyed == \/ Supplied(args.key) \/ Supplied(env.key) \/ Supplied(typed)
                    \/ fromBundle /\ token = "token"
                    \/ named /\ own
           reachable == env.backendUrl # "" \/ fromBundle \/ Supplied(args.url) \/ Supplied(env.apiUrl)
<1>8. answer.key # "" <=> keyed
  BY <1>6, Texts DEF Offered, Settles
<1>9. answer.url # "" <=> reachable
  BY <1>3, <1>6, <1>7, Texts DEF Offered, Settles
<1>10. Supplied(env.key) /\ ~Supplied(args.key) => answer.key = env.key
  BY <1>6 DEF Settles
<1>11. /\ launched /\ token = "token"
       /\ ~Supplied(args.config) /\ ~Supplied(args.key) /\ ~Supplied(args.url)
       /\ ~Supplied(env.config) /\ ~Supplied(env.key) /\ ~Supplied(env.backendUrl)
       /\ ~Supplied(env.apiUrl)
       => /\ answer.started /\ answer.key = "token" /\ answer.url = public
          /\ answer.jsonLogs
  BY <1>6, <1>8, <1>9, Texts DEF Settles
<1>12. fromBundle <=> launched /\ ~Supplied(args.config) /\ ~Supplied(env.config)
  BY Texts DEF Offered
<1>13. /\ Unset(<<args.config, args.key, args.url, env.config, env.key, env.backendUrl, env.apiUrl>>) <=>
            /\ ~Supplied(args.config) /\ ~Supplied(args.key) /\ ~Supplied(args.url)
            /\ ~Supplied(env.config) /\ ~Supplied(env.key) /\ ~Supplied(env.backendUrl)
            /\ ~Supplied(env.apiUrl)
       /\ Unset(<<args.config, env.config>>) <=> ~Supplied(args.config) /\ ~Supplied(env.config)
       /\ Unset(<<args.key, env.key, typed>>) <=>
            ~Supplied(args.key) /\ ~Supplied(env.key) /\ ~Supplied(typed)
       /\ Unset(<<args.url, env.apiUrl>>) <=> ~Supplied(args.url) /\ ~Supplied(env.apiUrl)
       /\ Unset(<<env.key>>) <=> ~Supplied(env.key)
       /\ Unset(<<args.key>>) <=> ~Supplied(args.key)
  BY UnsetOne, UnsetTwo, UnsetThree, UnsetSeven
<1> HIDE DEF fromBundle, keyed, reachable
<1>14. /\ Unset(<<args.config, args.key, args.url, env.config, env.key, env.backendUrl, env.apiUrl>>)
          /\ launched /\ token = "token"
          => answer.started /\ answer.key = "token" /\ answer.url = public /\ answer.jsonLogs
       /\ ~Unset(<<env.key>>) /\ Unset(<<args.key>>) => answer.key = env.key
  BY <1>10, <1>11, <1>13
<1>15. answer.started <=> (named => own) /\ keyed /\ reachable
  BY <1>6, <1>8, <1>9 DEF Settles
<1>16. /\ keyed <=> \/ ~Unset(<<args.key, env.key, typed>>)
                    \/ (launched /\ Unset(<<args.config, env.config>>)) /\ token = "token"
                    \/ named /\ own
       /\ reachable <=> \/ env.backendUrl # "" \/ (launched /\ Unset(<<args.config, env.config>>))
                        \/ ~Unset(<<args.url, env.apiUrl>>)
  BY <1>12, <1>13 DEF keyed, reachable
<1> HIDE DEF named
<1>17. /\ Unset(<<query'.args.config, query'.args.key, query'.args.url, query'.env.config,
                  query'.env.key, query'.env.backendUrl, query'.env.apiUrl>>)
          /\ query'.launched /\ query'.token = "token" =>
            /\ query'.answer.started /\ query'.answer.key = "token"
            /\ query'.answer.url = query'.url /\ query'.answer.jsonLogs
       /\ ~Unset(<<query'.env.key>>) /\ Unset(<<query'.args.key>>) =>
            query'.answer.key = query'.env.key
  BY <1>2, <1>14
<1>18. LET bundled == query'.launched /\ Unset(<<query'.args.config, query'.env.config>>)
           isNamed == "own" \in {query'.args.config, query'.env.config}
           isKeyed == \/ ~Unset(<<query'.args.key, query'.env.key, query'.typed>>)
                      \/ bundled /\ query'.token = "token"
                      \/ isNamed /\ query'.own
           isReachable == \/ query'.env.backendUrl # "" \/ bundled
                          \/ ~Unset(<<query'.args.url, query'.env.apiUrl>>)
       IN  query'.answer.started <=> (isNamed => query'.own) /\ isKeyed /\ isReachable
  BY <1>2, <1>15, <1>16 DEF named
<1>19. QED
  BY <1>1, <1>17, <1>18 DEF BundleServesItsVm, StartsRightly, Unset

-----------------------------------------------------------------------------
(* The endpoints together.                                                 *)

AnswersAreRight ==
  /\ OffersMeetTheRequest /\ EstimateIsLeastEnough /\ BundleServesItsVm /\ LatestMetrics
  /\ DownloadsAreOfTheFolder

EndpointInv == DownloadsInv /\ MetricsType /\ AnswersAreRight

\* The question that was asked last is of one kind; of the others nothing is said.
LEMMA OneKindOfQuestion ==
  ASSUME \/ query'.kind \in {"none", "created"}
         \/ query'.kind \in {"best", "vms"} /\ OffersMeetTheRequest'
         \/ query'.kind = "estimate" /\ EstimateIsLeastEnough'
         \/ query'.kind = "start" /\ BundleServesItsVm'
         \/ query'.kind = "metrics" /\ LatestMetrics'
  PROVE  OffersMeetTheRequest' /\ EstimateIsLeastEnough' /\ BundleServesItsVm' /\ LatestMetrics'
BY DEF OffersMeetTheRequest, EstimateIsLeastEnough, BundleServesItsVm, LatestMetrics

\* What was asked and answered stays so.
LEMMA QuestionsStay ==
  ASSUME query' = query
  PROVE  /\ OffersMeetTheRequest => OffersMeetTheRequest'
         /\ EstimateIsLeastEnough => EstimateIsLeastEnough'
         /\ BundleServesItsVm => BundleServesItsVm'
         /\ metrics' = metrics /\ LatestMetrics => LatestMetrics'
<1>1. OffersMeetTheRequest => OffersMeetTheRequest'
  BY Zenon DEF OffersMeetTheRequest
<1>2. EstimateIsLeastEnough => EstimateIsLeastEnough'
  BY Zenon DEF EstimateIsLeastEnough
<1>3. BundleServesItsVm => BundleServesItsVm'
  BY DEF BundleServesItsVm
<1>4. metrics' = metrics /\ LatestMetrics => LatestMetrics'
  BY DEF LatestMetrics
<1>5. QED
  BY <1>1, <1>2, <1>3, <1>4

\* What is said of answers and of the folder holds on while they stay.
LEMMA AnswersStay ==
  ASSUME UNCHANGED <<folder, given, metrics, query>>, AnswersAreRight
  PROVE  AnswersAreRight'
<1>1. UNCHANGED folder /\ UNCHANGED given /\ UNCHANGED metrics /\ UNCHANGED query
  OBVIOUS
<1>2. OffersMeetTheRequest' /\ EstimateIsLeastEnough' /\ BundleServesItsVm'
  BY <1>1, QuestionsStay DEF AnswersAreRight
<1>3. LatestMetrics' /\ DownloadsAreOfTheFolder'
  BY <1>1 DEF AnswersAreRight, LatestMetrics, DownloadsAreOfTheFolder
<1>4. QED
  BY <1>2, <1>3 DEF AnswersAreRight

LEMMA DownloadsStay ==
  ASSUME UNCHANGED downloadVars
  PROVE  /\ DownloadsInv => DownloadsInv'
         /\ DownloadsAreOfTheFolder => DownloadsAreOfTheFolder'
<1>1. UNCHANGED folder /\ UNCHANGED versions /\ UNCHANGED call /\ UNCHANGED given
  BY DEF downloadVars
<1>2. DownloadsInv => DownloadsInv'
  BY <1>1 DEF DownloadsInv, DownloadsType, FoundIsMarked, FoundIsThere, TodoIsThere
<1>3. DownloadsAreOfTheFolder => DownloadsAreOfTheFolder'
  BY <1>1 DEF DownloadsAreOfTheFolder
<1>4. QED
  BY <1>2, <1>3

LEMMA QueriesStep ==
  ASSUME QueriesNext
  PROVE  /\ OffersMeetTheRequest' /\ EstimateIsLeastEnough' /\ BundleServesItsVm' /\ LatestMetrics'
         /\ UNCHANGED <<metrics, now>>
<1>1. CASE AskEstimate
  <2>1. EstimateIsLeastEnough' /\ query'.kind = "estimate" /\ UNCHANGED <<metrics, now>>
    BY <1>1, EstimateStep DEF AskEstimate
  <2>2. QED
    BY <2>1, OneKindOfQuestion
<1>2. CASE AskBestComputer
  <2>1. PICK rows \in {{}} \cup {{c, d} : c, d \in Computers},
             cpu \in {Listing!Off} \cup Specs, ram \in {Listing!Off} \cup Specs,
             storage \in {Listing!Off} \cup Specs :
          SelectBestComputer(rows, Requirement(cpu, ram, storage))
    BY <1>2 DEF AskBestComputer
  <2>2. rows \in SUBSET Computers
    OBVIOUS
  <2>3. OffersMeetTheRequest' /\ query'.kind = "best" /\ UNCHANGED <<metrics, now>>
    BY <2>1, <2>2, BestStep
  <2>4. QED
    BY <2>3, OneKindOfQuestion
<1>3. CASE AskVms
  <2>1. PICK vm, params, hasGpu, status :
          /\ vm.cpuCores \in Specs /\ vm.ramGb \in Specs /\ vm.storageGb \in Specs
          /\ FindAll(vm, params, hasGpu, status)
    <3>1. PICK cpu \in Specs, ram \in Specs, storage \in Specs, gpu \in BOOLEAN,
               hasGpu \in BOOLEAN, params \in [1..3 -> {"", "0", "2", "4", "many"}],
               status \in {"any", "available"}, vmStatus \in {"available", "running"} :
            FindAll([cpuCores |-> cpu, ramGb |-> ram, storageGb |-> storage, hasGpu |-> gpu,
                     status |-> vmStatus], params, hasGpu, status)
      BY <1>3 DEF AskVms
    <3> DEFINE vm == [cpuCores |-> cpu, ramGb |-> ram, storageGb |-> storage, hasGpu |-> gpu,
                      status |-> vmStatus]
    <3>2. vm.cpuCores \in Specs /\ vm.ramGb \in Specs /\ vm.storageGb \in Specs
      OBVIOUS
    <3>3. FindAll(vm, params, hasGpu, status)
      BY <3>1
    <3> HIDE DEF vm
    <3>4. QED
      BY <3>2, <3>3
  <2>2. OffersMeetTheRequest' /\ query'.kind = "vms" /\ UNCHANGED <<metrics, now>>
    BY <2>1, ListStep
  <2>3. QED
    BY <2>2, OneKindOfQuestion
<1>4. CASE AskStart
  <2>1. PICK token \in {Settings!Absent, "token"}, configured \in {Settings!Absent, "public_url"},
             launched \in BOOLEAN, own \in BOOLEAN, typed \in {"", "typed_key"},
             config \in {Settings!Absent, "own"}, key \in {Settings!Absent, "given"},
             url \in {Settings!Absent, "given"}, envUrl \in {Settings!Absent, "", "own"},
             envConfig \in {Settings!Absent, "", "own"}, envKey \in {Settings!Absent, "env_key"},
             apiUrl \in {Settings!Absent, "api"} :
          StartConnector(token, configured, launched,
            [config |-> config, key |-> key, legacyKey |-> Settings!Absent, url |-> url,
             jsonLogs |-> FALSE],
            [config |-> envConfig, key |-> envKey, backendUrl |-> envUrl, apiUrl |-> apiUrl,
             jsonLogs |-> FALSE],
            own, typed)
    BY <1>4 DEF AskStart
  <2> DEFINE args == [config |-> config, key |-> key, legacyKey |-> Settings!Absent, url |-> url,
                      jsonLogs |-> FALSE]
             env == [config |-> envConfig, key |-> envKey, backendUrl |-> envUrl,
                     apiUrl |-> apiUrl, jsonLogs |-> FALSE]
  <2>2. Offered(args, env, typed)
    BY DEF Offered
  <2>3. \E c, k, l, u, j :
          args = [config |-> c, key |-> k, legacyKey |-> l, url |-> u, jsonLogs |-> j]
    OBVIOUS
  <2>4. StartConnector(token, configured, launched, args, env, own, typed)
    BY <2>1
  <2> HIDE DEF args, env
  <2>5. BundleServesItsVm' /\ query'.kind = "start" /\ UNCHANGED <<metrics, now>>
    BY <2>2, <2>3, <2>4, StartStep
  <2>6. QED
    BY <2>5, OneKindOfQuestion
<1>5. QED
  BY <1>1, <1>2, <1>3, <1>4 DEF QueriesNext

LEMMA EndpointInit == Init => EndpointInv
<1> SUFFICES ASSUME Init PROVE EndpointInv
  OBVIOUS
<1>1. /\ folder = [n \in Names |-> Nothing] /\ versions = 0 /\ call = Idle /\ given = NoAnswer
      /\ metrics = <<>> /\ now = 1 /\ query = [kind |-> "none"]
  BY DEF Init, DownloadsInit
<1>2. query.kind = "none"
  BY <1>1
<1>3. OffersMeetTheRequest /\ EstimateIsLeastEnough /\ BundleServesItsVm /\ LatestMetrics
  BY <1>2 DEF OffersMeetTheRequest, EstimateIsLeastEnough, BundleServesItsVm, LatestMetrics
<1>4. DownloadsAreOfTheFolder
  BY <1>1, NoAnswerType DEF DownloadsAreOfTheFolder
<1>5. MetricsType
  BY <1>1, EmptySeq DEF MetricsType
<1>6. DownloadsType
  BY <1>1, EntryTypes, NoAnswerType, IdleCallType, FS_EmptySet, DownloadsAssumption DEF DownloadsType
<1>7. FoundIsMarked /\ FoundIsThere /\ TodoIsThere
  BY <1>1, IdleCallType DEF FoundIsMarked, FoundIsThere, TodoIsThere
<1>8. QED
  BY <1>3, <1>4, <1>5, <1>6, <1>7 DEF EndpointInv, DownloadsInv, AnswersAreRight

LEMMA EndpointStep == EndpointInv /\ [Next]_vars => EndpointInv'
<1> SUFFICES ASSUME EndpointInv, [Next]_vars PROVE EndpointInv'
  OBVIOUS
<1>1. DownloadsInv /\ MetricsType /\ AnswersAreRight
  BY DEF EndpointInv
<1>2. CASE DownloadsNext /\ UNCHANGED <<service, metrics, now, query>>
  <2>1. DownloadsInv' /\ DownloadsAreOfTheFolder'
    BY <1>1, <1>2, DownloadsStep
  <2>2. UNCHANGED metrics /\ UNCHANGED now /\ UNCHANGED query
    BY <1>2
  <2>3. MetricsType'
    BY <1>1, <2>2 DEF MetricsType
  <2>4. OffersMeetTheRequest' /\ EstimateIsLeastEnough' /\ BundleServesItsVm' /\ LatestMetrics'
    BY <1>1, <2>2, QuestionsStay DEF AnswersAreRight
  <2>5. QED
    BY <2>1, <2>3, <2>4 DEF EndpointInv, AnswersAreRight
<1>3. CASE MetricsNext /\ UNCHANGED <<downloadVars, service>>
  <2>1. DownloadsInv' /\ DownloadsAreOfTheFolder'
    BY <1>1, <1>3, DownloadsStay DEF AnswersAreRight
  <2>2. /\ MetricsType' /\ OffersMeetTheRequest' /\ EstimateIsLeastEnough' /\ BundleServesItsVm'
        /\ LatestMetrics'
    <3>1. CASE Tick
      <4>1. MetricsType' /\ LatestMetrics' /\ UNCHANGED query
        BY <1>1, <3>1, TickStep DEF AnswersAreRight
      <4>2. OffersMeetTheRequest' /\ EstimateIsLeastEnough' /\ BundleServesItsVm'
        BY <1>1, <4>1, QuestionsStay DEF AnswersAreRight
      <4>3. QED
        BY <4>1, <4>2
    <3>2. ASSUME NEW rental \in Rentals \cup {"unknown"}, NEW time \in {now - 1, now},
                 CreateMetric(rental, time)
          PROVE  /\ MetricsType' /\ OffersMeetTheRequest' /\ EstimateIsLeastEnough'
                 /\ BundleServesItsVm' /\ LatestMetrics'
      BY <1>1, <3>2, CreateStep, OneKindOfQuestion
    <3>3. ASSUME NEW rental \in Rentals \cup {"unknown"}, FindByRental(rental)
          PROVE  /\ MetricsType' /\ OffersMeetTheRequest' /\ EstimateIsLeastEnough'
                 /\ BundleServesItsVm' /\ LatestMetrics'
      <4>1. LatestMetrics' /\ query'.kind = "metrics" /\ UNCHANGED <<metrics, now>>
        BY <1>1, <3>3, FindStep
      <4>2. MetricsType'
        BY <1>1, <4>1 DEF MetricsType
      <4>3. QED
        BY <4>1, <4>2, OneKindOfQuestion
    <3>4. QED
      BY <1>3, <3>1, <3>2, <3>3 DEF MetricsNext
  <2>3. QED
    BY <2>1, <2>2 DEF EndpointInv, AnswersAreRight
<1>4. CASE QueriesNext /\ UNCHANGED <<downloadVars, service>>
  <2>1. DownloadsInv' /\ DownloadsAreOfTheFolder'
    BY <1>1, <1>4, DownloadsStay DEF AnswersAreRight
  <2>2. /\ OffersMeetTheRequest' /\ EstimateIsLeastEnough' /\ BundleServesItsVm' /\ LatestMetrics'
        /\ UNCHANGED <<metrics, now>>
    BY <1>4, QueriesStep
  <2>3. MetricsType'
    BY <1>1, <2>2 DEF MetricsType
  <2>4. QED
    BY <2>1, <2>2, <2>3 DEF EndpointInv, AnswersAreRight
<1>5. CASE UNCHANGED vars
  <2>1. UNCHANGED downloadVars /\ UNCHANGED metrics /\ UNCHANGED now /\ UNCHANGED query
    BY <1>5 DEF vars
  <2>2. UNCHANGED <<folder, given, metrics, query>>
    BY <2>1 DEF downloadVars
  <2>3. AnswersAreRight'
    BY <1>1, <2>2, AnswersStay
  <2>4. DownloadsInv' /\ MetricsType'
    BY <1>1, <2>1, DownloadsStay DEF MetricsType
  <2>5. QED
    BY <2>3, <2>4 DEF EndpointInv
<1>6. QED
  BY <1>2, <1>3, <1>4, <1>5 DEF Next

LEMMA EndpointsInvariant == Spec => []EndpointInv
BY EndpointInit, EndpointStep, PTL DEF Spec

\* A computer is chosen, and a VM listed, if and only if it has what is asked for; the
\* computer chosen is one that no other is before.  For every set of sizes.
THEOREM OffersMeet == Spec => []OffersMeetTheRequest
<1>1. EndpointInv => OffersMeetTheRequest
  BY DEF EndpointInv, AnswersAreRight
<1>2. QED
  BY <1>1, EndpointsInvariant, PTL

\* An estimate is the least whole amounts that cover what is needed, whatever the
\* workloads, intensities and hours that are asked for.
THEOREM EstimatesAreLeast == Spec => []EstimateIsLeastEnough
<1>1. EndpointInv => EstimateIsLeastEnough
  BY DEF EndpointInv, AnswersAreRight
<1>2. QED
  BY <1>1, EndpointsInvariant, PTL

\* A connector started from the bundle of a VM connects with that VM's key, and one
\* that does not start lacks a file, a key or a URL.
THEOREM BundlesServe == Spec => []BundleServesItsVm
<1>1. EndpointInv => BundleServesItsVm
  BY DEF EndpointInv, AnswersAreRight
<1>2. QED
  BY <1>1, EndpointsInvariant, PTL

\* The metrics listed are the latest of their rental, newest first, for every number of
\* rentals and metrics and every limit.
THEOREM MetricsAreLatest == Spec => []LatestMetrics
<1>1. EndpointInv => LatestMetrics
  BY DEF EndpointInv, AnswersAreRight
<1>2. QED
  BY <1>1, EndpointsInvariant, PTL

\* A listing of installers is of the folder where the folder stayed as it was, and only a
\* change of the folder makes a request fail; for every set of names, however often the
\* folder changes meanwhile.
THEOREM DownloadsAreThere == Spec => []DownloadsAreOfTheFolder
<1>1. EndpointInv => DownloadsAreOfTheFolder
  BY DEF EndpointInv, AnswersAreRight
<1>2. QED
  BY <1>1, EndpointsInvariant, PTL
=============================================================================
