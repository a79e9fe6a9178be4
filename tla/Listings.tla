------------------------------ MODULE Listings ------------------------------
(***************************************************************************)
(* The queries over the tables of VMs and computers: the listing of VMs    *)
(* with its filters, the computers that are free, and the choice of one.   *)
(* A filter that is not given, or is 0 or no number, is Off.               *)
(***************************************************************************)
EXTENDS Naturals

Off == 0

\* The controllers' minCpu ? Number(minCpu) : undefined: a text that is absent, empty,
\* zero or no number switches the filter off.
Coerced(param) == CASE param = "2" -> 2 [] param = "4" -> 4 [] OTHER -> Off

\* One filter of a query: column >= value, or nothing.
AtLeast(column, min) == min = Off \/ column >= min

Meets(c, req) == AtLeast(c.cpuCores, req.minCpu) /\ AtLeast(c.ramGb, req.minRam)
                 /\ AtLeast(c.storageGb, req.minStorage)

\* findAll: hasGpu FALSE asks for nothing.  No query has an order: what it returns is a set.
FindAll(rows, f) == {vm \in rows : /\ Meets(vm, f)
                                   /\ f.hasGpu => vm.hasGpu
                                   /\ f.status \in {"any", vm.status}}

IsFree(c) == c.isConnected /\ c.isAvailable /\ c.status = "available"

FindAvailable(rows, req) == {c \in rows : IsFree(c) /\ Meets(c, req)}

Score(c) == c.cpuCores + c.ramGb + c.storageGb

\* Mutant: the comparator is the wrong way round.
WorseFirst(a, b) == Score(a) <= Score(b)
\* The order of the sort; rows of one score keep the order they were read in.
BetterFirst(a, b) == Score(a) >= Score(b)

\* selectBestComputer: the answers it may give.  The first of the sorted rows is one that
\* comes before every other, whichever was read first; refused when none is free.
SelectBestComputer(rows, req) ==
    LET available == FindAvailable(rows, req)
    IN  IF available = {} THEN {[refused |-> TRUE]}
        ELSE {[refused |-> FALSE, computer |-> c] :
              c \in {b \in available : \A d \in available : BetterFirst(b, d)}}
=============================================================================
