----------------------------- MODULE Calculator -----------------------------
(***************************************************************************)
(* CalculatorService: what a workload needs and costs.  Multipliers and    *)
(* hours count in tenths, costs in cents; with one decimal place of hours  *)
(* nothing is rounded, and the code's floating point agrees.               *)
(***************************************************************************)
EXTENDS Integers

\* What arithmetic on undefined gives, null in the answer.
NaN == -1

Need(cpu, ram, storage, gpu) == [cpu |-> cpu, ram |-> ram, storage |-> storage, requiresGpu |-> gpu]
DefaultNeed == Need(4, 8, 100, FALSE)
Requirements == [video_editing    |-> Need(8, 16, 500, TRUE),
                 rendering_3d     |-> Need(12, 32, 1000, TRUE),
                 machine_learning |-> Need(16, 64, 500, TRUE),
                 web_development  |-> DefaultNeed,
                 data_processing  |-> Need(8, 32, 500, FALSE)]

\* Tables are looked up with []: a name that objects inherit ("constructor") is found,
\* and is no entry; a GPU is then not asked for (undefined).
Inherited == "inherited"
GetBaseRequirements(workload) ==
    IF workload = Inherited THEN Need(NaN, NaN, NaN, FALSE)
    ELSE IF workload \in DOMAIN Requirements THEN Requirements[workload]
    ELSE DefaultNeed

Multipliers == [low |-> 7, medium |-> 10, high |-> 15]
GetIntensityMultiplier(intensity) ==
    IF intensity = Inherited THEN NaN
    ELSE IF intensity \in DOMAIN Multipliers THEN Multipliers[intensity] ELSE 10

\* Mutant: the part of a core that is left over is dropped.
ScaledDown(amount, tenths) ==
    IF NaN \in {amount, tenths} THEN NaN ELSE (amount * tenths) \div 10
\* Math.ceil(base * multiplier)
Scaled(amount, tenths) ==
    IF NaN \in {amount, tenths} THEN NaN ELSE (amount * tenths + 9) \div 10

\* $0.50 per core and $0.20 per GB of memory in an hour.
EstimateCost(hours, cpu, ram) ==
    IF NaN \in {cpu, ram} THEN NaN ELSE (cpu * 5 + ram * 2) * hours

Calculate(dto) ==
    LET base == GetBaseRequirements(dto.workload)
        times == GetIntensityMultiplier(dto.intensity)
        cpu == Scaled(base.cpu, times)
        ram == Scaled(base.ram, times)
    IN  [minCpu |-> cpu, minRam |-> ram, minStorage |-> Scaled(base.storage, times),
         requiresGpu |-> dto.requiresGpu \/ base.requiresGpu,
         costPerDay |-> EstimateCost(dto.hours, cpu, ram)]
=============================================================================
