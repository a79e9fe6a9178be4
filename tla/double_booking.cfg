CONSTANTS
  v1 = v1  v2 = v2  provider = provider  receiver = receiver  t1 = t1  t2 = t2
  None = None
  Vms = {v1}
  Users = {provider, receiver}
  ProviderOf <- OneVm
  MaxSessions = 1
  MaxRentals = 2
  MaxBuilds = 1
  Lingering = FALSE
  EarlyLoss = FALSE
  Tasks = {t1, t2}
  PatchTargets = {}
  Restarts = FALSE
CHECK_DEADLOCK FALSE
SPECIFICATION Spec
INVARIANT AtMostOneActiveRental
