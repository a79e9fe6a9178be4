CONSTANTS
  None = None
  Vms = {v1}
  Users = {receiver}
  Tasks = {t1, t2}
  Reports = {"completed"}
  MaxRentals = 1
  MaxJobs = 2
  MaxLosses = 1
CHECK_DEADLOCK FALSE
SPECIFICATION FairSpec
INVARIANTS TypeOK JobsAreWhole RefusedIsNotRun
PROPERTIES ResultLostOnlyByStart SentOutcomeIsStored SentOrderIsStarted
