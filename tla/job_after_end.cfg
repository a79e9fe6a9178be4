CONSTANTS
  None = None
  Vms = {v1}
  Users = {receiver, other}
  Tasks = {t1}
  Reports = {}
  MaxRentals = 2
  MaxJobs = 1
  MaxLosses = 0
CHECK_DEADLOCK FALSE
SPECIFICATION Spec
PROPERTY JobsAreOfTheTenant
