SPECIFICATION Spec
CONSTANTS
    Names <- MCNames
    MaxVersion = 3
    Rentals = {"r1", "r2"}
    MaxMetrics = 4
    TakeLimit = 2
    Workloads <- MCWorkloads
    Intensities <- MCIntensities
    Hours = {10, 75, 240}
    Specs = {2, 4}
INVARIANTS OffersMeetTheRequest EstimateIsLeastEnough BundleServesItsVm LatestMetrics DownloadsAreOfTheFolder
CHECK_DEADLOCK FALSE
