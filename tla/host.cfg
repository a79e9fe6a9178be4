SPECIFICATION Spec
CONSTANTS
    MaxOrders = 3
    Vm = vm
    NoVm = NoVm
INVARIANTS TypeOK LiveMeansItsOwn NothingOutlivesDestroy
PROPERTIES EveryOrderIsAnswered KeepsPromise
