SPECIFICATION Spec
CONSTANTS
    c1 = c1
    c2 = c2
    c3 = c3
    p1 = p1
    p2 = p2
    j1 = j1
    m1 = m1
    m2 = m2
    Callers <- ThreeCallers
    Pages <- TwoPages
    Jobs <- OneJob
    Models <- TwoModels
    Stored <- OnePage
    FirstModel = m1
    NoCaller = NoCaller
    Worker = c1
    Workload <- EveryMethod
PROPERTIES
    ReturnedIsDurable
