SPECIFICATION Spec
CONSTANTS
    GpuCount = 2
    Nodes <- MCNodes
    Resources = {r1, r2, r3}
    MaxInits = 2
SYMMETRY ResourceSymmetry
CHECK_DEADLOCK FALSE
INVARIANTS
    RegistrationsAreExact
    RetainsAreBalanced
    TasksStayOnTheirNode
