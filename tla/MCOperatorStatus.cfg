\* A CRD without the CEL rules, and optional CRDs that come after the manager: nothing
\* watches their objects. One accepted spec and two rejected ones, over no Deployment or
\* one to be recreated.
SPECIFICATION EventSpec
CONSTANTS
    Models = {"m"}
    DeviceClasses = {"gpu"}
    NoDevice = ""
    UserSpecs <- StatusSpecs
    MaxReplicas = 2
    MaxDisruptions = 2
    StaleCRD = TRUE
    InitialDeployments = {"absent", "legacy"}
    ForeignClaims = {}
    InitialCRDs = {{}}
    Disruptors = {"crash", "failure", "update", "install", "report", "remove", "squat"}
\* after a rejection the operator waits for the user
CHECK_DEADLOCK FALSE
INVARIANTS
    DeployedWithinPolicy
    StatusSpeaksForItsGeneration
    NothingForgotten
PROPERTIES
    ChildrenConverge
    
    RejectionReported
