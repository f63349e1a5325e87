\* The lease is lost once.  Besides, the spec is edited, the claim template removed, the
\* Deployment scaled or the service deleted.  The first Deployment is to be recreated.
SPECIFICATION FairHandoverSpec
CONSTANTS
    Models = {"m"}
    DeviceClasses = {"gpu"}
    NoDevice = ""
    UserSpecs <- AcceptedSpecs
    MaxReplicas = 2
    MaxDisruptions = 1
    StaleCRD = FALSE
    InitialDeployments = {"foreign"}
    ForeignClaims = {}
    InitialCRDs = {{"ScaledObject", "InferencePool"}}
    Disruptors = {"update", "unclaim", "scale", "delete"}
\* nothing happens once a deleted service is cleaned up
CHECK_DEADLOCK FALSE
PROPERTIES
    
    NothingLeftBehind
    LateCallsKeepTheCount
