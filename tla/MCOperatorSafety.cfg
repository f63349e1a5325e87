\* A service moving between vLLM on a device and Ollama on none; legacy Deployments;
\* the service may be deleted under way.
SPECIFICATION Spec
CONSTANTS
    Models = {"m"}
    DeviceClasses = {"gpu"}
    NoDevice = ""
    UserSpecs <- AcceptedSpecs
    MaxReplicas = 2
    MaxDisruptions = 2
    StaleCRD = FALSE
    InitialDeployments = {"absent", "legacy", "foreign"}
    ForeignClaims <- OtherClaims
    InitialCRDs = {{"ScaledObject"}}
    Disruptors = {"crash", "failure", "update", "remove", "scale", "delete"}
\* nothing happens once a deleted service is cleaned up
CHECK_DEADLOCK FALSE
INVARIANTS
    TypeOK
    RestsOnlyWhenDone
PROPERTIES
    AutoscalerCountSurvives
    CurrentDeploymentKept
    ClaimBeforeDeployment
    
