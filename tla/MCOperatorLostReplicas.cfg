\* One failed call, or one crash, between the two applies of createDeployment.
SPECIFICATION FairSpec
CONSTANTS
    Models = {"m"}
    DeviceClasses = {"gpu"}
    NoDevice = ""
    UserSpecs <- OllamaOnly
    MaxReplicas = 2
    MaxDisruptions = 1
    StaleCRD = FALSE
    InitialDeployments = {"absent"}
    ForeignClaims = {}
    InitialCRDs = {{}}
    Disruptors = {"failure", "crash"}
PROPERTIES
    ReplicasStayAtMinReplicas
