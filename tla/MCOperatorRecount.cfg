\* The user edits minReplicas while the cache has yet to show the new Deployment.
SPECIFICATION Spec
CONSTANTS
    Models = {"m"}
    DeviceClasses = {"gpu"}
    NoDevice = ""
    UserSpecs <- ScalingSpecs
    MaxReplicas = 2
    MaxDisruptions = 1
    StaleCRD = FALSE
    InitialDeployments = {"absent"}
    ForeignClaims = {}
    InitialCRDs = {{}}
    Disruptors = {"update"}
PROPERTIES
    InitialCountWrittenOnce
