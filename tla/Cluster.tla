------------------------------ MODULE Cluster -------------------------------
(***************************************************************************)
(* The Kubernetes side of one InferenceService: the objects the API server *)
(* keeps, the rules by which it takes or turns down the operator's calls,  *)
(* and everyone else who writes the same objects: users, KEDA's            *)
(* autoscaler, the kubelet, the garbage collector.  None of it is code of  *)
(* this repository; it is what the reconciler is written against.          *)
(***************************************************************************)
EXTENDS InferenceApi

OptionalCRDs == {"ScaledObject", "InferencePool"}

CONSTANTS
    UserSpecs,           \* the specs the user writes
    MaxReplicas,         \* bound on the replica counts of the model
    StaleCRD,            \* TRUE: the installed CRD lacks the CEL rules
    InitialDeployments,  \* what holds the Deployment's name at the start
    ForeignClaims,       \* claim templates of that name somebody may have made before
    InitialCRDs          \* the sets of optional CRDs a cluster may start with

ASSUME UserSpecsAssumption ==
    /\ UserSpecs # {}
    /\ \A s \in UserSpecs : s \in Specs /\ s.min <= MaxReplicas /\ s.max <= MaxReplicas
ASSUME ClusterAssumption ==
    /\ MaxReplicas \in Nat \ {0}
    /\ StaleCRD \in BOOLEAN
    /\ InitialDeployments \subseteq {"absent", "legacy", "foreign"}
    /\ ForeignClaims \subseteq ClaimRequests
    /\ InitialCRDs \subseteq SUBSET OptionalCRDs

VARIABLES
    isvc,     \* the InferenceService
    dep,      \* the Deployment
    claim,    \* the ResourceClaimTemplate
    so,       \* the ScaledObject, with KEDA's verdict on it
    service,  \* does the Service exist?
    pool,     \* does the InferencePool exist?
    crds,     \* the optional CRDs installed
    pods      \* the kinds of trouble the service's pods report

clusterVars == <<isvc, dep, claim, so, service, pool, crds, pods>>

\* What a step that writes one kind of object leaves alone.
OnlyIsvc       == UNCHANGED <<dep, claim, so, service, pool, crds, pods>>
OnlyDeployment == UNCHANGED <<isvc, claim, so, service, pool, crds, pods>>
OnlyClaim      == UNCHANGED <<isvc, dep, so, service, pool, crds, pods>>
OnlyOther      == UNCHANGED <<isvc, dep, claim, crds, pods>>

-----------------------------------------------------------------------------
(* Objects *)

NoModel    == CHOOSE m \in Models : TRUE
NoTemplate == [backend |-> "Ollama", class |-> "Public", model |-> NoModel, claim |-> FALSE]

\* Status: conditions are kept by reason, which determines their status.
Statuses ==
    [obsGen   : Nat,
     phase    : {"None", "Rejected", "Loading", "Ready"} \cup PodTroubles,
     ready    : BOOLEAN,  \* readyReplicas > 0
     endpoint : BOOLEAN,  \* endpoint # ""
     adm      : {"None", "PolicyViolation", "PolicySatisfied"},
     rdy      : {"None", "RecreatingDeployment", "MinimumReplicasAvailable",
                 "WeightsLoading"} \cup PodTroubles,
     aut      : {"None", "BackendNotSupported", "KEDANotInstalled",
                 "ScalerReady", "ScalerNotReady", "WaitingForKEDA"},
     rou      : {"None", "InferencePoolNotInstalled", "InferencePoolApplied"}]

EmptyStatus ==
    [obsGen |-> 0, phase |-> "None", ready |-> FALSE, endpoint |-> FALSE,
     adm |-> "None", rdy |-> "None", aut |-> "None", rou |-> "None"]

\* What an earlier operator version left on a service it had brought up.
ServingStatus ==
    [obsGen |-> 1, phase |-> "Ready", ready |-> TRUE, endpoint |-> TRUE,
     adm |-> "PolicySatisfied", rdy |-> "MinimumReplicasAvailable",
     aut |-> "None", rou |-> "None"]

Services == [exists : BOOLEAN, gen : Nat, spec : UserSpecs, st : Statuses]

\* sel: the selector holds the operator's labels ("current"), the labels of an
\* earlier operator version ("legacy"), or somebody else's ("foreign").
\* owner: the field manager that owns spec.replicas.
Deployments ==
    [exists : BOOLEAN, sel : {"current", "legacy", "foreign"}, tmpl : Templates,
     replicas : 0 .. MaxReplicas, owner : {"none", "initial", "autoscaler"},
     deleting : BOOLEAN, owned : BOOLEAN, ready : BOOLEAN]

NoDeployment ==
    [exists |-> FALSE, sel |-> "current", tmpl |-> NoTemplate, replicas |-> 0,
     owner |-> "none", deleting |-> FALSE, owned |-> FALSE, ready |-> FALSE]

LegacyDeployment(spec) ==
    [NoDeployment EXCEPT !.exists = TRUE, !.sel = "legacy", !.owned = TRUE,
                         !.tmpl = Template(spec), !.replicas = 1, !.ready = TRUE]
ForeignDeployment ==
    [NoDeployment EXCEPT !.exists = TRUE, !.sel = "foreign", !.replicas = 1]

Claims  == [exists : BOOLEAN, owned : BOOLEAN, req : ClaimRequests]
NoClaim == [exists |-> FALSE, owned |-> FALSE, req |-> [device |-> NoDevice, mem |-> 0]]

ScaledObjects ==
    [exists : BOOLEAN, min : 0 .. MaxReplicas, max : 0 .. MaxReplicas,
     verdict : {"Unknown", "True", "False"}]
NoScaledObject == [exists |-> FALSE, min |-> 0, max |-> 0, verdict |-> "Unknown"]

-----------------------------------------------------------------------------
(* What the API server takes *)

Admits(spec) == StaleCRD \/ CELAccepts(spec)

\* The spec of a ResourceClaimTemplate and the selector of a Deployment cannot
\* be changed by an apply.
ClaimAccepted(req) == claim.exists => claim.req = req
SelectorAccepted   == dep.exists => dep.sel = "current"

\* An apply of replicas alone and without force conflicts with a manager that
\* owns a different count, and cannot create the object.
ReplicasAccepted(n) == dep.exists /\ (dep.owner = "autoscaler" => dep.replicas = n)

-----------------------------------------------------------------------------
(* Initial states: the object has just been created, or the operator has   *)
(* just been upgraded over an older one's Deployment.                      *)

ClusterInit ==
    /\ \E spec \in UserSpecs, st \in {EmptyStatus, ServingStatus} :
          /\ Admits(spec)
          /\ isvc = [exists |-> TRUE, gen |-> 1, spec |-> spec, st |-> st]
    /\ \/ "absent" \in InitialDeployments /\ dep = NoDeployment
       \/ "foreign" \in InitialDeployments /\ dep = ForeignDeployment
       \/ "legacy" \in InitialDeployments /\ dep = LegacyDeployment(isvc.spec)
    /\ isvc.st = ServingStatus => dep.sel = "legacy" /\ ~PolicyViolation(isvc.spec)
    /\ claim \in {NoClaim} \cup [exists : {TRUE}, owned : {FALSE}, req : ForeignClaims]
    /\ so = NoScaledObject /\ service = FALSE /\ pool = FALSE
    /\ crds \in InitialCRDs /\ pods = {}

-----------------------------------------------------------------------------
(* Users *)

UserUpdates ==
    /\ isvc.exists
    /\ \E spec \in UserSpecs :
          /\ spec # isvc.spec /\ Admits(spec)
          /\ isvc' = [isvc EXCEPT !.spec = spec, !.gen = @ + 1]
    /\ OnlyIsvc

UserDeletes == isvc.exists /\ isvc' = [isvc EXCEPT !.exists = FALSE] /\ OnlyIsvc

\* In the background, or in the foreground and so only once the pods are gone.
UserDeletesDeployment ==
    /\ dep.exists
    /\ \/ dep' = NoDeployment
       \/ ~dep.deleting /\ dep' = [dep EXCEPT !.deleting = TRUE]
    /\ OnlyDeployment

UserDeletesOther ==
    /\ \/ so.exists /\ so' = NoScaledObject /\ UNCHANGED <<service, pool>>
       \/ service /\ service' = FALSE /\ UNCHANGED <<so, pool>>
       \/ pool /\ pool' = FALSE /\ UNCHANGED <<so, service>>
    /\ OnlyOther

UserDeletesClaim == claim.exists /\ claim' = NoClaim /\ OnlyClaim

\* Somebody else's Deployment takes the name.
NameTaken == ~dep.exists /\ dep' = ForeignDeployment /\ OnlyDeployment

CRDInstalled ==
    /\ \E k \in OptionalCRDs : k \notin crds /\ crds' = crds \cup {k}
    /\ UNCHANGED <<isvc, dep, claim, so, service, pool, pods>>

-----------------------------------------------------------------------------
(* Controllers *)

\* The HPA KEDA runs for the ScaledObject writes the scale subresource.
AutoscalerScales ==
    /\ so.exists /\ dep.exists /\ ~dep.deleting
    /\ \E n \in so.min .. so.max :
          n # dep.replicas /\ dep' = [dep EXCEPT !.replicas = n, !.owner = "autoscaler"]
    /\ OnlyDeployment

KEDAReports ==
    /\ so.exists
    /\ \E v \in {"True", "False"} : v # so.verdict /\ so' = [so EXCEPT !.verdict = v]
    /\ UNCHANGED <<service, pool>> /\ OnlyOther

KubeletReports == dep.exists /\ dep' = [dep EXCEPT !.ready = ~@] /\ OnlyDeployment

PodsChange ==
    /\ \E p \in SUBSET PodTroubles : p # pods /\ pods' = p
    /\ UNCHANGED <<isvc, dep, claim, so, service, pool, crds>>

\* A Deployment deleted in the foreground goes once its pods are gone.
DeploymentTerminates ==
    dep.exists /\ dep.deleting /\ dep' = NoDeployment /\ OnlyDeployment

\* The garbage collector removes the children of a deleted InferenceService.
CollectDeployment ==
    ~isvc.exists /\ dep.exists /\ dep.owned /\ dep' = NoDeployment /\ OnlyDeployment
CollectClaim ==
    ~isvc.exists /\ claim.exists /\ claim.owned /\ claim' = NoClaim /\ OnlyClaim
CollectOther ==
    /\ ~isvc.exists /\ (so.exists \/ service \/ pool)
    /\ so' = NoScaledObject /\ service' = FALSE /\ pool' = FALSE /\ OnlyOther

ClusterTypeOK ==
    /\ isvc \in Services /\ dep \in Deployments /\ claim \in Claims
    /\ so \in ScaledObjects /\ service \in BOOLEAN /\ pool \in BOOLEAN
    /\ crds \subseteq OptionalCRDs /\ pods \subseteq PodTroubles
=============================================================================
