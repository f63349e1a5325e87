---------------------------- MODULE InferenceApi ----------------------------
(***************************************************************************)
(* The InferenceService API type, the admission rules the CRD carries, the *)
(* operator's own copy of those rules, and the pure functions from a spec  *)
(* to the objects the operator applies.                                    *)
(*                                                                         *)
(* A spec keeps the fields the operator's control flow or the objects'     *)
(* identity depend on.  `model' stands for every field that only ends up   *)
(* in the pod template (model name, context length, cache volume, probe    *)
(* budget).                                                                *)
(***************************************************************************)
EXTENDS Integers

CONSTANTS
    Models,          \* the values of the free pod-template fields
    DeviceClasses,   \* the non-empty values of spec.deviceClass
    NoDevice         \* spec.deviceClass == ""

ASSUME ModelsAssumption == Models # {}
ASSUME DevicesAssumption == NoDevice \notin DeviceClasses

Backends        == {"vLLM", "Ollama"}
Classifications == {"Public", "Internal", "Restricted"}

\* mem = 0 is an absent minDeviceMemory; replicas carry the Minimum=1 markers.
Specs ==
    [backend : Backends, class : Classifications,
     device  : DeviceClasses \cup {NoDevice}, mem : Nat,
     min     : Nat \ {0}, max : Nat \ {0}, model : Models]

-----------------------------------------------------------------------------
\* The XValidation rules of the CRD, run by the API server on every write.
CELAccepts(s) ==
    /\ s.class = "Restricted" => s.device # NoDevice
    /\ s.backend = "Ollama" => s.class # "Restricted"
    /\ s.backend = "vLLM" => s.device # NoDevice
    /\ s.mem # 0 => s.device # NoDevice
    /\ s.max >= s.min

\* Mutant: the operator leaves the Restricted rules to the CRD.
PolicyOfImageOnly(s) == s.backend # "Ollama" /\ s.device = NoDevice

\* The operator's second copy of the rules: TRUE where policyViolation
\* returns a message.
PolicyViolation(s) ==
    \/ s.class = "Restricted" /\ s.device = NoDevice
    \/ s.backend = "Ollama" /\ s.class = "Restricted"
    \/ s.backend # "Ollama" /\ s.device = NoDevice

-----------------------------------------------------------------------------
\* The pod template.  It names the claim template, whose name is fixed, so it
\* records that there is a claim and not which device class the claim asks for.
Templates ==
    [backend : Backends, class : Classifications, model : Models, claim : BOOLEAN]

Template(s) ==
    [backend |-> s.backend, class |-> s.class, model |-> s.model,
     claim |-> s.device # NoDevice]

\* The spec of the ResourceClaimTemplate: immutable once the object exists.
ClaimRequests == [device : DeviceClasses \cup {NoDevice}, mem : Nat]

ClaimRequest(s) == [device |-> s.device, mem |-> s.mem]

\* podTrouble: the first kind of trouble reported while no replica is ready.
\* The scheduler's verdict is looked for in all pods before any container is.
PodTroubles == {"Unschedulable", "Failing"}

PodTrouble(pods) ==
    IF "Unschedulable" \in pods THEN "Unschedulable"
    ELSE IF "Failing" \in pods THEN "Failing"
    ELSE "Loading"

\* The Ready condition's reason for each phase podTrouble can lead to.
NotReadyReason(phase) == IF phase = "Loading" THEN "WeightsLoading" ELSE phase
=============================================================================
