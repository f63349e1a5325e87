--------------------------- MODULE HandoverProofs ---------------------------
(***************************************************************************)
(* What survives a lost lease: the replica count of the autoscaler, the    *)
(* placement policy, and that no service is forgotten, although the old    *)
(* process's last call may be answered at any time under its successor.    *)
(* The invariant says what a late call can carry; the steps of the one     *)
(* operator are those of OperatorProofs.                                   *)
(***************************************************************************)
EXTENDS Handover, OperatorProofs

\* A late call carries a user's spec, and one that writes the Deployment a spec
\* within the policy: it was sent past the verdict.
LateWithinPolicy == late.pc \in {"create", "apply"} => ~PolicyViolation(late.spec)

LateInv == TypeOK /\ late \in Workers /\ PolicyInv /\ LateWithinPolicy

-----------------------------------------------------------------------------
(* The steps *)

\* Steps of everybody but the old process keep the late call's content.
LEMMA LateStaysType ==
    ASSUME late \in Workers, LateStays
    PROVE  late' \in Workers /\ late'.pc = late.pc /\ late'.spec = late.spec
  BY DEF LateStays, Workers

\* What the late process sends: the spec it was working on.
LEMMA SentFields ==
    ASSUME w \in Workers
    PROVE  Sent(w) \in Workers /\ Sent(w).pc = w.pc /\ Sent(w).spec = w.spec
  <1>1. IdleWorker \in Workers
    BY IdleWorkerType
  <1>2. [IdleWorker EXCEPT !.pc = w.pc, !.spec = w.spec] \in Workers
    BY <1>1 DEF Workers
  <1>3. /\ [IdleWorker EXCEPT !.pc = w.pc, !.spec = w.spec].pc = w.pc
        /\ [IdleWorker EXCEPT !.pc = w.pc, !.spec = w.spec].spec = w.spec
    BY <1>1 DEF Workers
  <1> QED
    BY <1>2, <1>3 DEF Sent

\* A late apply of the Deployment leaves the count and its owner alone.
LEMMA LateAppliedFields ==
    ASSUME TypeOK, late \in Workers
    PROVE  /\ AppliedDeployment(late.spec) \in Deployments
           /\ AppliedDeployment(late.spec).tmpl = Template(late.spec)
           /\ dep.exists =>
                 /\ AppliedDeployment(late.spec).replicas = dep.replicas
                 /\ AppliedDeployment(late.spec).owner = dep.owner
  <1>1. late.spec \in Specs
    BY UserSpecType DEF Workers
  <1>2. Template(late.spec) \in Templates
    BY <1>1, TemplateType
  <1>3. dep \in Deployments
    BY DEF TypeOK, ClusterTypeOK
  <1>4. [dep EXCEPT !.tmpl = Template(late.spec), !.owned = TRUE] \in Deployments
    BY <1>2, <1>3 DEF Deployments
  <1>5. CreatedDeployment(late.spec) \in Deployments
    BY <1>1, NoDeploymentType
  <1>6. AppliedDeployment(late.spec) \in Deployments
    BY <1>4, <1>5 DEF AppliedDeployment
  <1>7. AppliedDeployment(late.spec).tmpl = Template(late.spec)
    BY <1>3, NoDeploymentType DEF AppliedDeployment, CreatedDeployment, Deployments
  <1> QED
    BY <1>3, <1>6, <1>7 DEF AppliedDeployment, Deployments

\* A late initial count is refused by a Deployment whose count is another's.
LEMMA LateReplicasFields ==
    ASSUME TypeOK, late \in Workers, LateReplicas
    PROVE  /\ dep' \in Deployments /\ dep'.sel = dep.sel /\ dep'.tmpl = dep.tmpl
           /\ dep'.exists = dep.exists
           /\ dep.owner = "autoscaler" => dep'.owner = "autoscaler" /\ dep'.replicas = dep.replicas
  <1>1. dep \in Deployments /\ late.spec \in UserSpecs
    BY DEF TypeOK, ClusterTypeOK, Workers
  <1>2. late.spec.min \in 0 .. MaxReplicas
    BY <1>1, UserSpecType, ClusterAssumption
  <1> DEFINE o == IF dep.owner = "autoscaler" THEN dep.owner ELSE "initial"
  <1>3. dep' = [dep EXCEPT !.replicas = late.spec.min, !.owner = o]
    BY <1>1 DEF LateReplicas, Deployments
  <1>4. o \in {"none", "initial", "autoscaler"}
    OBVIOUS
  <1> HIDE DEF o
  <1>5. dep' \in Deployments
    BY <1>1, <1>2, <1>3, <1>4 DEF Deployments
  <1>6. dep'.sel = dep.sel /\ dep'.tmpl = dep.tmpl /\ dep'.exists = dep.exists
    BY <1>1, <1>3 DEF Deployments
  <1>7. dep'.replicas = late.spec.min /\ dep'.owner = o
    BY <1>1, <1>3 DEF Deployments
  <1> QED
    BY <1>5, <1>6, <1>7 DEF LateReplicas, ReplicasAccepted, o

\* What a late call may do to the cluster keeps the types.
LEMMA LateCallType ==
    ASSUME TypeOK, late \in Workers, LateCall
    PROVE  TypeOK'
  <1>t. /\ late.spec \in UserSpecs /\ late.spec \in Specs
        /\ late.spec.min \in 0 .. MaxReplicas /\ late.spec.max \in 0 .. MaxReplicas
    <2>1. late.spec \in UserSpecs
      BY DEF Workers
    <2>2. late.spec.max \in Nat
      BY <2>1, UserSpecsAssumption DEF Specs
    <2> QED
      BY <2>1, <2>2, UserSpecType, UserSpecsAssumption, ClusterAssumption
  <1>1. ClusterTypeOK' /\ crds' = crds
    <2>1. CASE LateClaim
      <3>1. AppliedClaim(late.spec) \in Claims
        BY <1>t, ClaimRequestType DEF AppliedClaim, Claims
      <3>2. claim' \in Claims
        BY <2>1, <3>1, NoClaimType DEF LateClaim
      <3> QED
        BY <2>1, <3>2, OnlyClaimKeeps DEF LateClaim
    <2>2. CASE LateDeployment
      <3>1. dep' \in Deployments
        BY <2>2, LateAppliedFields, NoDeploymentType DEF LateDeployment
      <3> QED
        BY <2>2, <3>1, OnlyDeploymentKeeps DEF LateDeployment
    <2>3. CASE LateReplicas
      <3>1. dep' \in Deployments
        BY <2>3, LateReplicasFields
      <3> QED
        BY <2>3, <3>1, OnlyDeploymentKeeps DEF LateReplicas
    <2>4. CASE LateOther
      <3>1. DesiredScaledObject(late.spec) \in ScaledObjects
        BY <1>t DEF DesiredScaledObject, ScaledObjects, TypeOK, ClusterTypeOK
      <3>2. so' \in ScaledObjects /\ service' \in BOOLEAN /\ pool' \in BOOLEAN
        BY <2>4, <3>1, NoScaledObjectType DEF LateOther, TypeOK, ClusterTypeOK
      <3> QED
        BY <2>4, <3>2, OnlyOtherKeeps DEF LateOther
    <2> QED
      BY <2>1, <2>2, <2>3, <2>4 DEF LateCall
  <1>2. disruptions' \in 0 .. MaxDisruptions
    BY DEF LateCall, TypeOK
  <1> QED
    BY <1>1, <1>2, ChildWrittenType DEF LateCall

\* A late status update keeps them too.
LEMMA LateStatusType ==
    ASSUME TypeOK, late \in Workers, LateStatus
    PROVE  TypeOK'
  <1>1. [late.st EXCEPT !.obsGen = late.gen] \in Statuses
    BY DEF Workers, Statuses
  <1>2. isvc' \in Services
    BY <1>1 DEF LateStatus, Services, TypeOK, ClusterTypeOK
  <1>3. ClusterTypeOK' /\ crds' = crds
    BY <1>2, OnlyIsvcKeeps DEF LateStatus
  <1>4. disruptions' \in 0 .. MaxDisruptions
    BY DEF LateStatus, TypeOK
  <1> QED
    BY <1>3, <1>4, IsvcWrittenType DEF LateStatus

\* A lost lease leaves the cluster alone and a fresh worker.
LEMMA LeaseLostType ==
    ASSUME TypeOK, LeaseLost
    PROVE  TypeOK' /\ late' \in Workers
  <1>1. late' \in Workers
    BY SentFields DEF LeaseLost, TypeOK
  <1>2. ClusterTypeOK' /\ crds' = crds
    BY ClusterStays DEF LeaseLost, Restart
  <1>3. w' \in Workers /\ disruptions' \in 0 .. MaxDisruptions
    BY IdleWorkerType DEF LeaseLost, Restart, TypeOK
  <1> QED
    BY <1>1, <1>2, <1>3 DEF LeaseLost, Restart, TypeOK, ClusterTypeOK, Timers, clusterVars

-----------------------------------------------------------------------------
(* The theorems *)

\* A late call writes no Deployment outside the policy.
LEMMA LateCallPolicy ==
    ASSUME LateInv, LateCall
    PROVE  PolicyInv' /\ LateWithinPolicy'
  <1>0. TypeOK /\ late \in Workers /\ DeployedWithinPolicy /\ PassWithinPolicy
    BY DEF LateInv, PolicyInv
  <1>1. DeployedWithinPolicy'
    <2>1. CASE dep' = dep
      BY <1>0, <2>1 DEF DeployedWithinPolicy
    <2>2. CASE dep' = NoDeployment
      BY <2>2, FixedFields DEF DeployedWithinPolicy
    <2>3. CASE late.pc \in {"create", "apply"} /\ dep' = AppliedDeployment(late.spec)
      <3>1. ~PolicyViolation(late.spec) /\ late.spec \in Specs
        BY <1>0, <2>3, UserSpecType DEF LateInv, LateWithinPolicy, Workers
      <3>2. /\ late.spec.class = "Restricted" => late.spec.backend = "vLLM"
            /\ late.spec.backend = "vLLM" => late.spec.device # NoDevice
        BY <3>1 DEF PolicyViolation, Specs, Backends
      <3>3. dep'.tmpl = Template(late.spec)
        BY <1>0, <2>3, LateAppliedFields
      <3>4. /\ dep'.tmpl.class = late.spec.class /\ dep'.tmpl.backend = late.spec.backend
            /\ dep'.tmpl.claim = (late.spec.device # NoDevice)
        BY <3>3 DEF Template
      <3> QED
        BY <3>2, <3>4 DEF DeployedWithinPolicy
    <2>4. CASE LateReplicas
      BY <1>0, <2>4, LateReplicasFields DEF DeployedWithinPolicy
    <2>5. LateClaim \/ LateOther => dep' = dep
      BY DEF LateClaim, OnlyClaim, LateOther, OnlyOther
    <2>6. LateDeployment => \/ dep' = NoDeployment
                            \/ late.pc \in {"create", "apply"} /\ dep' = AppliedDeployment(late.spec)
      BY DEF LateDeployment
    <2> QED
      BY <2>1, <2>2, <2>3, <2>4, <2>5, <2>6 DEF LateCall
  <1>2. PassWithinPolicy'
    BY <1>0 DEF LateCall, ChildWritten, PassWithinPolicy
  <1>3. LateWithinPolicy'
    BY DEF LateCall, IdleWorker, LateWithinPolicy
  <1> QED
    BY <1>1, <1>2, <1>3 DEF PolicyInv

\* The invariant holds across any lost lease and any late call.
LEMMA LateInvHolds == HandoverSpec => []LateInv
  <1>1. HandoverInit => LateInv
    <2> SUFFICES ASSUME HandoverInit PROVE LateInv
      OBVIOUS
    <2>1. TypeOK
      BY InitType DEF HandoverInit
    <2>2. late \in Workers /\ late.pc = "idle"
      BY IdleWorkerType DEF HandoverInit, IdleWorker
    <2>3. DeployedWithinPolicy /\ PassWithinPolicy
      BY FixedFields
      DEF HandoverInit, Init, ClusterInit, DeployedWithinPolicy, PassWithinPolicy, IdleWorker
    <2> QED
      BY <2>1, <2>2, <2>3 DEF LateInv, LateWithinPolicy, PolicyInv
  <1>2. LateInv /\ [HandoverNext]_handoverVars => LateInv'
    <2> SUFFICES ASSUME LateInv, [HandoverNext]_handoverVars PROVE LateInv'
      OBVIOUS
    <2>0. /\ TypeOK /\ late \in Workers /\ w \in Workers
          /\ DeployedWithinPolicy /\ PassWithinPolicy /\ LateWithinPolicy
      BY DEF LateInv, PolicyInv, TypeOK
    <2>1. CASE [Next]_vars /\ LateStays
      <3>1. TypeOK' /\ PolicyInv'
        BY <2>1, TypeSteps, PolicySteps DEF LateInv
      <3>2. late' \in Workers /\ late'.pc = late.pc /\ late'.spec = late.spec
        BY <2>0, <2>1, LateStaysType
      <3> QED
        BY <2>0, <3>1, <3>2 DEF LateInv, LateWithinPolicy
    <2>2. CASE LeaseLost
      <3>1. TypeOK' /\ late' \in Workers
        BY <2>0, <2>2, LeaseLostType
      <3>2. DeployedWithinPolicy'
        BY <2>0, <2>2 DEF LeaseLost, Restart, clusterVars, DeployedWithinPolicy
      <3>3. PassWithinPolicy'
        BY <2>2 DEF LeaseLost, Restart, IdleWorker, PassWithinPolicy
      <3>4. LateWithinPolicy'
        BY <2>0, <2>2, SentFields DEF LeaseLost, LateWithinPolicy, PassWithinPolicy
      <3> QED
        BY <3>1, <3>2, <3>3, <3>4 DEF LateInv, PolicyInv
    <2>3. CASE LateCall
      <3>1. TypeOK' /\ late' \in Workers
        BY <2>0, <2>3, LateCallType, IdleWorkerType DEF LateCall
      <3> QED
        BY <2>3, <3>1, LateCallPolicy DEF LateInv
    <2>4. CASE LateStatus
      <3>1. TypeOK' /\ late' \in Workers /\ LateWithinPolicy'
        BY <2>0, <2>4, LateStatusType, IdleWorkerType DEF LateStatus, IdleWorker, LateWithinPolicy
      <3>2. DeployedWithinPolicy'
        BY <2>0, <2>4 DEF LateStatus, OnlyIsvc, DeployedWithinPolicy
      <3>3. w'.pc = w.pc /\ w'.spec = w.spec
        BY <2>0, <2>4 DEF LateStatus, IsvcWritten, Workers
      <3> QED
        BY <2>0, <3>1, <3>2, <3>3 DEF LateInv, PolicyInv, PassWithinPolicy
    <2>5. CASE UNCHANGED handoverVars
      <3>1. [Next]_vars /\ LateStays
        BY <2>5 DEF handoverVars, vars, clusterVars, LateStays
      <3> QED
        BY <2>1, <3>1
    <2> QED
      BY <2>1, <2>2, <2>3, <2>4, <2>5 DEF HandoverNext
  <1> QED
    BY <1>1, <1>2, PTL DEF HandoverSpec

\* Whenever the old process's last call is answered, types and the placement
\* policy hold: what it applies passed the verdict before the lease was lost.
THEOREM PolicySurvivesHandover == HandoverSpec => [](TypeOK /\ DeployedWithinPolicy)
  <1>1. LateInv => TypeOK /\ DeployedWithinPolicy
    BY DEF LateInv, PolicyInv
  <1> QED
    BY <1>1, LateInvHolds, PTL

\* A late apply of the initial count does not undo the autoscaler of the
\* Deployment it finds, and no other late call writes a count at all.
THEOREM CountSurvivesHandover == HandoverSpec => LateCallsKeepTheCount
  <1> DEFINE Keeps == late' # late /\ dep.exists /\ dep'.exists /\ dep.owner = "autoscaler"
                         => dep'.replicas = dep.replicas /\ dep'.owner = "autoscaler"
  <1>1. LateInv /\ [HandoverNext]_handoverVars => [Keeps]_handoverVars
    <2> SUFFICES ASSUME LateInv, [HandoverNext]_handoverVars PROVE Keeps
      OBVIOUS
    <2>0. TypeOK /\ late \in Workers
      BY DEF LateInv
    <2>1. CASE Next /\ LateStays
      <3>1. CASE isvc' = isvc
        BY <2>1, <3>1 DEF LateStays
      <3>2. CASE dep' = dep
        BY <3>2
      <3>3. OperatorWrites \/ OthersWrite => isvc' = isvc
        BY DEF OperatorWrites, OthersWrite, DeleteDeployment, CreateDeployment, UpdateDeployment,
               ApplyDeployment, SetInitialReplicas, AutoscalerScales, KubeletReports,
               UserDeletesDeployment, DeploymentTerminates, CollectDeployment, NameTaken,
               OnlyDeployment
      <3> QED
        BY <2>1, <3>1, <3>2, <3>3, DeploymentSteps
    <2>2. CASE LeaseLost \/ LateStatus
      BY <2>2 DEF LeaseLost, Restart, LateStatus, OnlyIsvc, clusterVars
    <2>3. CASE LateCall
      <3>1. CASE LateClaim \/ LateOther
        BY <3>1 DEF LateClaim, OnlyClaim, LateOther, OnlyOther
      <3>2. CASE LateDeployment
        BY <2>0, <3>2, LateAppliedFields, FixedFields DEF LateDeployment
      <3>3. CASE LateReplicas
        BY <2>0, <3>3, LateReplicasFields
      <3> QED
        BY <2>3, <3>1, <3>2, <3>3 DEF LateCall
    <2>4. CASE UNCHANGED handoverVars
      BY <2>4 DEF handoverVars
    <2> QED
      BY <2>1, <2>2, <2>3, <2>4 DEF HandoverNext
  <1> QED
    BY <1>1, LateInvHolds, PTL DEF HandoverSpec, LateCallsKeepTheCount

\* The successor loses no service out of sight either: it starts with every key
\* queued, and a late status update is an event like any other write.
THEOREM NothingForgottenByTheSuccessor == HandoverSpec => []NothingForgotten
  <1> DEFINE Inv == CopyInv /\ NothingForgotten
  <1>1. HandoverInit => Inv
    BY CopyStart DEF HandoverInit, Init, NothingForgotten
  <1>2. LateInv /\ Inv /\ [HandoverNext]_handoverVars => Inv'
    <2> SUFFICES ASSUME LateInv, Inv, [HandoverNext]_handoverVars PROVE Inv'
      OBVIOUS
    <2>0. TypeOK
      BY DEF LateInv
    <2>1. CASE [Next]_vars
      BY <2>0, <2>1, CopyKept, WakeSteps
    <2>2. CASE LeaseLost
      <3>1. /\ isvc' = isvc /\ cIsvc' = isvc
            /\ queued' /\ w'.pc = "idle"
        BY <2>2 DEF LeaseLost, Restart, clusterVars, IdleWorker
      <3> QED
        BY <3>1 DEF CopyInv, NothingForgotten
    <2>3. CASE LateCall
      <3>1. isvc' = isvc
        BY <2>3
        DEF LateCall, LateClaim, LateDeployment, LateReplicas, LateOther,
            OnlyClaim, OnlyDeployment, OnlyOther
      <3>2. /\ cIsvc' = cIsvc /\ fresh' = fresh /\ timer' = timer /\ w' = w
            /\ queued => queued'
        BY <2>3 DEF LateCall, ChildWritten, Events, caches
      <3>3. CopyInv'
        BY <3>1, <3>2 DEF CopyInv
      <3>4. NothingForgotten'
        BY <3>1, <3>2 DEF NothingForgotten, Reported, At
      <3> QED
        BY <3>3, <3>4
    <2>4. CASE LateStatus
      <3>1. ~fresh' /\ cIsvc' = cIsvc /\ queued' = queued
        BY <2>4 DEF LateStatus, IsvcWritten
      <3>2. /\ w'.pc = w.pc /\ w'.spec = w.spec /\ w'.gen = w.gen
            /\ w'.before = w.before /\ w'.again = w.again /\ w'.st = w.st
        BY <2>0, <2>4 DEF LateStatus, IsvcWritten, TypeOK, Workers
      <3>3. CopyInv'
        BY <3>1, <3>2 DEF CopyInv
      <3>4. NothingForgotten'
        BY <3>1 DEF NothingForgotten
      <3> QED
        BY <3>3, <3>4
    <2>5. CASE UNCHANGED handoverVars
      BY <2>1, <2>5 DEF handoverVars
    <2> QED
      BY <2>1, <2>2, <2>3, <2>4, <2>5 DEF HandoverNext
  <1> QED
    BY <1>1, <1>2, LateInvHolds, PTL DEF HandoverSpec
=============================================================================
