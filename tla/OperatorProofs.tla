--------------------------- MODULE OperatorProofs ---------------------------
(***************************************************************************)
(* Proofs about the reconciler for every value of the constants: every set *)
(* of specs, every bound, every mix of disruptions.  First that every      *)
(* state has its types; then the safety properties, each from an inductive *)
(* invariant that ties the worker's program counter to the objects it has  *)
(* read or written, and from lemmas that sort all steps of the system by   *)
(* what they do to the Deployment, the InferenceService, the claim         *)
(* template and the worker.  Last come two safety halves of convergence:   *)
(* nothing the reconciler has to act on is ever forgotten, and it rests    *)
(* only when the children match the spec.                                  *)
(***************************************************************************)
EXTENDS OperatorProperties, TLAPS

(* The records of the model are what they should be. *)

\* A template is what desiredDeployment makes of a spec.
LEMMA TemplateType == \A s \in Specs : Template(s) \in Templates
  BY DEF Template, Templates, Specs

\* The template of a Deployment that nobody made is one.
LEMMA NoTemplateType == NoTemplate \in Templates
  <1>1. NoModel \in Models
    BY ModelsAssumption DEF NoModel
  <1> QED
    BY <1>1 DEF NoTemplate, Templates, Backends, Classifications

\* Specs the user writes are specs, with replica counts within the bound.
LEMMA UserSpecType == \A s \in UserSpecs : s \in Specs /\ s.min \in 1 .. MaxReplicas
                                          /\ s.max \in 1 .. MaxReplicas
  BY UserSpecsAssumption, ClusterAssumption DEF Specs

\* A claim request is what desiredClaimTemplate makes of a spec.
LEMMA ClaimRequestType == \A s \in Specs : ClaimRequest(s) \in ClaimRequests
  BY DEF ClaimRequest, ClaimRequests, Specs

\* The two initial statuses are statuses.
LEMMA StatusConstantsType == EmptyStatus \in Statuses /\ ServingStatus \in Statuses
  BY DEF EmptyStatus, ServingStatus, Statuses, PodTroubles

\* The Deployments that are absent, foreign, legacy or just created are Deployments.
LEMMA NoDeploymentType ==
    /\ NoDeployment \in Deployments
    /\ ForeignDeployment \in Deployments
    /\ \A s \in Specs : CreatedDeployment(s) \in Deployments /\ LegacyDeployment(s) \in Deployments
  <1>1. NoDeployment \in Deployments
    BY NoTemplateType, ClusterAssumption DEF NoDeployment, Deployments
  <1>2. 1 \in 0 .. MaxReplicas
    BY ClusterAssumption
  <1> QED
    BY <1>1, <1>2, TemplateType
    DEF Deployments, ForeignDeployment, CreatedDeployment, LegacyDeployment

\* The absent claim template is a claim template.
LEMMA NoClaimType == NoClaim \in Claims
  BY DEF NoClaim, Claims, ClaimRequests

\* The absent ScaledObject is a ScaledObject.
LEMMA NoScaledObjectType == NoScaledObject \in ScaledObjects
  BY ClusterAssumption DEF NoScaledObject, ScaledObjects

\* The worker between two passes is a worker.
LEMMA IdleWorkerType == IdleWorker \in Workers
  <1>1. (CHOOSE s \in UserSpecs : TRUE) \in UserSpecs
    BY UserSpecsAssumption
  <1> QED
    BY <1>1, StatusConstantsType DEF IdleWorker, Workers, Pcs, Timers

\* The moves of the worker keep its record in shape.
LEMMA WorkerMoves ==
    ASSUME w \in Workers
    PROVE  /\ \A pc \in Pcs : [w EXCEPT !.pc = pc] \in Workers
           /\ \A again \in Timers : [w EXCEPT !.pc = "status", !.again = again] \in Workers
           /\ \A pc \in Pcs, st \in Statuses : [w EXCEPT !.pc = pc, !.st = st] \in Workers
           /\ [w EXCEPT !.fresh = FALSE] \in Workers
           /\ \A r \in BOOLEAN : [w EXCEPT !.pc = "service", !.ready = r] \in Workers
  BY DEF Workers, Pcs

-----------------------------------------------------------------------------
(* Type correctness *)

\* The state the manager starts from has the declared types.
THEOREM InitType == Init => TypeOK
  <1> SUFFICES ASSUME Init PROVE TypeOK
    OBVIOUS
  <1> USE DEF Init, ClusterInit
  <1>1. isvc \in Services
    BY StatusConstantsType DEF Services
  <1>2. dep \in Deployments
    BY NoDeploymentType, UserSpecType, <1>1 DEF Services
  <1>3. claim \in Claims
    BY NoClaimType, ClusterAssumption DEF Claims
  <1>4. so \in ScaledObjects
    BY NoScaledObjectType
  <1>5. crds \subseteq OptionalCRDs
    BY ClusterAssumption
  <1>6. service \in BOOLEAN /\ pool \in BOOLEAN /\ pods \subseteq PodTroubles
    OBVIOUS
  <1>7. fresh \in BOOLEAN /\ queued \in BOOLEAN /\ timer \in Timers
    BY DEF Timers
  <1>8. cIsvc = isvc /\ cDep = dep /\ cClaim = claim /\ watched = crds
    OBVIOUS
  <1>9. w \in Workers /\ disruptions \in 0 .. MaxDisruptions
    BY IdleWorkerType, BoundAssumption
  <1> HIDE DEF Init, ClusterInit
  <1> QED
    BY <1>1, <1>2, <1>3, <1>4, <1>5, <1>6, <1>7, <1>8, <1>9 DEF TypeOK, ClusterTypeOK

\* What a step does to the part of the state it is not about.
LEMMA StepKeeps ==
    ASSUME TypeOK, Step
    PROVE  /\ queued' \in BOOLEAN
           /\ cIsvc' \in Services /\ fresh' \in BOOLEAN
           /\ cDep' \in Deployments /\ cClaim' \in Claims
           /\ timer' \in Timers /\ watched' = watched /\ disruptions' \in 0 .. MaxDisruptions
  BY DEF TypeOK, Step, Events, caches

\* A step that leaves the cluster alone.
LEMMA ClusterStays ==
    ASSUME TypeOK, UNCHANGED clusterVars
    PROVE  ClusterTypeOK' /\ crds' = crds
  BY DEF TypeOK, ClusterTypeOK, clusterVars

\* A step that writes the Deployment alone.
LEMMA OnlyDeploymentKeeps ==
    ASSUME TypeOK, OnlyDeployment, dep' \in Deployments
    PROVE  ClusterTypeOK' /\ crds' = crds
  BY DEF TypeOK, ClusterTypeOK, OnlyDeployment

\* A step that writes the claim template alone.
LEMMA OnlyClaimKeeps ==
    ASSUME TypeOK, OnlyClaim, claim' \in Claims
    PROVE  ClusterTypeOK' /\ crds' = crds
  BY DEF TypeOK, ClusterTypeOK, OnlyClaim

\* A step that writes the Service, the ScaledObject or the InferencePool.
LEMMA OnlyOtherKeeps ==
    ASSUME TypeOK, OnlyOther,
           so' \in ScaledObjects, service' \in BOOLEAN, pool' \in BOOLEAN
    PROVE  ClusterTypeOK' /\ crds' = crds
  BY DEF TypeOK, ClusterTypeOK, OnlyOther

\* A step that writes the InferenceService alone.
LEMMA OnlyIsvcKeeps ==
    ASSUME TypeOK, OnlyIsvc, isvc' \in Services
    PROVE  ClusterTypeOK' /\ crds' = crds
  BY DEF TypeOK, ClusterTypeOK, OnlyIsvc

\* A step of the worker within reconcile().
LEMMA WorkerStepType ==
    ASSUME TypeOK, Step, ClusterTypeOK', crds' = crds, w' \in Workers
    PROVE  TypeOK'
  BY StepKeeps DEF TypeOK

\* The end of Reconcile leaves an idle worker and a requeue.
LEMMA DoneType ==
    ASSUME TypeOK, NEW again \in Timers, Done(again)
    PROVE  /\ w' \in Workers /\ timer' \in Timers /\ queued' \in BOOLEAN
           /\ cIsvc' \in Services /\ cDep' \in Deployments /\ cClaim' \in Claims
           /\ watched' = watched
  BY IdleWorkerType DEF TypeOK, Done, Earliest, Timers

\* The first step of a reconcile.
LEMMA BeginType ==
    ASSUME TypeOK, TakeKey,
           NEW st \in Statuses, NEW pc \in Pcs, Begin(st, pc)
    PROVE  TypeOK'
  <1>1. w' \in Workers
    BY DEF TypeOK, Begin, Workers, Services, Timers
  <1>2. ClusterTypeOK' /\ crds' = crds
    BY ClusterStays DEF TakeKey
  <1>3. timer' \in Timers
    BY DEF TypeOK, TakeKey, Timers
  <1> QED
    BY <1>1, <1>2, <1>3 DEF TypeOK, TakeKey, caches

\* What desiredDeployment's apply leaves in the API server.
LEMMA AppliedDeploymentType ==
    ASSUME TypeOK
    PROVE  AppliedDeployment(w.spec) \in Deployments
  <1>1. w.spec \in Specs
    BY UserSpecType DEF TypeOK, Workers
  <1>2. Template(w.spec) \in Templates
    BY <1>1, TemplateType
  <1>3. dep \in Deployments
    BY DEF TypeOK, ClusterTypeOK
  <1>4. [dep EXCEPT !.tmpl = Template(w.spec), !.owned = TRUE] \in Deployments
    BY <1>2, <1>3 DEF Deployments
  <1> QED
    BY <1>1, <1>4, NoDeploymentType DEF AppliedDeployment

\* Every step of the worker keeps the types, one case per action.
LEMMA ReconcileType == TypeOK /\ Reconcile => TypeOK'
  <1> SUFFICES ASSUME TypeOK, Reconcile PROVE TypeOK'
    OBVIOUS
  <1>w. w \in Workers /\ cIsvc \in Services /\ cDep \in Deployments
    BY DEF TypeOK
  <1>c. claim \in Claims /\ dep \in Deployments /\ so \in ScaledObjects
        /\ service \in BOOLEAN /\ pool \in BOOLEAN /\ isvc \in Services
    BY DEF TypeOK, ClusterTypeOK
  <1>s. w.spec \in Specs /\ w.spec.min \in 1 .. MaxReplicas /\ w.spec.max \in 1 .. MaxReplicas
    BY <1>w, UserSpecType DEF Workers
  <1>n. w.spec.min \in 0 .. MaxReplicas /\ w.spec.max \in 0 .. MaxReplicas
    BY <1>s, ClusterAssumption
  <1>p. "dep" \in Pcs /\ "create" \in Pcs /\ "replicas" \in Pcs /\ "apply" \in Pcs
        /\ "read" \in Pcs /\ "autoscale" \in Pcs /\ "verdict" \in Pcs /\ "route" \in Pcs
        /\ "finish" \in Pcs /\ "delete" \in Pcs /\ "status" \in Pcs /\ "claim" \in Pcs
    BY DEF Pcs
  <1>t. "retry" \in Timers /\ "poll" \in Timers /\ "drift" \in Timers
    BY DEF Timers
  <1>r. Return("retry") => w' \in Workers
    BY <1>w, <1>t, WorkerMoves DEF Return
  <1>g. \A pc \in Pcs : Goto(pc) => w' \in Workers
    BY <1>w, WorkerMoves DEF Goto
  <1>a. \A reason \in {"BackendNotSupported", "KEDANotInstalled", "ScalerReady",
                        "ScalerNotReady", "WaitingForKEDA"} :
           Autoscaling(reason) => w' \in Workers
    <2> SUFFICES ASSUME NEW reason \in {"BackendNotSupported", "KEDANotInstalled", "ScalerReady",
                                         "ScalerNotReady", "WaitingForKEDA"},
                        Autoscaling(reason)
                 PROVE  w' \in Workers
      OBVIOUS
    <2>1. [w.st EXCEPT !.aut = reason] \in Statuses
      BY <1>w DEF Workers, Statuses
    <2> QED
      BY <2>1, <1>w, <1>p, WorkerMoves DEF Autoscaling
  <1>1. CASE ReconcileNotFound
    <2>1. ClusterTypeOK' /\ crds' = crds
      BY <1>1, ClusterStays DEF ReconcileNotFound, TakeKey
    <2> QED
      BY <1>1, <2>1 DEF ReconcileNotFound, TakeKey, TypeOK, caches, Timers
  <1>2. CASE ReconcileRejected
    <2>1. [cIsvc.st EXCEPT !.adm = "PolicyViolation", !.phase = "Rejected"] \in Statuses
      BY <1>w DEF Services, Statuses
    <2> QED
      BY <1>2, <2>1, <1>p, BeginType DEF ReconcileRejected
  <1>3. CASE ReconcileAdmitted
    <2>1. [cIsvc.st EXCEPT !.adm = "PolicySatisfied"] \in Statuses
      BY <1>w DEF Services, Statuses
    <2> QED
      BY <1>3, <2>1, <1>p, BeginType DEF ReconcileAdmitted
  <1>4. CASE ApplyClaim
    <2>1. claim' \in Claims
      BY <1>4, <1>s, ClaimRequestType DEF ApplyClaim, AppliedClaim, Claims
    <2> QED
      BY <1>4, <2>1, <1>g, <1>p, OnlyClaimKeeps, WorkerStepType DEF ApplyClaim
  <1>5. CASE DropClaim
    <2>1. claim' \in Claims
      BY <1>5, <1>c, NoClaimType DEF DropClaim
    <2> QED
      BY <1>5, <2>1, <1>g, <1>p, OnlyClaimKeeps, WorkerStepType DEF DropClaim
  <1>6. CASE DeploymentMissing \/ DeploymentTerminating \/ DeploymentCurrent
    BY <1>6, <1>g, <1>r, <1>p, ClusterStays, WorkerStepType
    DEF DeploymentMissing, DeploymentTerminating, DeploymentCurrent, Look
  <1>7. CASE DeploymentOutdated
    <2>1. [w.st EXCEPT !.rdy = "RecreatingDeployment"] \in Statuses
      BY <1>w DEF Workers, Statuses
    <2>2. w' \in Workers
      BY <1>7, <2>1, <1>w, <1>p, WorkerMoves DEF DeploymentOutdated
    <2> QED
      BY <1>7, <2>2, ClusterStays, WorkerStepType DEF DeploymentOutdated, Look
  <1>8. CASE DeleteDeployment
    BY <1>8, <1>r, NoDeploymentType, OnlyDeploymentKeeps, WorkerStepType DEF DeleteDeployment
  <1>9. CASE CreateDeployment \/ UpdateDeployment
    BY <1>9, <1>g, <1>p, AppliedDeploymentType, OnlyDeploymentKeeps, WorkerStepType
    DEF CreateDeployment, UpdateDeployment, ApplyDeployment
  <1>10. CASE SetInitialReplicas
    <2> DEFINE o == IF dep.owner = "autoscaler" THEN dep.owner ELSE "initial"
    <2>0. dep' = [dep EXCEPT !.replicas = w.spec.min, !.owner = o]
      BY <1>10, <1>c DEF SetInitialReplicas, Deployments
    <2>1. dep' \in Deployments
      BY <2>0, <1>c, <1>n DEF Deployments
    <2> QED
      BY <1>10, <2>1, <1>g, <1>p, OnlyDeploymentKeeps, WorkerStepType DEF SetInitialReplicas
  <1>11. CASE ReadDeployment
    <2>1. cDep.ready \in BOOLEAN
      BY <1>w DEF Deployments
    <2>2. w' \in Workers
      BY <1>11, <2>1, <1>w, <1>r, WorkerMoves DEF ReadDeployment
    <2> QED
      BY <1>11, <2>2, ClusterStays, WorkerStepType DEF ReadDeployment
  <1>12. CASE ApplyService
    BY <1>12, <1>c, <1>g, <1>p, OnlyOtherKeeps, WorkerStepType DEF ApplyService
  <1>13. CASE DropScaledObject
    BY <1>13, <1>c, <1>a, NoScaledObjectType, OnlyOtherKeeps, WorkerStepType DEF DropScaledObject
  <1>14. CASE KEDAMissing
    BY <1>14, <1>a, ClusterStays, WorkerStepType DEF KEDAMissing
  <1>15. CASE ApplyScaledObject
    <2>1. so' \in ScaledObjects
      BY <1>15, <1>c, <1>n
      DEF ApplyScaledObject, DesiredScaledObject, ScaledObjects
    <2> QED
      BY <1>15, <2>1, <1>c, <1>g, <1>p, OnlyOtherKeeps, WorkerStepType DEF ApplyScaledObject
  <1>16. CASE ReadVerdict
    <2>1. Verdict \in {"ScalerReady", "ScalerNotReady", "WaitingForKEDA"}
      BY <1>c DEF Verdict, ScaledObjects
    <2>2. w' \in Workers
      BY <1>16, <2>1, <1>a, <1>r DEF ReadVerdict
    <2> QED
      BY <1>16, <2>2, ClusterStays, WorkerStepType DEF ReadVerdict
  <1>17. CASE ApplyInferencePool
    <2>1. [w.st EXCEPT !.rou = Routing] \in Statuses
      BY <1>w DEF Workers, Statuses, Routing
    <2>2. w' \in Workers
      BY <1>17, <2>1, <1>w, <1>p, WorkerMoves DEF ApplyInferencePool
    <2>3. pool' \in BOOLEAN
      BY <1>17 DEF ApplyInferencePool
    <2> QED
      BY <1>17, <2>2, <2>3, <1>c, OnlyOtherKeeps, WorkerStepType DEF ApplyInferencePool
  <1>18. CASE Finish
    <2> DEFINE st == [w.st EXCEPT
                         !.ready = w.ready, !.endpoint = TRUE, !.phase = FinalPhase,
                         !.rdy = IF w.ready THEN "MinimumReplicasAvailable"
                                 ELSE NotReadyReason(FinalPhase)]
    <2>1. /\ FinalPhase \in {"Ready", "Loading"} \cup PodTroubles
          /\ ~w.ready => NotReadyReason(FinalPhase) \in {"WeightsLoading"} \cup PodTroubles
      BY DEF FinalPhase, PodTrouble, NotReadyReason, PodTroubles
    <2>2. st \in Statuses
      BY <2>1, <1>w DEF Workers, Statuses
    <2>3. w' \in Workers
      BY <1>18, <2>2, <1>w, <1>p, <1>t DEF Finish, FinishWith, Workers
    <2> QED
      BY <1>18, <2>3, ClusterStays, WorkerStepType DEF Finish, FinishWith
  <1>19. CASE StatusUnchanged \/ StatusConflict
    <2>1. \E again \in Timers : Done(again) /\ UNCHANGED <<clusterVars, fresh, disruptions>>
      BY <1>19, <1>w, <1>t DEF StatusUnchanged, StatusConflict, Workers
    <2> QED
      BY <2>1, DoneType, ClusterStays DEF TypeOK
  <1>20. CASE UpdateStatus
    <2>1. BuiltStatus \in Statuses
      BY <1>w DEF BuiltStatus, Workers, Statuses
    <2>2. isvc' \in Services
      BY <1>20, <2>1, <1>c DEF UpdateStatus, Services
    <2>3. ClusterTypeOK' /\ crds' = crds
      BY <1>20, <2>2, OnlyIsvcKeeps DEF UpdateStatus
    <2>4. w.again \in Timers
      BY <1>w DEF Workers
    <2> QED
      BY <1>20, <2>3, <2>4, DoneType DEF UpdateStatus, TypeOK
  <1>21. CASE CallRefused
    BY <1>21, <1>r, ClusterStays, WorkerStepType DEF CallRefused
  <1> QED
    BY <1>1, <1>2, <1>3, <1>4, <1>5, <1>6, <1>7, <1>8, <1>9, <1>10, <1>11, <1>12, <1>13,
       <1>14, <1>15, <1>16, <1>17, <1>18, <1>19, <1>20, <1>21
    DEF Reconcile

-----------------------------------------------------------------------------
\* The informers keep the types.
LEMMA SyncType == TypeOK /\ (SyncIsvc \/ SyncDeployment \/ SyncClaim) => TypeOK'
  <1> SUFFICES ASSUME TypeOK, SyncIsvc \/ SyncDeployment \/ SyncClaim PROVE TypeOK'
    OBVIOUS
  <1>1. ClusterTypeOK' /\ crds' = crds
    BY ClusterStays DEF SyncIsvc, SyncDeployment, SyncClaim
  <1>2. isvc \in Services /\ dep \in Deployments /\ claim \in Claims
    BY DEF TypeOK, ClusterTypeOK
  <1>3. cDep \in Deployments /\ cClaim \in Claims
    BY DEF TypeOK
  <1>4. queued' \in BOOLEAN
    BY <1>2, <1>3
    DEF SyncIsvc, SyncDeployment, SyncClaim, EnqueueOwner, TypeOK, Deployments, Claims
  <1> QED
    BY <1>1, <1>2, <1>4 DEF SyncIsvc, SyncDeployment, SyncClaim, TypeOK

\* A write of a child by somebody else keeps the operator's own state in shape.
LEMMA ChildWrittenType ==
    ASSUME TypeOK, ChildWritten, ClusterTypeOK', crds \subseteq crds',
           disruptions' \in 0 .. MaxDisruptions
    PROVE  TypeOK'
  BY DEF TypeOK, ChildWritten, Events, caches

\* A write of the InferenceService by somebody else does too.
LEMMA IsvcWrittenType ==
    ASSUME TypeOK, IsvcWritten, ClusterTypeOK', crds' = crds,
           disruptions' \in 0 .. MaxDisruptions
    PROVE  TypeOK'
  BY WorkerMoves DEF TypeOK, IsvcWritten

\* The cluster's own controllers keep the types.
LEMMA CleanUpType == TypeOK /\ CleanUp => TypeOK'
  <1> SUFFICES ASSUME TypeOK, CleanUp PROVE TypeOK'
    OBVIOUS
  <1>1. CASE DeploymentTerminates \/ CollectDeployment
    BY <1>1, NoDeploymentType, OnlyDeploymentKeeps, ChildWrittenType
    DEF DeploymentTerminates, CollectDeployment, CleanUp, TypeOK
  <1>2. CASE CollectClaim
    BY <1>2, NoClaimType, OnlyClaimKeeps, ChildWrittenType
    DEF CollectClaim, CleanUp, TypeOK
  <1>3. CASE CollectOther
    BY <1>3, NoScaledObjectType, OnlyOtherKeeps, ChildWrittenType
    DEF CollectOther, CleanUp, TypeOK
  <1> QED
    BY <1>1, <1>2, <1>3 DEF CleanUp

\* What users write has the right types.
LEMMA UserType ==
    ASSUME TypeOK
    PROVE  /\ UserUpdates \/ UserDeletes => ClusterTypeOK' /\ crds' = crds
           /\ UserDeletesDeployment \/ UserDeletesOther \/ UserDeletesClaim \/ NameTaken
                 => ClusterTypeOK' /\ crds' = crds
           /\ CRDInstalled => ClusterTypeOK' /\ crds \subseteq crds'
  <1>c. dep \in Deployments /\ so \in ScaledObjects
        /\ service \in BOOLEAN /\ pool \in BOOLEAN /\ isvc \in Services
    BY DEF TypeOK, ClusterTypeOK
  <1>1. UserUpdates => isvc' \in Services /\ OnlyIsvc
    <2> SUFFICES ASSUME UserUpdates PROVE isvc' \in Services /\ OnlyIsvc
      OBVIOUS
    <2>1. PICK spec \in UserSpecs : isvc' = [isvc EXCEPT !.spec = spec, !.gen = isvc.gen + 1]
      BY DEF UserUpdates
    <2>2. isvc.gen + 1 \in Nat
      BY <1>c DEF Services
    <2> QED
      BY <2>1, <2>2, <1>c DEF UserUpdates, Services
  <1>2. UserDeletes => isvc' \in Services /\ OnlyIsvc
    BY <1>c DEF UserDeletes, Services
  <1>3. UserDeletesDeployment => dep' \in Deployments /\ OnlyDeployment
    BY <1>c, NoDeploymentType DEF UserDeletesDeployment, Deployments
  <1>4. UserDeletesOther =>
           so' \in ScaledObjects /\ service' \in BOOLEAN /\ pool' \in BOOLEAN /\ OnlyOther
    BY <1>c, NoScaledObjectType DEF UserDeletesOther
  <1>7. UserDeletesClaim => claim' \in Claims /\ OnlyClaim
    BY NoClaimType DEF UserDeletesClaim
  <1>5. NameTaken => dep' \in Deployments /\ OnlyDeployment
    BY NoDeploymentType DEF NameTaken
  <1>6. CRDInstalled => ClusterTypeOK' /\ crds \subseteq crds'
    BY DEF CRDInstalled, TypeOK, ClusterTypeOK
  <1> QED
    BY <1>1, <1>2, <1>3, <1>4, <1>5, <1>6, <1>7, OnlyIsvcKeeps, OnlyDeploymentKeeps,
       OnlyClaimKeeps, OnlyOtherKeeps

\* What the autoscaler, KEDA and the kubelet report has the right types.
LEMMA ReportType ==
    ASSUME TypeOK, AutoscalerScales \/ KubeletReports \/ KEDAReports \/ PodsChange
    PROVE  ClusterTypeOK' /\ crds' = crds
  <1>c. dep \in Deployments /\ so \in ScaledObjects
        /\ service \in BOOLEAN /\ pool \in BOOLEAN
    BY DEF TypeOK, ClusterTypeOK
  <1>1. CASE AutoscalerScales
    <2>1. PICK n \in so.min .. so.max :
             dep' = [dep EXCEPT !.replicas = n, !.owner = "autoscaler"]
      BY <1>1 DEF AutoscalerScales
    <2>2. so.min \in 0 .. MaxReplicas /\ so.max \in 0 .. MaxReplicas
      BY <1>c DEF ScaledObjects
    <2>3. n \in 0 .. MaxReplicas
      BY <2>1, <2>2, ClusterAssumption
    <2>4. dep' \in Deployments
      BY <2>1, <2>3, <1>c DEF Deployments
    <2> QED
      BY <1>1, <2>4, OnlyDeploymentKeeps DEF AutoscalerScales
  <1>2. CASE KubeletReports
    <2>1. dep' \in Deployments
      BY <1>2, <1>c DEF KubeletReports, Deployments
    <2> QED
      BY <1>2, <2>1, OnlyDeploymentKeeps DEF KubeletReports
  <1>3. CASE KEDAReports
    <2>1. so' \in ScaledObjects
      BY <1>3, <1>c DEF KEDAReports, ScaledObjects
    <2> QED
      BY <1>3, <2>1, <1>c, OnlyOtherKeeps DEF KEDAReports
  <1>4. CASE PodsChange
    BY <1>4 DEF PodsChange, TypeOK, ClusterTypeOK
  <1> QED
    BY <1>1, <1>2, <1>3, <1>4

\* Every disruption keeps the types, one case per kind.
LEMMA DisruptionType == TypeOK /\ Disruption => TypeOK'
  <1> SUFFICES ASSUME TypeOK, Disruption PROVE TypeOK'
    OBVIOUS
  <1>d. disruptions' \in 0 .. MaxDisruptions
    BY BoundAssumption DEF Disruption, TypeOK
  <1>1. CASE Restart
    <2>1. ClusterTypeOK' /\ crds' = crds
      BY <1>1, ClusterStays DEF Restart
    <2> QED
      BY <1>1, <1>d, <2>1, IdleWorkerType DEF Restart, TypeOK, ClusterTypeOK, Timers
  <1>2. CASE CallFails
    <2>1. ClusterTypeOK' /\ crds' = crds
      BY <1>2, ClusterStays DEF CallFails
    <2>2. w' \in Workers
      BY <1>2, WorkerMoves DEF CallFails, Return, TypeOK, Timers
    <2> QED
      BY <1>2, <1>d, <2>1, <2>2 DEF CallFails, TypeOK, caches
  <1>3. CASE StatusCallFails
    <2>1. ClusterTypeOK' /\ crds' = crds
      BY <1>3, ClusterStays DEF StatusCallFails
    <2>2. "retry" \in Timers
      BY DEF Timers
    <2> QED
      BY <1>3, <1>d, <2>1, <2>2, DoneType DEF StatusCallFails, TypeOK
  <1>4. CASE (UserUpdates \/ UserDeletes) /\ IsvcWritten
    BY <1>4, <1>d, UserType, IsvcWrittenType
  <1>5. CASE /\ UserDeletesDeployment \/ UserDeletesOther \/ UserDeletesClaim \/ NameTaken
             /\ ChildWritten
    BY <1>5, <1>d, UserType, ChildWrittenType
  <1>6. CASE (AutoscalerScales \/ KubeletReports \/ KEDAReports \/ PodsChange) /\ ChildWritten
    BY <1>6, <1>d, ReportType, ChildWrittenType
  <1>7. CASE CRDInstalled /\ ChildWritten
    BY <1>7, <1>d, UserType, ChildWrittenType
  <1> QED
    BY <1>1, <1>2, <1>3, <1>4, <1>5, <1>6, <1>7 DEF Disruption

\* Every step of the system keeps the types.
LEMMA TypeSteps == TypeOK /\ [Next]_vars => TypeOK'
  <1> SUFFICES ASSUME TypeOK, [Next]_vars PROVE TypeOK'
    OBVIOUS
  <1>1. CASE UNCHANGED vars
    BY <1>1 DEF vars, clusterVars, caches, TypeOK, ClusterTypeOK
  <1> QED
    BY <1>1, ReconcileType, SyncType, CleanUpType, DisruptionType DEF Next

\* Every reachable state has the declared types, for all values of the
\* constants: the replica counts stay within the bounds of the specs whoever
\* writes them, and only installed kinds are ever watched.
THEOREM TypeCorrect == Spec => []TypeOK
  BY InitType, TypeSteps, PTL DEF Spec
-----------------------------------------------------------------------------
(* Who writes what *)

OperatorWrites ==
    DeleteDeployment \/ CreateDeployment \/ UpdateDeployment \/ SetInitialReplicas
OthersWrite ==
    /\ w' = w /\ cDep' = cDep
    /\ \/ AutoscalerScales \/ KubeletReports
       \/ UserDeletesDeployment \/ DeploymentTerminates \/ CollectDeployment
       \/ "squat" \in Disruptors /\ NameTaken

\* A step that changes the Deployment is one of four API calls of the operator,
\* or a write by somebody else that leaves the worker where it is.
LEMMA DeploymentSteps ==
    ASSUME [Next]_vars
    PROVE  dep' = dep \/ OperatorWrites \/ OthersWrite
  <1>1. CASE UNCHANGED vars
    BY <1>1 DEF vars, clusterVars
  <1>2. CASE Reconcile
    <2>1. Reconcile => dep' = dep \/ OperatorWrites
      BY DEF Reconcile, OperatorWrites, ReconcileNotFound, ReconcileRejected,
             ReconcileAdmitted, TakeKey, ApplyClaim, DropClaim, OnlyClaim, Look,
             DeploymentMissing, DeploymentTerminating, DeploymentCurrent,
             DeploymentOutdated, ReadDeployment, ApplyService, OnlyOther,
             DropScaledObject, KEDAMissing, ApplyScaledObject, ReadVerdict,
             ApplyInferencePool, Finish, FinishWith, StatusUnchanged, UpdateStatus,
             OnlyIsvc, StatusConflict, CallRefused, clusterVars
    <2> QED
      BY <1>2, <2>1
  <1>3. CASE SyncIsvc \/ SyncDeployment \/ SyncClaim
    BY <1>3 DEF SyncIsvc, SyncDeployment, SyncClaim, clusterVars
  <1>4. CASE CleanUp
    BY <1>4 DEF CleanUp, OthersWrite, ChildWritten, caches, CollectClaim, CollectOther,
                OnlyClaim, OnlyOther
  <1>5. CASE Disruption
    BY <1>5
    DEF Disruption, OthersWrite, ChildWritten, caches, Restart, CallFails, StatusCallFails,
        UserUpdates, UserDeletes, UserDeletesOther, UserDeletesClaim, KEDAReports, PodsChange, CRDInstalled,
        OnlyIsvc, OnlyClaim, OnlyOther, clusterVars
  <1> QED
    BY <1>1, <1>2, <1>3, <1>4, <1>5 DEF Next

\* A step of the worker starts a pass, ends it, or goes on with the same spec,
\* the same generation and the same verdict; the status update comes last.
LEMMA WorkerSteps ==
    ASSUME TypeOK, [Next]_vars
    PROVE  \/ w'.pc = "idle"
           \/ ReconcileRejected \/ ReconcileAdmitted
           \/ /\ w.pc # "idle" /\ (w.pc = "status" => w'.pc = "status")
              /\ w'.spec = w.spec /\ w'.gen = w.gen /\ w'.st.adm = w.st.adm
  <1> DEFINE GoesOn == /\ w.pc # "idle" /\ (w.pc = "status" => w'.pc = "status")
                       /\ w'.spec = w.spec /\ w'.gen = w.gen /\ w'.st.adm = w.st.adm
  <1>w. w \in Workers
    BY DEF TypeOK
  <1>s. w.st \in Statuses
    BY <1>w DEF Workers
  <1>0. w' = w => w'.pc = "idle" \/ GoesOn
    OBVIOUS
  <1>1. \A pc \in Pcs : Goto(pc) /\ w.pc \notin {"idle", "status"} => GoesOn
    BY <1>w DEF Goto, Workers
  <1>2. \A again : Return(again) /\ w.pc # "idle" => GoesOn
    BY <1>w DEF Return, Workers
  <1>3. \A again : Done(again) => w'.pc = "idle"
    BY DEF Done, IdleWorker
  <1>4. \A reason : Autoscaling(reason) /\ w.pc \notin {"idle", "status"} => GoesOn
    BY <1>w, <1>s DEF Autoscaling, Workers, Statuses
  <1>p. /\ "dep" \in Pcs /\ "create" \in Pcs /\ "replicas" \in Pcs /\ "apply" \in Pcs
        /\ "read" \in Pcs /\ "autoscale" \in Pcs /\ "verdict" \in Pcs
    BY DEF Pcs
  <1>5. CASE Reconcile
    <2>1. CASE ReconcileNotFound
      BY <2>1, <1>0 DEF ReconcileNotFound
    <2>2. CASE ReconcileRejected \/ ReconcileAdmitted
      BY <2>2
    <2>3. CASE ApplyClaim \/ DropClaim
      BY <2>3, <1>1, <1>p DEF ApplyClaim, DropClaim, At
    <2>4. CASE DeploymentMissing \/ DeploymentTerminating \/ DeploymentCurrent
      BY <2>4, <1>1, <1>2, <1>p
      DEF DeploymentMissing, DeploymentTerminating, DeploymentCurrent, Look, At
    <2>5. CASE DeploymentOutdated
      BY <2>5, <1>w, <1>s DEF DeploymentOutdated, Look, At, Workers, Statuses
    <2>6. CASE DeleteDeployment \/ CreateDeployment \/ UpdateDeployment \/ SetInitialReplicas
      BY <2>6, <1>1, <1>2, <1>p
      DEF DeleteDeployment, CreateDeployment, UpdateDeployment, SetInitialReplicas,
          ApplyDeployment, At
    <2>7. CASE ReadDeployment
      BY <2>7, <1>w, <1>2 DEF ReadDeployment, At, Workers
    <2>8. CASE ApplyService \/ ApplyScaledObject
      BY <2>8, <1>1, <1>p DEF ApplyService, ApplyScaledObject, At
    <2>9. CASE DropScaledObject \/ KEDAMissing \/ ReadVerdict
      BY <2>9, <1>4, <1>2 DEF DropScaledObject, KEDAMissing, ReadVerdict, At
    <2>10. CASE ApplyInferencePool
      BY <2>10, <1>w, <1>s DEF ApplyInferencePool, At, Workers, Statuses
    <2>11. CASE Finish
      BY <2>11, <1>w, <1>s DEF Finish, FinishWith, At, Workers, Statuses
    <2>12. CASE StatusUnchanged \/ UpdateStatus \/ StatusConflict
      BY <2>12, <1>3 DEF StatusUnchanged, UpdateStatus, StatusConflict
    <2>13. CASE CallRefused
      BY <2>13, <1>2 DEF CallRefused, Refused, At
    <2> QED
      BY <1>5, <2>1, <2>2, <2>3, <2>4, <2>5, <2>6, <2>7, <2>8, <2>9, <2>10, <2>11, <2>12,
         <2>13 DEF Reconcile
  <1>6. CASE SyncIsvc \/ SyncDeployment \/ SyncClaim \/ CleanUp \/ UNCHANGED vars
    BY <1>6, <1>0 DEF SyncIsvc, SyncDeployment, SyncClaim, CleanUp, ChildWritten, vars
  <1>7. CASE Disruption
    <2>1. CASE Restart
      BY <2>1 DEF Restart, IdleWorker
    <2>2. CASE CallFails
      BY <2>2, <1>2 DEF CallFails
    <2>3. CASE StatusCallFails
      BY <2>3, <1>3 DEF StatusCallFails
    <2>4. CASE IsvcWritten
      BY <2>4, <1>w DEF IsvcWritten, Workers
    <2>5. CASE ChildWritten
      BY <2>5, <1>0 DEF ChildWritten
    <2> QED
      BY <1>7, <2>1, <2>2, <2>3, <2>4, <2>5 DEF Disruption
  <1> QED
    BY <1>5, <1>6, <1>7 DEF Next

\* The Deployment an apply of the operator leaves: the template is the spec's,
\* and the rest of an object that was there is kept.
LEMMA AppliedFields ==
    ASSUME TypeOK
    PROVE  /\ AppliedDeployment(w.spec).exists
           /\ AppliedDeployment(w.spec).tmpl = Template(w.spec)
           /\ dep.exists =>
                 /\ AppliedDeployment(w.spec).replicas = dep.replicas
                 /\ AppliedDeployment(w.spec).owner = dep.owner
                 /\ AppliedDeployment(w.spec).sel = dep.sel
           /\ ~dep.exists =>
                 /\ AppliedDeployment(w.spec).replicas = 1
                 /\ AppliedDeployment(w.spec).owner = "none"
                 /\ AppliedDeployment(w.spec).sel = "current"
  <1>1. dep \in Deployments
    BY DEF TypeOK, ClusterTypeOK
  <1> QED
    BY <1>1 DEF AppliedDeployment, CreatedDeployment, NoDeployment, Deployments

\* The Deployments nobody applied: none, somebody else's, an older operator's.
LEMMA FixedFields ==
    /\ ~NoDeployment.exists /\ NoDeployment.sel = "current"
    /\ NoDeployment.replicas = 0 /\ NoDeployment.owner = "none"
    /\ ForeignDeployment.exists /\ ForeignDeployment.sel = "foreign"
    /\ ForeignDeployment.replicas = 1 /\ ForeignDeployment.owner = "none"
    /\ ~ForeignDeployment.tmpl.claim
    /\ \A s : /\ LegacyDeployment(s).exists /\ LegacyDeployment(s).sel = "legacy"
              /\ LegacyDeployment(s).owner = "none"
  <1>1. /\ ~NoDeployment.exists /\ NoDeployment.sel = "current" /\ NoDeployment.replicas = 0
        /\ NoDeployment.owner = "none" /\ ~NoDeployment.tmpl.claim
    BY DEF NoDeployment, NoTemplate
  <1>2. NoDeployment \in Deployments
    BY NoDeploymentType
  <1>3. /\ ForeignDeployment.exists /\ ForeignDeployment.sel = "foreign"
        /\ ForeignDeployment.replicas = 1
        /\ ForeignDeployment.owner = NoDeployment.owner
        /\ ForeignDeployment.tmpl = NoDeployment.tmpl
    BY <1>2 DEF ForeignDeployment, Deployments
  <1>4. \A s : /\ LegacyDeployment(s).exists /\ LegacyDeployment(s).sel = "legacy"
               /\ LegacyDeployment(s).owner = NoDeployment.owner
    BY <1>2 DEF LegacyDeployment, Deployments
  <1> QED
    BY <1>1, <1>3, <1>4

\* A pod template names the claim template if and only if the spec has a device.
LEMMA TemplateClaim == \A s : Template(s).claim = (s.device # NoDevice)
  BY DEF Template

\* The four kinds of write of others, field by field.
LEMMA OthersFields ==
    ASSUME TypeOK, OthersWrite
    PROVE  \/ dep' = NoDeployment
           \/ "squat" \in Disruptors /\ ~dep.exists /\ dep' = ForeignDeployment
           \/ /\ dep.exists /\ dep'.exists /\ dep'.sel = dep.sel /\ dep'.tmpl = dep.tmpl
              /\ \/ dep'.owner = "autoscaler" /\ dep'.replicas \in 0 .. MaxReplicas
                 \/ dep'.owner = dep.owner /\ dep'.replicas = dep.replicas
  <1>1. dep \in Deployments /\ so \in ScaledObjects
    BY DEF TypeOK, ClusterTypeOK
  <1>2. CASE AutoscalerScales
    <2>1. PICK n \in so.min .. so.max :
             dep' = [dep EXCEPT !.replicas = n, !.owner = "autoscaler"]
      BY <1>2 DEF AutoscalerScales
    <2>2. so.min \in 0 .. MaxReplicas /\ so.max \in 0 .. MaxReplicas
      BY <1>1 DEF ScaledObjects
    <2>3. n \in 0 .. MaxReplicas
      BY <2>1, <2>2, ClusterAssumption
    <2> QED
      BY <1>1, <1>2, <2>1, <2>3 DEF AutoscalerScales, Deployments
  <1>3. CASE KubeletReports
    BY <1>1, <1>3 DEF KubeletReports, Deployments
  <1>4. CASE UserDeletesDeployment
    BY <1>1, <1>4 DEF UserDeletesDeployment, Deployments
  <1>5. CASE DeploymentTerminates \/ CollectDeployment
    BY <1>5 DEF DeploymentTerminates, CollectDeployment
  <1>6. CASE "squat" \in Disruptors /\ NameTaken
    BY <1>6 DEF NameTaken
  <1> QED
    BY <1>2, <1>3, <1>4, <1>5, <1>6 DEF OthersWrite

\* What createDeployment's second apply leaves alone.
LEMMA InitialReplicasFields ==
    ASSUME TypeOK, SetInitialReplicas
    PROVE  /\ dep.exists /\ dep'.exists /\ dep'.sel = dep.sel /\ dep'.tmpl = dep.tmpl
           /\ dep'.replicas = w.spec.min /\ w.spec.min \in 1 .. MaxReplicas
           /\ IF dep.owner = "autoscaler"
              THEN dep'.owner = "autoscaler" /\ dep'.replicas = dep.replicas
              ELSE dep'.owner = "initial"
  <1>1. dep \in Deployments /\ w.spec \in UserSpecs
    BY DEF TypeOK, ClusterTypeOK, Workers
  <1> DEFINE o == IF dep.owner = "autoscaler" THEN dep.owner ELSE "initial"
  <1>2. dep' = [dep EXCEPT !.replicas = w.spec.min, !.owner = o]
    BY <1>1 DEF SetInitialReplicas, Deployments
  <1> QED
    BY <1>1, <1>2, UserSpecType DEF SetInitialReplicas, ReplicasAccepted, Deployments

\* Where reconcile is once the claim template has been dealt with and until the
\* Deployment is written.
Deploying == {"dep", "delete", "create", "replicas", "apply"}

Outdated(d) == d.exists /\ d.sel # "current"
Current(d)  == d.exists /\ d.sel = "current"

\* The worker gets to where it deploys through the claim template's call, to
\* the second apply of createDeployment through the first, and to the writes of
\* the Deployment as the first read says.
LEMMA DeployingPcs ==
    ASSUME TypeOK, [Next]_vars
    PROVE  /\ w'.pc \in Deploying =>
                 /\ w'.spec = w.spec
                 /\ w.pc \in Deploying \/ ApplyClaim \/ (DropClaim /\ w.spec.device = NoDevice)
           /\ w'.pc = "replicas" => w.pc = "replicas" \/ CreateDeployment
           /\ w'.pc \in {"create", "replicas", "apply"} =>
                 \/ w.pc \in {"create", "replicas", "apply"}
                 \/ At("dep") /\ ~Outdated(cDep) /\ cDep' = cDep
           /\ w'.pc = "delete" => w.pc = "delete" \/ (Outdated(cDep) /\ dep' = dep)
  <1> DEFINE Goal ==
           /\ w'.pc \in Deploying =>
                 /\ w'.spec = w.spec
                 /\ w.pc \in Deploying \/ ApplyClaim \/ (DropClaim /\ w.spec.device = NoDevice)
           /\ w'.pc = "replicas" => w.pc = "replicas" \/ CreateDeployment
           /\ w'.pc \in {"create", "replicas", "apply"} =>
                 \/ w.pc \in {"create", "replicas", "apply"}
                 \/ At("dep") /\ ~Outdated(cDep) /\ cDep' = cDep
           /\ w'.pc = "delete" => w.pc = "delete" \/ (Outdated(cDep) /\ dep' = dep)
  <1>w. w \in Workers
    BY DEF TypeOK
  <1>0. w' = w => Goal
    OBVIOUS
  <1>1. w'.pc \in {"idle", "status", "claim", "read", "service", "autoscale",
                   "verdict", "route", "finish"} => Goal
    BY DEF Deploying
  <1>2. \A pc : Goto(pc) => w'.pc = pc /\ w'.spec = w.spec
    BY <1>w DEF Goto, Workers
  <1>3. \A again : Return(again) => w'.pc = "status"
    BY <1>w DEF Return, Workers
  <1>4. \A again : Done(again) => w'.pc = "idle"
    BY DEF Done, IdleWorker
  <1>5. \A reason : Autoscaling(reason) => w'.pc = "route"
    BY <1>w DEF Autoscaling, Workers
  <1>6. CASE Reconcile
    <2>1. CASE ReconcileNotFound \/ ReconcileRejected \/ ReconcileAdmitted
      BY <2>1, <1>0, <1>1 DEF ReconcileNotFound, ReconcileRejected, ReconcileAdmitted, Begin
    <2>2. CASE ApplyClaim \/ DropClaim
      BY <2>2, <1>2 DEF ApplyClaim, DropClaim
    <2>3. CASE DeploymentMissing \/ DeploymentCurrent
      BY <2>3, <1>2
      DEF DeploymentMissing, DeploymentCurrent, Look, Step, caches, At, Deploying, Outdated
    <2>4. CASE DeploymentTerminating \/ DeleteDeployment
      BY <2>4, <1>1, <1>3 DEF DeploymentTerminating, DeleteDeployment
    <2>5. CASE DeploymentOutdated
      BY <2>5, <1>w DEF DeploymentOutdated, Look, clusterVars, At, Deploying, Outdated, Workers
    <2>6. CASE CreateDeployment \/ SetInitialReplicas
      BY <2>6, <1>2 DEF CreateDeployment, SetInitialReplicas, ApplyDeployment, At, Deploying
    <2>7. CASE UpdateDeployment \/ ApplyService \/ ApplyScaledObject
      BY <2>7, <1>1, <1>2 DEF UpdateDeployment, ApplyDeployment, ApplyService, ApplyScaledObject
    <2>8. CASE ReadDeployment
      BY <2>8, <1>1, <1>3, <1>w DEF ReadDeployment, Workers
    <2>9. CASE DropScaledObject \/ KEDAMissing \/ ReadVerdict
      BY <2>9, <1>1, <1>3, <1>5 DEF DropScaledObject, KEDAMissing, ReadVerdict
    <2>10. CASE ApplyInferencePool \/ Finish
      BY <2>10, <1>1, <1>w DEF ApplyInferencePool, Finish, FinishWith, Workers
    <2>11. CASE StatusUnchanged \/ UpdateStatus \/ StatusConflict
      BY <2>11, <1>1, <1>4 DEF StatusUnchanged, UpdateStatus, StatusConflict
    <2>12. CASE CallRefused
      BY <2>12, <1>1, <1>3 DEF CallRefused
    <2> QED
      BY <1>6, <2>1, <2>2, <2>3, <2>4, <2>5, <2>6, <2>7, <2>8, <2>9, <2>10, <2>11, <2>12
      DEF Reconcile
  <1>7. CASE SyncIsvc \/ SyncDeployment \/ SyncClaim \/ CleanUp \/ UNCHANGED vars
    BY <1>7, <1>0 DEF SyncIsvc, SyncDeployment, SyncClaim, CleanUp, ChildWritten, vars
  <1>8. CASE Disruption
    <2>1. CASE Restart
      BY <2>1, <1>1 DEF Restart, IdleWorker
    <2>2. CASE CallFails \/ StatusCallFails
      BY <2>2, <1>1, <1>3, <1>4 DEF CallFails, StatusCallFails
    <2>3. CASE IsvcWritten
      <3>1. w'.pc = w.pc /\ w'.spec = w.spec
        BY <2>3, <1>w DEF IsvcWritten, Workers
      <3> QED
        BY <3>1
    <2>4. CASE ChildWritten
      BY <2>4, <1>0 DEF ChildWritten
    <2> QED
      BY <1>8, <2>1, <2>2, <2>3, <2>4 DEF Disruption
  <1> QED
    BY <1>6, <1>7, <1>8 DEF Next

-----------------------------------------------------------------------------
(* ADR-0004 *)

\* No step of the operator, in any state and under any mix of disruptions,
\* changes a count the autoscaler owns: the applies of createDeployment and
\* reconcileDeployment never write it, and the apply of the initial count is
\* refused unless it says what the autoscaler said.
THEOREM ScaledCountSafe == Spec => AutoscalerCountSurvives
  <1> DEFINE Survives == w' # w /\ dep.exists /\ dep'.exists /\ dep.owner = "autoscaler"
                            => dep'.replicas = dep.replicas /\ dep'.owner = "autoscaler"
  <1>1. TypeOK /\ [Next]_vars => [Survives]_vars
    <2> SUFFICES ASSUME TypeOK, [Next]_vars PROVE Survives
      OBVIOUS
    <2>1. CASE dep' = dep \/ OthersWrite
      BY <2>1 DEF OthersWrite
    <2>2. CASE DeleteDeployment
      BY <2>2 DEF DeleteDeployment, NoDeployment
    <2>3. CASE CreateDeployment \/ UpdateDeployment
      BY <2>3, AppliedFields DEF CreateDeployment, UpdateDeployment, ApplyDeployment
    <2>4. CASE SetInitialReplicas
      BY <2>4, InitialReplicasFields
    <2> QED
      BY <2>1, <2>2, <2>3, <2>4, DeploymentSteps DEF OperatorWrites
  <1> QED
    BY <1>1, TypeCorrect, PTL DEF Spec, AutoscalerCountSurvives

\* An absent Deployment has no count and no owner of one.
AbsentIsEmpty == ~dep.exists => dep.replicas = 0 /\ dep.owner = "none"

\* Needed for the refinement: a Deployment that goes leaves nothing behind for
\* the next one.
LEMMA AbsentIsEmptyHolds == Spec => []AbsentIsEmpty
  <1>1. Init => AbsentIsEmpty
    BY FixedFields DEF Init, ClusterInit, AbsentIsEmpty
  <1>2. TypeOK /\ AbsentIsEmpty /\ [Next]_vars => AbsentIsEmpty'
    <2> SUFFICES ASSUME TypeOK, AbsentIsEmpty, [Next]_vars PROVE AbsentIsEmpty'
      OBVIOUS
    <2>1. CASE dep' = dep
      BY <2>1 DEF AbsentIsEmpty
    <2>2. CASE DeleteDeployment
      BY <2>2 DEF DeleteDeployment, NoDeployment, AbsentIsEmpty
    <2>3. CASE CreateDeployment \/ UpdateDeployment
      BY <2>3, AppliedFields DEF CreateDeployment, UpdateDeployment, ApplyDeployment, AbsentIsEmpty
    <2>4. CASE SetInitialReplicas
      BY <2>4, InitialReplicasFields DEF AbsentIsEmpty
    <2>5. CASE OthersWrite
      BY <2>5, OthersFields, FixedFields DEF AbsentIsEmpty
    <2> QED
      BY <2>1, <2>2, <2>3, <2>4, <2>5, DeploymentSteps DEF OperatorWrites
  <1> QED
    BY <1>1, <1>2, TypeCorrect, PTL DEF Spec

\* The reconciler implements ADR-0004: every step of the whole system writes the
\* replica count as ReplicaOwnership allows, or not at all.
THEOREM ImplementsADR0004 == Spec => ReplicasAsInADR0004
  <1>1. Init => Replicas!Init
    <2> SUFFICES ASSUME Init PROVE Replicas!Init
      OBVIOUS
    <2>1. dep \in Deployments
      BY InitType DEF TypeOK, ClusterTypeOK
    <2>2. dep.owner = "none"
      BY FixedFields DEF Init, ClusterInit
    <2> QED
      BY <2>1, <2>2 DEF Replicas!Init, Replicas!Counts, Deployments
  <1>2. TypeOK /\ AbsentIsEmpty /\ AbsentIsEmpty' /\ [Next]_vars => [Replicas!Next]_(Replicas!vars)
    <2> SUFFICES ASSUME TypeOK, AbsentIsEmpty, AbsentIsEmpty', [Next]_vars
                 PROVE  [Replicas!Next]_(Replicas!vars)
      OBVIOUS
    <2> DEFINE Stutter == UNCHANGED Replicas!vars
    <2>0. dep \in Deployments
      BY DEF TypeOK, ClusterTypeOK
    <2>1. CASE dep' = dep
      BY <2>1 DEF Replicas!vars
    <2>2. CASE dep' = NoDeployment
      <3>1. CASE dep.exists
        BY <2>2, <3>1 DEF NoDeployment, Replicas!Next, Replicas!Disappear
      <3>2. CASE ~dep.exists
        BY <2>0, <2>2, <3>2 DEF NoDeployment, AbsentIsEmpty, Replicas!vars, Deployments
      <3> QED
        BY <3>1, <3>2
    <2>3. CASE CreateDeployment \/ UpdateDeployment
      <3>1. dep' = AppliedDeployment(w.spec)
        BY <2>3 DEF CreateDeployment, UpdateDeployment, ApplyDeployment
      <3>2. CASE dep.exists
        BY <2>0, <3>1, <3>2, AppliedFields DEF Replicas!vars, Deployments,
           AppliedDeployment
      <3>3. CASE ~dep.exists
        BY <3>1, <3>3, <2>0, AppliedFields DEF Replicas!Next, Replicas!Appear, Deployments,
           AppliedDeployment, CreatedDeployment, NoDeployment
      <3> QED
        BY <3>2, <3>3
    <2>4. CASE SetInitialReplicas
      <3>1. /\ dep.exists /\ dep'.exists /\ dep'.replicas \in 1 .. MaxReplicas
            /\ IF dep.owner = "autoscaler"
               THEN dep'.owner = "autoscaler" /\ dep'.replicas = dep.replicas
               ELSE dep'.owner = "initial"
        BY <2>4, InitialReplicasFields
      <3>2. dep'.exists = dep.exists
        BY <2>4, <2>0 DEF SetInitialReplicas, Deployments
      <3>3. dep'.replicas \in Replicas!Counts \ {0}
        BY <3>1, ClusterAssumption DEF Replicas!Counts
      <3>4. CASE dep.owner = "autoscaler"
        BY <3>1, <3>2, <3>4 DEF Replicas!vars
      <3>5. CASE dep.owner # "autoscaler"
        <4>1. dep.owner \in {"none", "initial"}
          BY <2>0, <3>5 DEF Deployments
        <4> QED
          BY <3>1, <3>2, <3>3, <3>5, <4>1 DEF Replicas!Next, Replicas!SetInitial
      <3> QED
        BY <3>4, <3>5
    <2>5. CASE OthersWrite /\ dep' # NoDeployment
      <3>1. CASE ~dep.exists /\ dep' = ForeignDeployment
        BY <2>0, <3>1 DEF Replicas!Next, Replicas!Appear, ForeignDeployment, NoDeployment
      <3>2. CASE dep.exists /\ dep'.exists
        <4>1. dep'.exists = dep.exists
          <5>1. dep' \in Deployments
            BY <2>5, <2>0, NoDeploymentType, OthersFields
            DEF OthersWrite, KubeletReports, UserDeletesDeployment, AutoscalerScales,
                DeploymentTerminates, CollectDeployment, NameTaken, Deployments
          <5> QED
            BY <5>1, <2>0, <3>2 DEF Deployments
        <4>2. CASE dep'.owner = "autoscaler" /\ dep'.replicas \in 0 .. MaxReplicas
          BY <3>2, <4>1, <4>2 DEF Replicas!Next, Replicas!Scale, Replicas!Counts
        <4>3. CASE dep'.owner = dep.owner /\ dep'.replicas = dep.replicas
          BY <4>1, <4>3 DEF Replicas!vars
        <4> QED
          BY <2>5, <3>2, <4>2, <4>3, OthersFields
      <3> QED
        BY <2>5, <3>1, <3>2, OthersFields
    <2>6. CASE DeleteDeployment
      BY <2>2, <2>6 DEF DeleteDeployment
    <2> QED
      BY <2>1, <2>2, <2>3, <2>4, <2>5, <2>6, DeploymentSteps DEF OperatorWrites
  <1> QED
    BY <1>1, <1>2, TypeCorrect, AbsentIsEmptyHolds, PTL
    DEF Spec, ReplicasAsInADR0004, Replicas!Spec

-----------------------------------------------------------------------------
(* The placement policy *)

\* A pass that is past the verdict works on a spec within the policy: the
\* worker keeps the spec it judged, however often the user writes meanwhile.
PassWithinPolicy == w.pc \notin {"idle", "status"} => ~PolicyViolation(w.spec)
PolicyInv        == DeployedWithinPolicy /\ PassWithinPolicy

\* Every step keeps it.
LEMMA PolicySteps == TypeOK /\ PolicyInv /\ [Next]_vars => PolicyInv'
  <1> SUFFICES ASSUME TypeOK, PolicyInv, [Next]_vars PROVE PolicyInv'
    OBVIOUS
  <1>w. w \in Workers /\ w.spec \in Specs /\ cIsvc \in Services
    BY UserSpecType DEF TypeOK, Workers
  <1>1. DeployedWithinPolicy'
    <2>1. CASE dep' = dep
      <3>1. DeployedWithinPolicy
        BY DEF PolicyInv
      <3> QED
        BY <2>1, <3>1 DEF DeployedWithinPolicy
    <2>2. CASE DeleteDeployment
      BY <2>2, FixedFields DEF DeleteDeployment, DeployedWithinPolicy
    <2>3. CASE CreateDeployment \/ UpdateDeployment
      <3>1. dep' = AppliedDeployment(w.spec) /\ ~PolicyViolation(w.spec)
        BY <2>3 DEF CreateDeployment, UpdateDeployment, ApplyDeployment, At, PolicyInv,
                    PassWithinPolicy
      <3>2. dep'.tmpl = Template(w.spec)
        BY <3>1, AppliedFields
      <3> QED
        <4>1. /\ w.spec.class = "Restricted" => w.spec.backend = "vLLM"
              /\ w.spec.backend = "vLLM" => w.spec.device # NoDevice
          BY <3>1, <1>w DEF PolicyViolation, Specs, Backends
        <4>2. /\ dep'.tmpl.class = w.spec.class /\ dep'.tmpl.backend = w.spec.backend
              /\ dep'.tmpl.claim = (w.spec.device # NoDevice)
          BY <3>2 DEF Template
        <4> QED
          BY <4>1, <4>2 DEF DeployedWithinPolicy
    <2>4. CASE SetInitialReplicas
      BY <2>4, InitialReplicasFields DEF PolicyInv, DeployedWithinPolicy
    <2>5. CASE OthersWrite
      BY <2>5, OthersFields, FixedFields DEF PolicyInv, DeployedWithinPolicy
    <2> QED
      BY <2>1, <2>2, <2>3, <2>4, <2>5, DeploymentSteps DEF OperatorWrites
  <1>2. PassWithinPolicy'
    <2>1. ReconcileRejected => w'.pc = "status"
      BY DEF ReconcileRejected, Begin
    <2>2. ReconcileAdmitted => ~PolicyViolation(w'.spec)
      BY DEF ReconcileAdmitted, Begin
    <2> QED
      BY <2>1, <2>2, WorkerSteps DEF PolicyInv, PassWithinPolicy
  <1> QED
    BY <1>1, <1>2 DEF PolicyInv

\* Whatever CRD is installed and whatever the user writes, every Deployment with
\* the operator's selector keeps the placement policy.
THEOREM PolicyKept == Spec => []DeployedWithinPolicy
  <1>1. Init => PolicyInv
    BY FixedFields
    DEF Init, ClusterInit, PolicyInv, DeployedWithinPolicy, PassWithinPolicy, IdleWorker
  <1>2. PolicyInv => DeployedWithinPolicy
    BY DEF PolicyInv
  <1> QED
    BY <1>1, <1>2, PolicySteps, TypeCorrect, PTL DEF Spec

-----------------------------------------------------------------------------
(* The recreate path *)

\* While the cache shows an outdated Deployment there is no current one; an
\* outdated one is always in the cache, so a pass that found none may create; a
\* pass about to delete has no current one in front of it.
RecreateInv ==
    /\ Outdated(dep) => Outdated(cDep)
    /\ Outdated(cDep) => ~Current(dep)
    /\ w.pc \in {"create", "replicas", "apply"} => ~Outdated(cDep)
    /\ w.pc = "delete" => ~Current(dep)

\* The cache shows what it showed, or what is there.
LEMMA CacheSteps ==
    ASSUME [Next]_vars
    PROVE  cDep' = cDep \/ (cDep' = dep /\ dep' = dep)
  <1>1. CASE UNCHANGED vars
    BY <1>1 DEF vars, caches
  <1>2. CASE Reconcile
    BY <1>2
    DEF Reconcile, ReconcileNotFound, ReconcileRejected, ReconcileAdmitted, TakeKey, ApplyClaim,
        DropClaim, Look, DeploymentMissing, DeploymentTerminating, DeploymentCurrent,
        DeploymentOutdated, DeleteDeployment, CreateDeployment, UpdateDeployment, ApplyDeployment,
        SetInitialReplicas, ReadDeployment, ApplyService, DropScaledObject, KEDAMissing,
        ApplyScaledObject, ReadVerdict, ApplyInferencePool, Finish, FinishWith, StatusUnchanged,
        UpdateStatus, StatusConflict, CallRefused, Step, Done, caches
  <1>3. CASE SyncIsvc \/ SyncDeployment \/ SyncClaim \/ CleanUp
    BY <1>3 DEF SyncIsvc, SyncDeployment, SyncClaim, CleanUp, ChildWritten, caches, clusterVars
  <1>4. CASE Disruption
    BY <1>4
    DEF Disruption, Restart, CallFails, StatusCallFails, Done, IsvcWritten, ChildWritten, caches,
        clusterVars
  <1> QED
    BY <1>1, <1>2, <1>3, <1>4 DEF Next

\* The caches start as copies of what is there.
LEMMA RecreateStart == Init => RecreateInv
  BY DEF Init, ClusterInit, RecreateInv, IdleWorker, Outdated, Current

\* Every step keeps it as long as nobody else takes the name.
LEMMA RecreateSteps ==
    ASSUME "squat" \notin Disruptors
    PROVE  TypeOK /\ RecreateInv /\ [Next]_vars => RecreateInv'
  <1> SUFFICES ASSUME TypeOK, RecreateInv, [Next]_vars PROVE RecreateInv'
    OBVIOUS
  <1>1. Outdated(dep') => Outdated(dep) /\ w.pc \notin {"create", "replicas", "apply"}
    <2>1. CASE dep' = dep
      BY <2>1 DEF RecreateInv
    <2>2. CASE DeleteDeployment
      BY <2>2, FixedFields DEF DeleteDeployment, Outdated
    <2>3. CASE CreateDeployment \/ UpdateDeployment
      BY <2>3, AppliedFields
      DEF CreateDeployment, UpdateDeployment, ApplyDeployment, SelectorAccepted, Outdated
    <2>4. CASE SetInitialReplicas
      BY <2>4, InitialReplicasFields DEF Outdated, RecreateInv
    <2>5. CASE OthersWrite
      BY <2>5, OthersFields, FixedFields DEF Outdated, RecreateInv
    <2> QED
      BY <2>1, <2>2, <2>3, <2>4, <2>5, DeploymentSteps DEF OperatorWrites
  <1>2. Current(dep') => Current(dep) \/ (w.pc \in {"create", "apply"} /\ w'.pc # "delete")
    <2>1. CASE dep' = dep
      BY <2>1
    <2>2. CASE DeleteDeployment
      BY <2>2, FixedFields DEF DeleteDeployment, Current
    <2>3. CASE CreateDeployment \/ UpdateDeployment
      <3>1. w'.pc \in {"replicas", "read"}
        BY <2>3 DEF CreateDeployment, UpdateDeployment, ApplyDeployment, Goto, TypeOK, Workers
      <3> QED
        BY <2>3, <3>1 DEF CreateDeployment, UpdateDeployment, At
    <2>4. CASE SetInitialReplicas
      BY <2>4, InitialReplicasFields DEF Current
    <2>5. CASE OthersWrite
      BY <2>5, OthersFields, FixedFields DEF Current
    <2> QED
      BY <2>1, <2>2, <2>3, <2>4, <2>5, DeploymentSteps DEF OperatorWrites
  <1>3. cDep' = cDep \/ (cDep' = dep /\ dep' = dep)
    BY CacheSteps
  <1>4. (Outdated(dep) => Outdated(cDep))'
    BY <1>1, <1>3 DEF RecreateInv, Outdated
  <1>5. (Outdated(cDep) => ~Current(dep))'
    BY <1>2, <1>3 DEF RecreateInv, Outdated, Current
  <1>6. (w.pc \in {"create", "replicas", "apply"} => ~Outdated(cDep))'
    BY <1>3, DeployingPcs DEF RecreateInv, Outdated
  <1>7. (w.pc = "delete" => ~Current(dep))'
    BY <1>2, DeployingPcs DEF RecreateInv, Current, Outdated
  <1> QED
    BY <1>4, <1>5, <1>6, <1>7 DEF RecreateInv

\* As long as nobody else takes the name, the recreate path never deletes a
\* Deployment that has the current selector, however old the cache it decides on.
THEOREM CurrentKept ==
    ASSUME "squat" \notin Disruptors
    PROVE  Spec => CurrentDeploymentKept
  <1> DEFINE Kept == w' # w /\ dep.exists /\ dep.sel = "current" => dep'.exists
  <1>1. TypeOK /\ RecreateInv /\ [Next]_vars => [Kept]_vars
    <2> SUFFICES ASSUME TypeOK, RecreateInv, [Next]_vars PROVE Kept
      OBVIOUS
    <2>1. CASE DeleteDeployment
      BY <2>1 DEF DeleteDeployment, At, RecreateInv, Current
    <2>2. CASE CreateDeployment \/ UpdateDeployment
      BY <2>2, AppliedFields DEF CreateDeployment, UpdateDeployment, ApplyDeployment
    <2>3. CASE SetInitialReplicas
      BY <2>3, InitialReplicasFields
    <2>4. CASE dep' = dep \/ OthersWrite
      BY <2>4 DEF OthersWrite
    <2> QED
      BY <2>1, <2>2, <2>3, <2>4, DeploymentSteps DEF OperatorWrites
  <1> QED
    BY <1>1, RecreateStart, RecreateSteps, TypeCorrect, PTL DEF Spec, CurrentDeploymentKept

-----------------------------------------------------------------------------
(* The claim template comes first *)

\* A pass that deploys a spec with a device has its claim template in the
\* cluster; between the two applies of createDeployment a template that names
\* it is the pass's own.
ClaimInv ==
    /\ isvc.exists /\ w.pc \in Deploying /\ w.spec.device # NoDevice =>
          claim.exists /\ claim.req = ClaimRequest(w.spec)
    /\ w.pc = "replicas" /\ dep.exists /\ dep.tmpl.claim => w.spec.device # NoDevice

\* The claim template changes when the worker is at it, or when the service is
\* gone, or when a user takes it away; and a service that is gone stays so.
LEMMA ClaimSteps ==
    ASSUME TypeOK, [Next]_vars, "unclaim" \notin Disruptors
    PROVE  /\ claim' = claim \/ ApplyClaim \/ DropClaim \/ ~isvc'.exists
           /\ isvc'.exists => isvc.exists
  <1>i. isvc \in Services
    BY DEF TypeOK, ClusterTypeOK
  <1>1. CASE UNCHANGED vars
    BY <1>1 DEF vars, clusterVars
  <1>2. CASE Reconcile
    <2>1. claim' = claim \/ ApplyClaim \/ DropClaim
      BY <1>2
      DEF Reconcile, ReconcileNotFound, ReconcileRejected, ReconcileAdmitted, TakeKey, Look,
          DeploymentMissing, DeploymentTerminating, DeploymentCurrent, DeploymentOutdated,
          DeleteDeployment, CreateDeployment, UpdateDeployment, ApplyDeployment,
          SetInitialReplicas, ReadDeployment, ApplyService, DropScaledObject, KEDAMissing,
          ApplyScaledObject, ReadVerdict, ApplyInferencePool, Finish, FinishWith,
          StatusUnchanged, UpdateStatus, StatusConflict, CallRefused, clusterVars,
          OnlyDeployment, OnlyOther, OnlyIsvc
    <2>2. isvc' = isvc \/ UpdateStatus
      BY <1>2
      DEF Reconcile, ReconcileNotFound, ReconcileRejected, ReconcileAdmitted, TakeKey, Look,
          ApplyClaim, DropClaim,
          DeploymentMissing, DeploymentTerminating, DeploymentCurrent, DeploymentOutdated,
          DeleteDeployment, CreateDeployment, UpdateDeployment, ApplyDeployment,
          SetInitialReplicas, ReadDeployment, ApplyService, DropScaledObject, KEDAMissing,
          ApplyScaledObject, ReadVerdict, ApplyInferencePool, Finish, FinishWith,
          StatusUnchanged, StatusConflict, CallRefused, clusterVars,
          OnlyDeployment, OnlyClaim, OnlyOther
    <2>3. UpdateStatus => isvc.exists
      BY DEF UpdateStatus
    <2> QED
      BY <2>1, <2>2, <2>3
  <1>3. CASE SyncIsvc \/ SyncDeployment \/ SyncClaim
    BY <1>3 DEF SyncIsvc, SyncDeployment, SyncClaim, clusterVars
  <1>4. CASE CleanUp
    BY <1>4
    DEF CleanUp, DeploymentTerminates, CollectDeployment, CollectClaim, CollectOther,
        OnlyDeployment, OnlyClaim, OnlyOther
  <1>5. CASE Disruption
    <2>1. CASE Restart \/ CallFails \/ StatusCallFails
      BY <2>1 DEF Restart, CallFails, StatusCallFails, clusterVars
    <2>2. CASE UserUpdates \/ UserDeletes
      BY <2>2, <1>i DEF UserUpdates, UserDeletes, OnlyIsvc, Services
    <2>3. CASE UserDeletesDeployment \/ UserDeletesOther \/ NameTaken \/ AutoscalerScales
               \/ KubeletReports \/ KEDAReports \/ PodsChange \/ CRDInstalled
      BY <2>3
      DEF UserDeletesDeployment, UserDeletesOther, NameTaken, AutoscalerScales, KubeletReports,
          KEDAReports, PodsChange, CRDInstalled, OnlyDeployment, OnlyOther
    <2> QED
      BY <1>5, <2>1, <2>2, <2>3 DEF Disruption
  <1> QED
    BY <1>1, <1>2, <1>3, <1>4, <1>5 DEF Next

\* Between two reads of the cluster by anybody, a pass never writes a pod
\* template that names a claim template that is not there, or that asks for
\* another device than the spec the pass works on.
THEOREM ClaimComesFirst ==
    ASSUME "unclaim" \notin Disruptors
    PROVE  Spec => ClaimBeforeDeployment
  <1> DEFINE First == isvc.exists /\ w' # w /\ dep' # dep /\ dep'.exists /\ dep'.tmpl.claim =>
                         claim.exists /\ claim.req = ClaimRequest(w.spec)
  <1>1. Init => ClaimInv
    BY DEF Init, ClaimInv, IdleWorker, Deploying
  <1>2. TypeOK /\ ClaimInv /\ [Next]_vars => ClaimInv'
    <2> SUFFICES ASSUME TypeOK, ClaimInv, [Next]_vars PROVE ClaimInv'
      OBVIOUS
    <2>1. (isvc.exists /\ w.pc \in Deploying /\ w.spec.device # NoDevice =>
              claim.exists /\ claim.req = ClaimRequest(w.spec))'
      <3> SUFFICES ASSUME isvc'.exists, w'.pc \in Deploying, w'.spec.device # NoDevice
                   PROVE  claim'.exists /\ claim'.req = ClaimRequest(w'.spec)
        OBVIOUS
      <3>1. w'.spec = w.spec /\ isvc.exists
        BY DeployingPcs, ClaimSteps
      <3>2. CASE ApplyClaim
        BY <3>1, <3>2 DEF ApplyClaim, AppliedClaim
      <3>3. CASE ~ApplyClaim
        <4>1. w.pc \in Deploying /\ ~DropClaim
          BY <3>1, <3>3, DeployingPcs DEF DropClaim, At, Deploying
        <4> QED
          BY <3>1, <3>3, <4>1, ClaimSteps DEF ClaimInv
      <3> QED
        BY <3>2, <3>3
    <2>2. (w.pc = "replicas" /\ dep.exists /\ dep.tmpl.claim => w.spec.device # NoDevice)'
      <3> SUFFICES ASSUME w'.pc = "replicas", dep'.exists, dep'.tmpl.claim
                   PROVE  w'.spec.device # NoDevice
        OBVIOUS
      <3>1. w'.spec = w.spec
        BY DeployingPcs DEF Deploying
      <3>2. CASE CreateDeployment
        <4>1. dep'.tmpl = Template(w.spec)
          BY <3>2, AppliedFields DEF CreateDeployment, ApplyDeployment
        <4> QED
          BY <3>1, <4>1, TemplateClaim
      <3>3. CASE ~CreateDeployment
        <4>1. w.pc = "replicas"
          BY <3>3, DeployingPcs
        <4>2. dep.exists /\ dep.tmpl.claim
          <5>1. ~DeleteDeployment /\ ~UpdateDeployment
            BY <4>1 DEF DeleteDeployment, UpdateDeployment, At
          <5> QED
            BY <3>3, <5>1, DeploymentSteps, OthersFields, FixedFields, InitialReplicasFields
            DEF OperatorWrites
        <4> QED
          BY <3>1, <4>1, <4>2 DEF ClaimInv
      <3> QED
        BY <3>2, <3>3
    <2> QED
      BY <2>1, <2>2 DEF ClaimInv
  <1>3. TypeOK /\ ClaimInv /\ [Next]_vars => [First]_vars
    <2> SUFFICES ASSUME TypeOK, ClaimInv, [Next]_vars,
                        isvc.exists, w' # w, dep' # dep, dep'.exists, dep'.tmpl.claim
                 PROVE  claim.exists /\ claim.req = ClaimRequest(w.spec)
      OBVIOUS
    <2>1. CreateDeployment \/ UpdateDeployment \/ SetInitialReplicas
      BY DeploymentSteps, FixedFields DEF OperatorWrites, OthersWrite, DeleteDeployment
    <2>2. w.spec.device # NoDevice
      <3>1. CASE CreateDeployment \/ UpdateDeployment
        <4>1. dep'.tmpl = Template(w.spec)
          BY <3>1, AppliedFields DEF CreateDeployment, UpdateDeployment, ApplyDeployment
        <4> QED
          BY <4>1, TemplateClaim
      <3>2. CASE SetInitialReplicas
        BY <3>2, InitialReplicasFields DEF SetInitialReplicas, At, ClaimInv
      <3> QED
        BY <2>1, <3>1, <3>2
    <2>3. w.pc \in Deploying
      BY <2>1 DEF CreateDeployment, UpdateDeployment, SetInitialReplicas, At, Deploying
    <2> QED
      BY <2>2, <2>3 DEF ClaimInv
  <1> QED
    BY <1>1, <1>2, <1>3, TypeCorrect, PTL DEF Spec, ClaimBeforeDeployment

-----------------------------------------------------------------------------
(* The status and its generation *)

\* Generations only grow, and each stands for one spec, in the cache and in the
\* worker's hands as in the cluster; the verdict in the worker's hands is on the
\* worker's spec.
StatusInv ==
    /\ isvc.st.obsGen <= isvc.gen
    /\ isvc.st.obsGen = isvc.gen =>
          (isvc.st.adm = "PolicyViolation" <=> PolicyViolation(isvc.spec))
    /\ cIsvc.gen <= isvc.gen
    /\ cIsvc.gen = isvc.gen => cIsvc.spec = isvc.spec
    /\ w.pc # "idle" =>
          /\ w.gen <= isvc.gen
          /\ w.gen = isvc.gen => w.spec = isvc.spec
          /\ w.st.adm = "PolicyViolation" <=> PolicyViolation(w.spec)

\* The object changes by the operator's status update, or by a user's write that
\* gives a new spec a new generation; the cache takes over what is there.
LEMMA IsvcSteps ==
    ASSUME TypeOK, [Next]_vars
    PROVE  /\ \/ isvc' = isvc
              \/ UpdateStatus
              \/ /\ isvc'.gen = isvc.gen + 1 /\ isvc'.st = isvc.st
                 /\ cIsvc' = cIsvc /\ w' = [w EXCEPT !.fresh = FALSE]
              \/ /\ isvc'.gen = isvc.gen /\ isvc'.st = isvc.st /\ isvc'.spec = isvc.spec
                 /\ cIsvc' = cIsvc /\ w' = [w EXCEPT !.fresh = FALSE]
           /\ cIsvc' = cIsvc \/ (cIsvc' = isvc /\ isvc' = isvc)
  <1>i. isvc \in Services
    BY DEF TypeOK, ClusterTypeOK
  <1>1. CASE UNCHANGED vars
    BY <1>1 DEF vars, clusterVars, caches
  <1>2. CASE Reconcile
    <2>1. isvc' = isvc \/ UpdateStatus
      BY <1>2
      DEF Reconcile, ReconcileNotFound, ReconcileRejected, ReconcileAdmitted, TakeKey, Look,
          ApplyClaim, DropClaim,
          DeploymentMissing, DeploymentTerminating, DeploymentCurrent, DeploymentOutdated,
          DeleteDeployment, CreateDeployment, UpdateDeployment, ApplyDeployment,
          SetInitialReplicas, ReadDeployment, ApplyService, DropScaledObject, KEDAMissing,
          ApplyScaledObject, ReadVerdict, ApplyInferencePool, Finish, FinishWith,
          StatusUnchanged, StatusConflict, CallRefused, clusterVars,
          OnlyDeployment, OnlyClaim, OnlyOther
    <2>2. cIsvc' = cIsvc
      BY <1>2
      DEF Reconcile, ReconcileNotFound, ReconcileRejected, ReconcileAdmitted, TakeKey,
          ApplyClaim, DropClaim, Look, DeploymentMissing, DeploymentTerminating,
          DeploymentCurrent, DeploymentOutdated, DeleteDeployment, CreateDeployment,
          UpdateDeployment, ApplyDeployment, SetInitialReplicas, ReadDeployment, ApplyService,
          DropScaledObject, KEDAMissing, ApplyScaledObject, ReadVerdict, ApplyInferencePool,
          Finish, FinishWith, StatusUnchanged, UpdateStatus, StatusConflict, CallRefused, Step,
          Done, caches
    <2> QED
      BY <2>1, <2>2
  <1>3. CASE SyncIsvc \/ SyncDeployment \/ SyncClaim
    BY <1>3 DEF SyncIsvc, SyncDeployment, SyncClaim, clusterVars
  <1>4. CASE CleanUp
    BY <1>4
    DEF CleanUp, DeploymentTerminates, CollectDeployment, CollectClaim, CollectOther,
        OnlyDeployment, OnlyClaim, OnlyOther, ChildWritten, caches
  <1>5. CASE Disruption
    <2>1. CASE Restart \/ CallFails \/ StatusCallFails
      BY <2>1 DEF Restart, CallFails, StatusCallFails, Done, caches, clusterVars
    <2>2. CASE UserUpdates /\ IsvcWritten
      <3>1. PICK spec \in UserSpecs : isvc' = [isvc EXCEPT !.spec = spec, !.gen = isvc.gen + 1]
        BY <2>2 DEF UserUpdates
      <3> QED
        BY <2>2, <3>1, <1>i DEF IsvcWritten, Services
    <2>3. CASE UserDeletes /\ IsvcWritten
      BY <2>3, <1>i DEF UserDeletes, IsvcWritten, Services
    <2>4. CASE /\ UserDeletesDeployment \/ UserDeletesOther \/ UserDeletesClaim \/ NameTaken
                  \/ AutoscalerScales \/ KubeletReports \/ KEDAReports \/ PodsChange
                  \/ CRDInstalled
               /\ ChildWritten
      BY <2>4
      DEF UserDeletesDeployment, UserDeletesOther, UserDeletesClaim, NameTaken,
          AutoscalerScales, KubeletReports, KEDAReports, PodsChange, CRDInstalled,
          OnlyDeployment, OnlyClaim, OnlyOther, ChildWritten, caches
    <2> QED
      BY <1>5, <2>1, <2>2, <2>3, <2>4 DEF Disruption
  <1> QED
    BY <1>1, <1>2, <1>3, <1>4, <1>5 DEF Next

\* What the status update publishes is the verdict on the spec of the
\* generation it names, whoever wrote the spec while reconcile ran.
THEOREM StatusSpeaks == Spec => []StatusSpeaksForItsGeneration
  <1>1. Init => StatusInv
    <2> SUFFICES ASSUME Init PROVE StatusInv
      OBVIOUS
    <2>1. PICK spec \in UserSpecs, st \in {EmptyStatus, ServingStatus} :
             isvc = [exists |-> TRUE, gen |-> 1, spec |-> spec, st |-> st]
      BY DEF Init, ClusterInit
    <2>2. CASE st = EmptyStatus
      BY <2>1, <2>2 DEF Init, StatusInv, EmptyStatus, IdleWorker
    <2>3. CASE st = ServingStatus
      <3>1. ~PolicyViolation(isvc.spec)
        BY <2>1, <2>3 DEF Init, ClusterInit
      <3> QED
        BY <2>1, <2>3, <3>1 DEF Init, StatusInv, ServingStatus, IdleWorker
    <2> QED
      BY <2>1, <2>2, <2>3
  <1>2. TypeOK /\ StatusInv /\ [Next]_vars => StatusInv'
    <2> SUFFICES ASSUME TypeOK, StatusInv, [Next]_vars PROVE StatusInv'
      OBVIOUS
    <2>t. /\ isvc.gen \in Nat /\ isvc.st.obsGen \in Nat
          /\ cIsvc.gen \in Nat /\ w.gen \in Nat /\ w \in Workers /\ isvc \in Services
          /\ cIsvc \in Services /\ w.st \in Statuses
      BY DEF TypeOK, ClusterTypeOK, Services, Statuses, Workers
    <2>1. \/ isvc'.gen = isvc.gen /\ isvc'.spec = isvc.spec
          \/ isvc'.gen = isvc.gen + 1 /\ cIsvc' = cIsvc /\ w' = [w EXCEPT !.fresh = FALSE]
      <3>1. UpdateStatus => isvc'.gen = isvc.gen /\ isvc'.spec = isvc.spec
        BY <2>t DEF UpdateStatus, Services
      <3> QED
        BY <3>1, IsvcSteps
    <2>2. isvc'.st = isvc.st \/ UpdateStatus
      BY IsvcSteps
    <2>3. CASE UpdateStatus
      <3>1. /\ isvc'.gen = isvc.gen /\ isvc'.spec = isvc.spec
            /\ isvc'.st.obsGen = w.gen /\ isvc'.st.adm = w.st.adm
        BY <2>3, <2>t DEF UpdateStatus, BuiltStatus, Services, Statuses
      <3>2. w.pc # "idle" /\ w'.pc = "idle" /\ cIsvc' = cIsvc
        BY <2>3 DEF UpdateStatus, At, Done, IdleWorker
      <3> QED
        BY <3>1, <3>2 DEF StatusInv
    <2>4. CASE isvc'.st = isvc.st
      <3>1. (/\ isvc.st.obsGen <= isvc.gen
             /\ isvc.st.obsGen = isvc.gen =>
                   (isvc.st.adm = "PolicyViolation" <=> PolicyViolation(isvc.spec)))'
        BY <2>1, <2>4, <2>t DEF StatusInv
      <3>2. (cIsvc.gen <= isvc.gen /\ (cIsvc.gen = isvc.gen => cIsvc.spec = isvc.spec))'
        BY <2>1, <2>t, IsvcSteps DEF StatusInv
      <3>3. (w.pc # "idle" =>
                /\ w.gen <= isvc.gen
                /\ w.gen = isvc.gen => w.spec = isvc.spec
                /\ w.st.adm = "PolicyViolation" <=> PolicyViolation(w.spec))'
        <4>1. CASE ReconcileRejected \/ ReconcileAdmitted
          <5>1. isvc' = isvc /\ cIsvc' = cIsvc
            BY <4>1 DEF ReconcileRejected, ReconcileAdmitted, TakeKey, clusterVars, caches
          <5>2. w'.spec = cIsvc.spec /\ w'.gen = cIsvc.gen
            BY <4>1 DEF ReconcileRejected, ReconcileAdmitted, Begin
          <5>3. w'.st.adm = "PolicyViolation" <=> PolicyViolation(cIsvc.spec)
            <6>1. cIsvc.st \in Statuses
              BY <2>t DEF Services
            <6>2. ReconcileRejected => w'.st.adm = "PolicyViolation" /\ PolicyViolation(cIsvc.spec)
              <7> SUFFICES ASSUME ReconcileRejected
                           PROVE  w'.st.adm = "PolicyViolation" /\ PolicyViolation(cIsvc.spec)
                OBVIOUS
              <7>1. /\ w'.st = [cIsvc.st EXCEPT !.adm = "PolicyViolation", !.phase = "Rejected"]
                    /\ PolicyViolation(cIsvc.spec)
                BY DEF ReconcileRejected, Begin
              <7> QED
                BY <6>1, <7>1 DEF Statuses
            <6>3. ReconcileAdmitted => w'.st.adm = "PolicySatisfied" /\ ~PolicyViolation(cIsvc.spec)
              BY <6>1 DEF ReconcileAdmitted, Begin, Statuses
            <6> QED
              BY <4>1, <6>2, <6>3
          <5> QED
            BY <5>1, <5>2, <5>3, <3>2
        <4>2. CASE /\ w.pc # "idle"
                   /\ w'.spec = w.spec /\ w'.gen = w.gen /\ w'.st.adm = w.st.adm
          BY <4>2, <2>1, <2>t DEF StatusInv
        <4> QED
          BY <4>1, <4>2, WorkerSteps
      <3> QED
        BY <3>1, <3>2, <3>3 DEF StatusInv
    <2> QED
      BY <2>2, <2>3, <2>4
  <1>3. StatusInv => StatusSpeaksForItsGeneration
    BY DEF StatusInv, StatusSpeaksForItsGeneration
  <1> QED
    BY <1>1, <1>2, <1>3, TypeCorrect, PTL DEF Spec

-----------------------------------------------------------------------------
(* Passes of the worker, and what wakes it *)

\* The steps of a pass between its verdict and its status update, by where they
\* lead; all others return to be tried again.
Advances ==
    \/ w.pc = "claim" /\ w'.pc = "dep" /\ (ApplyClaim \/ DropClaim)
    \/ w.pc = "dep" /\ w'.pc = "create" /\ DeploymentMissing
    \/ w.pc = "dep" /\ w'.pc = "apply" /\ DeploymentCurrent
    \/ w.pc = "dep" /\ w'.pc = "delete"
    \/ w.pc = "create" /\ w'.pc = "replicas"
    \/ w.pc = "replicas" /\ w'.pc = "apply"
    \/ w.pc = "apply" /\ w'.pc = "read" /\ UpdateDeployment
    \/ w.pc = "read" /\ w'.pc = "service" /\ ReadDeployment /\ cDep.exists
    \/ w.pc = "service" /\ w'.pc = "autoscale" /\ ApplyService
    \/ w.pc = "autoscale" /\ w'.pc = "verdict" /\ ApplyScaledObject
    \/ w.pc = "autoscale" /\ w'.pc = "route" /\ (DropScaledObject \/ KEDAMissing)
    \/ w.pc = "verdict" /\ w'.pc = "route"
    \/ w.pc = "route" /\ w'.pc = "finish" /\ ApplyInferencePool
    \/ w.pc = "finish" /\ w'.pc = "status" /\ w'.again \in {"drift", "poll"}
    \/ w'.pc = "status" /\ w'.again = "retry"

\* The copy that a pass works on, and the status it started from.
SamePass == w'.spec = w.spec /\ w'.gen = w.gen /\ w'.before = w.before

Starts == At("idle") /\ (ReconcileNotFound \/ ReconcileRejected \/ ReconcileAdmitted)
GoesOn ==
    /\ w.pc \notin {"idle", "status"} /\ Advances /\ SamePass
    /\ timer' = timer /\ (queued => queued')
Ends ==
    /\ At("status") /\ w'.pc = "idle" /\ (queued => queued')
    /\ \/ timer' = Earliest(timer, "retry")
       \/ timer' = Earliest(timer, w.again) /\ (StatusUnchanged \/ UpdateStatus)
Waits ==
    /\ w'.pc = w.pc /\ w'.again = w.again /\ w'.st = w.st /\ SamePass
    /\ timer' = timer /\ (queued => queued')
Restarts == w'.pc = "idle" /\ queued'

\* What a step does to the pass under way.
LEMMA PassSteps ==
    ASSUME TypeOK, [Next]_vars
    PROVE  Starts \/ GoesOn \/ Ends \/ Waits \/ Restarts
  <1>w. w \in Workers
    BY DEF TypeOK
  <1>1. \A pc : Goto(pc) => w'.pc = pc /\ SamePass
    BY <1>w DEF Goto, Workers, SamePass
  <1>2. \A again : Return(again) => w'.pc = "status" /\ w'.again = again /\ SamePass
    BY <1>w DEF Return, Workers, SamePass
  <1>3. \A reason : Autoscaling(reason) => w'.pc = "route" /\ SamePass
    BY <1>w DEF Autoscaling, Workers, SamePass
  <1>4. Step => timer' = timer /\ (queued => queued')
    BY DEF Step, Events
  <1>5. \A again : At("status") /\ Done(again) /\ (again = "retry" \/ StatusUnchanged \/ UpdateStatus)
                   /\ again \in {"retry", w.again} => Ends
    BY DEF Done, IdleWorker, Ends
  <1>6. w' = w /\ timer' = timer /\ (queued => queued') => Waits
    BY DEF Waits, SamePass
  <1>7. CASE Reconcile
    <2>1. CASE ReconcileNotFound \/ ReconcileRejected \/ ReconcileAdmitted
      BY <2>1 DEF Starts, ReconcileNotFound, ReconcileRejected, ReconcileAdmitted, TakeKey
    <2>2. CASE ApplyClaim \/ DropClaim
      BY <2>2, <1>1, <1>4 DEF ApplyClaim, DropClaim, At, GoesOn, Advances
    <2>3. CASE DeploymentMissing \/ DeploymentCurrent \/ DeploymentTerminating
      BY <2>3, <1>1, <1>2, <1>4
      DEF DeploymentMissing, DeploymentCurrent, DeploymentTerminating, Look, At, GoesOn, Advances
    <2>4. CASE DeploymentOutdated
      <3>1. w'.pc = "delete" /\ SamePass
        BY <2>4, <1>w DEF DeploymentOutdated, Workers, SamePass
      <3> QED
        BY <2>4, <3>1, <1>4 DEF DeploymentOutdated, Look, At, GoesOn, Advances
    <2>5. CASE DeleteDeployment \/ CreateDeployment \/ UpdateDeployment \/ SetInitialReplicas
      BY <2>5, <1>1, <1>2, <1>4
      DEF DeleteDeployment, CreateDeployment, UpdateDeployment, SetInitialReplicas,
          ApplyDeployment, At, GoesOn, Advances
    <2>6. CASE ReadDeployment
      <3>1. CASE cDep.exists
        <4>1. w'.pc = "service" /\ SamePass
          BY <2>6, <3>1, <1>w DEF ReadDeployment, Workers, SamePass
        <4> QED
          BY <2>6, <3>1, <4>1, <1>4 DEF ReadDeployment, At, GoesOn, Advances
      <3>2. CASE ~cDep.exists
        BY <2>6, <3>2, <1>2, <1>4 DEF ReadDeployment, At, GoesOn, Advances
      <3> QED
        BY <3>1, <3>2
    <2>7. CASE ApplyService \/ ApplyScaledObject
      BY <2>7, <1>1, <1>4 DEF ApplyService, ApplyScaledObject, At, GoesOn, Advances
    <2>8. CASE DropScaledObject \/ KEDAMissing \/ ReadVerdict
      BY <2>8, <1>2, <1>3, <1>4
      DEF DropScaledObject, KEDAMissing, ReadVerdict, At, GoesOn, Advances
    <2>9. CASE ApplyInferencePool
      <3>1. w'.pc = "finish" /\ SamePass
        BY <2>9, <1>w DEF ApplyInferencePool, Workers, SamePass
      <3> QED
        BY <2>9, <3>1, <1>4 DEF ApplyInferencePool, At, GoesOn, Advances
    <2>10. CASE Finish
      <3>1. w'.pc = "status" /\ w'.again \in {"drift", "poll"} /\ SamePass
        BY <2>10, <1>w DEF Finish, FinishWith, Workers, SamePass
      <3> QED
        BY <2>10, <3>1, <1>4 DEF Finish, FinishWith, At, GoesOn, Advances
    <2>11. CASE StatusUnchanged \/ UpdateStatus \/ StatusConflict
      BY <2>11, <1>5 DEF StatusUnchanged, UpdateStatus, StatusConflict
    <2>12. CASE CallRefused
      BY <2>12, <1>2, <1>4 DEF CallRefused, Refused, At, GoesOn, Advances
    <2> QED
      BY <1>7, <2>1, <2>2, <2>3, <2>4, <2>5, <2>6, <2>7, <2>8, <2>9, <2>10, <2>11, <2>12
      DEF Reconcile
  <1>8. CASE SyncIsvc \/ SyncDeployment \/ SyncClaim \/ CleanUp \/ UNCHANGED vars
    <2>1. CASE SyncIsvc \/ UNCHANGED vars
      BY <2>1, <1>6 DEF SyncIsvc, vars
    <2>2. CASE SyncDeployment \/ SyncClaim
      <3>1. queued => queued'
        BY <2>2 DEF SyncDeployment, SyncClaim, EnqueueOwner
      <3> QED
        BY <2>2, <3>1, <1>6 DEF SyncDeployment, SyncClaim
    <2>3. CASE CleanUp
      BY <2>3, <1>6 DEF CleanUp, ChildWritten, Events
    <2> QED
      BY <1>8, <2>1, <2>2, <2>3
  <1>9. CASE Disruption
    <2>1. CASE Restart
      BY <2>1 DEF Restart, IdleWorker, Restarts
    <2>2. CASE CallFails
      BY <2>2, <1>2 DEF CallFails, GoesOn, Advances
    <2>3. CASE StatusCallFails
      BY <2>3, <1>5 DEF StatusCallFails
    <2>4. CASE IsvcWritten
      BY <2>4, <1>w DEF IsvcWritten, Workers, Waits, SamePass
    <2>5. CASE ChildWritten
      BY <2>5, <1>6 DEF ChildWritten, Events
    <2> QED
      BY <1>9, <2>1, <2>2, <2>3, <2>4, <2>5 DEF Disruption
  <1> QED
    BY <1>7, <1>8, <1>9 DEF Next

\* The copy of the object moves to what is there, which queues the key, or stays;
\* it stays up to date as long as nobody writes the object.
LEMMA CopySteps ==
    ASSUME [Next]_vars
    PROVE  \/ isvc' = isvc /\ cIsvc' = isvc /\ queued'
           \/ cIsvc' = cIsvc /\ (fresh' => fresh /\ isvc' = isvc)
  <1>1. CASE UNCHANGED vars
    BY <1>1 DEF vars, clusterVars, caches
  <1>2. CASE Reconcile
    <2>1. CASE UpdateStatus
      BY <2>1 DEF UpdateStatus, Done
    <2>2. CASE ~UpdateStatus
      BY <1>2, <2>2
      DEF Reconcile, ReconcileNotFound, ReconcileRejected, ReconcileAdmitted, TakeKey,
          ApplyClaim, DropClaim, Look, DeploymentMissing, DeploymentTerminating,
          DeploymentCurrent, DeploymentOutdated, DeleteDeployment, CreateDeployment,
          UpdateDeployment, ApplyDeployment, SetInitialReplicas, ReadDeployment, ApplyService,
          DropScaledObject, KEDAMissing, ApplyScaledObject, ReadVerdict, ApplyInferencePool,
          Finish, FinishWith, StatusUnchanged, StatusConflict, CallRefused, Step,
          Done, caches, clusterVars, OnlyDeployment, OnlyClaim, OnlyOther
    <2> QED
      BY <2>1, <2>2
  <1>3. CASE SyncIsvc \/ SyncDeployment \/ SyncClaim
    BY <1>3 DEF SyncIsvc, SyncDeployment, SyncClaim, clusterVars
  <1>4. CASE CleanUp
    BY <1>4
    DEF CleanUp, DeploymentTerminates, CollectDeployment, CollectClaim, CollectOther,
        OnlyDeployment, OnlyClaim, OnlyOther, ChildWritten, caches
  <1>5. CASE Disruption
    <2>1. CASE Restart \/ CallFails \/ StatusCallFails
      BY <2>1 DEF Restart, CallFails, StatusCallFails, Done, caches, clusterVars
    <2>2. CASE IsvcWritten
      BY <2>2 DEF IsvcWritten
    <2>3. CASE /\ UserDeletesDeployment \/ UserDeletesOther \/ UserDeletesClaim \/ NameTaken
                  \/ AutoscalerScales \/ KubeletReports \/ KEDAReports \/ PodsChange
                  \/ CRDInstalled
               /\ ChildWritten
      BY <2>3
      DEF UserDeletesDeployment, UserDeletesOther, UserDeletesClaim, NameTaken,
          AutoscalerScales, KubeletReports, KEDAReports, PodsChange, CRDInstalled,
          OnlyDeployment, OnlyClaim, OnlyOther, ChildWritten, caches
    <2> QED
      BY <1>5, <2>1, <2>2, <2>3 DEF Disruption
  <1> QED
    BY <1>1, <1>2, <1>3, <1>4, <1>5 DEF Next

\* The copy a pass works on is the cached one until an event queues the key
\* again, an up-to-date copy is the object, and only a rejection asks for no
\* requeue.
CopyInv ==
    /\ fresh => cIsvc = isvc
    /\ ~queued /\ w.pc # "idle" =>
          w.spec = cIsvc.spec /\ w.gen = cIsvc.gen /\ w.before = cIsvc.st
    /\ w.pc = "status" /\ w.again = "none" =>
          /\ PolicyViolation(w.spec)
          /\ w.st.phase = "Rejected" /\ w.st.adm = "PolicyViolation"

\* The first state has it.
LEMMA CopyStart == Init => CopyInv
  BY DEF Init, CopyInv, IdleWorker

\* Every step keeps it.
LEMMA CopyKept == TypeOK /\ CopyInv /\ [Next]_vars => CopyInv'
  <1> SUFFICES ASSUME TypeOK, CopyInv, [Next]_vars PROVE CopyInv'
    OBVIOUS
  <1>c. cIsvc.st \in Statuses
    BY DEF TypeOK, Services
  <1>1. (fresh => cIsvc = isvc)'
    BY CopySteps DEF CopyInv
  <1>2. ASSUME ~queued', w'.pc # "idle"
        PROVE  w'.spec = cIsvc'.spec /\ w'.gen = cIsvc'.gen /\ w'.before = cIsvc'.st
    <2>1. cIsvc' = cIsvc
      BY <1>2, CopySteps
    <2>2. CASE Starts
      BY <1>2, <2>1, <2>2
      DEF Starts, At, ReconcileNotFound, ReconcileRejected, ReconcileAdmitted, Begin
    <2>3. CASE GoesOn \/ Waits
      <3>1. SamePass /\ ~queued /\ w.pc # "idle"
        BY <1>2, <2>3 DEF GoesOn, Waits
      <3> QED
        BY <2>1, <3>1 DEF SamePass, CopyInv
    <2>4. CASE Ends \/ Restarts
      BY <1>2, <2>4 DEF Ends, Restarts
    <2> QED
      BY <2>2, <2>3, <2>4, PassSteps
  <1>3. ASSUME w'.pc = "status", w'.again = "none"
        PROVE  /\ PolicyViolation(w'.spec)
               /\ w'.st.phase = "Rejected" /\ w'.st.adm = "PolicyViolation"
    <2>1. CASE Starts
      <3>1. ReconcileRejected
        BY <1>3, <2>1 DEF Starts, At, ReconcileNotFound, ReconcileAdmitted, Begin
      <3>2. /\ w'.spec = cIsvc.spec /\ PolicyViolation(cIsvc.spec)
            /\ w'.st = [cIsvc.st EXCEPT !.adm = "PolicyViolation", !.phase = "Rejected"]
        BY <3>1 DEF ReconcileRejected, Begin
      <3> QED
        BY <1>c, <3>2 DEF Statuses
    <2>2. CASE GoesOn
      BY <1>3, <2>2 DEF GoesOn, Advances
    <2>3. CASE Waits
      BY <1>3, <2>3 DEF Waits, SamePass, CopyInv
    <2>4. CASE Ends \/ Restarts
      BY <1>3, <2>4 DEF Ends, Restarts
    <2> QED
      BY <2>1, <2>2, <2>3, <2>4, PassSteps
  <1> QED
    BY <1>1, <1>2, <1>3 DEF CopyInv

\* Every step of one manager keeps a service from being forgotten.
LEMMA WakeSteps ==
    TypeOK /\ CopyInv /\ NothingForgotten /\ [Next]_vars => NothingForgotten'
  <1> SUFFICES ASSUME TypeOK, CopyInv, NothingForgotten, [Next]_vars,
                      isvc'.exists, ~queued', timer' = "none", w'.pc = "idle", fresh'
               PROVE  (PolicyViolation(isvc.spec) /\ Reported)'
    BY DEF NothingForgotten, At
  <1>1. isvc' = isvc /\ cIsvc = isvc /\ fresh
    BY CopySteps DEF CopyInv
  <1>2. CASE Starts
    BY <1>1, <1>2
    DEF Starts, At, ReconcileNotFound, ReconcileRejected, ReconcileAdmitted, Begin
  <1>3. CASE GoesOn
    BY <1>3 DEF GoesOn, Advances
  <1>4. CASE Restarts
    BY <1>4 DEF Restarts
  <1>5. CASE Waits
    <2>1. At("idle") /\ ~queued /\ timer = "none"
      BY <1>5 DEF Waits, At
    <2> QED
      BY <1>1, <2>1 DEF NothingForgotten, Reported
  <1>6. CASE Ends
    <2>1. w.again = "none" /\ ~queued /\ w.pc = "status" /\ (StatusUnchanged \/ UpdateStatus)
      <3>1. w.again \in Timers
        BY DEF TypeOK, Workers
      <3> QED
        BY <1>6, <3>1 DEF Ends, Earliest, At, Timers
    <2>2. StatusUnchanged
      BY <2>1 DEF UpdateStatus
    <2>3. [w.st EXCEPT !.obsGen = w.gen] = isvc.st
      BY <1>1, <2>1, <2>2 DEF StatusUnchanged, BuiltStatus, CopyInv
    <2>4. w.st \in Statuses
      BY DEF TypeOK, Workers
    <2>5. isvc.st.phase = w.st.phase /\ isvc.st.adm = w.st.adm /\ isvc.st.obsGen = w.gen
      BY <2>3, <2>4 DEF Statuses
    <2> QED
      BY <1>1, <2>1, <2>5 DEF CopyInv, Reported
  <1> QED
    BY <1>2, <1>3, <1>4, <1>5, <1>6, PassSteps

\* Whatever fails, crashes or is written at whatever moment, the operator does
\* not lose a service out of sight: every end of reconcile that leaves work
\* undone asks to come back, and a rejection that does not is one that has been
\* published.
THEOREM NothingIsForgotten == Spec => []NothingForgotten
  <1>1. Init => NothingForgotten
    BY DEF Init, NothingForgotten
  <1> QED
    BY <1>1, CopyStart, CopyKept, WakeSteps, TypeCorrect, PTL DEF Spec

-----------------------------------------------------------------------------
(* At rest *)

\* The places of a pass past each of its calls.
RoutingDone == {"finish"}
ScalingDone == {"verdict", "route"} \cup RoutingDone
ServiceDone == {"autoscale"} \cup ScalingDone
DepRead     == {"service"} \cup ServiceDone
DepWritten  == {"read"} \cup DepRead
DepLooked   == {"create", "replicas", "apply"} \cup DepWritten
ClaimDone   == {"dep", "delete"} \cup DepLooked

\* Nothing has happened since that queues the key, and the pass is at one of
\* pcs, or has come to its end without an error and has left no retry.
Reached(pcs) ==
    /\ isvc.exists /\ ~queued
    /\ \/ w.pc \in pcs
       \/ w.pc = "status" /\ w.again \in {"drift", "poll"}
       \/ w.pc = "idle" /\ timer # "retry" /\ cIsvc.exists /\ ~PolicyViolation(cIsvc.spec)

\* What holds of the objects by the way they are written.
WrittenInv ==
    /\ Current(dep) => dep.owned
    /\ Current(cDep) => cDep.owned
    /\ claim.owned => claim.exists
    /\ so.exists => "ScaledObject" \in crds
    /\ pool => "InferencePool" \in crds

\* What each call of a pass has achieved stays so for the copy of the spec the
\* pass works on, or an event queues the key.
ClaimReached ==
    Reached(ClaimDone) =>
        IF cIsvc.spec.device = NoDevice THEN claim.owned => cClaim # claim
        ELSE claim.exists /\ claim.req = ClaimRequest(cIsvc.spec)
LookReached   == Reached(DepLooked) /\ cDep.exists => ~cDep.deleting /\ cDep.sel = "current"
WriteReached  == Reached(DepWritten) /\ dep.exists =>
                     dep.sel = "current" /\ dep.tmpl = Template(cIsvc.spec)
ReadReached   == Reached(DepRead) => cDep.exists
ServiceReached == Reached(ServiceDone) => service
ScalingReached ==
    Reached(ScalingDone) =>
        IF cIsvc.spec.backend = "Ollama" THEN ~so.exists
        ELSE /\ so.exists => so.min = cIsvc.spec.min /\ so.max = cIsvc.spec.max
             /\ "ScaledObject" \in watched => so.exists
RoutingReached == Reached(RoutingDone) => ("InferencePool" \in watched => pool)

RestInv ==
    /\ WrittenInv
    /\ ClaimReached /\ LookReached /\ WriteReached /\ ReadReached
    /\ ServiceReached /\ ScalingReached /\ RoutingReached

\* Who writes the claim template, the ScaledObject, the Service and the
\* InferencePool, and which of these writes queue the key.
LEMMA ObjectSteps ==
    ASSUME TypeOK, [Next]_vars
    PROVE  /\ claim' = claim \/ claim' = NoClaim \/ claim' = AppliedClaim(w.spec)
           /\ \/ so' = so \/ so' = NoScaledObject \/ ApplyScaledObject
              \/ so.exists /\ so'.exists /\ so'.min = so.min /\ so'.max = so.max
           /\ pool' => pool \/ "InferencePool" \in crds
           /\ \/ UNCHANGED <<so, service, pool>>
              \/ Events
           /\ crds \subseteq crds'
           /\ watched' = watched \/ queued'
           /\ cClaim' = cClaim \/ queued' \/ (SyncClaim /\ claim' = claim)
           /\ cDep' = cDep \/ queued' \/ (SyncDeployment /\ dep' = dep)
  <1> DEFINE Goal ==
           /\ claim' = claim \/ claim' = NoClaim \/ claim' = AppliedClaim(w.spec)
           /\ \/ so' = so \/ so' = NoScaledObject \/ ApplyScaledObject
              \/ so.exists /\ so'.exists /\ so'.min = so.min /\ so'.max = so.max
           /\ pool' => pool \/ "InferencePool" \in crds
           /\ \/ UNCHANGED <<so, service, pool>>
              \/ Events
           /\ crds \subseteq crds'
           /\ watched' = watched \/ queued'
           /\ cClaim' = cClaim \/ queued' \/ (SyncClaim /\ claim' = claim)
           /\ cDep' = cDep \/ queued' \/ (SyncDeployment /\ dep' = dep)
  <1>s. so \in ScaledObjects
    BY DEF TypeOK, ClusterTypeOK
  <1>1. CASE UNCHANGED vars
    BY <1>1 DEF vars, clusterVars, caches
  <1>2. CASE Reconcile
    <2>1. CASE ApplyClaim \/ DropClaim
      BY <2>1 DEF ApplyClaim, DropClaim, OnlyClaim, Step, caches
    <2>2. CASE DeleteDeployment \/ CreateDeployment \/ UpdateDeployment \/ SetInitialReplicas
      BY <2>2
      DEF DeleteDeployment, CreateDeployment, UpdateDeployment, SetInitialReplicas,
          ApplyDeployment, OnlyDeployment, Step, caches
    <2>3. CASE ApplyService \/ DropScaledObject \/ ApplyScaledObject \/ ApplyInferencePool
      <3>1. claim' = claim /\ crds' = crds /\ Step
        BY <2>3
        DEF ApplyService, DropScaledObject, ApplyScaledObject, ApplyInferencePool, OnlyOther
      <3>2. Events /\ watched' = watched /\ cClaim' = cClaim /\ cDep' = cDep
        BY <3>1 DEF Step, caches
      <3>3. so' = so \/ so' = NoScaledObject \/ ApplyScaledObject
        BY <2>3 DEF ApplyService, DropScaledObject, ApplyInferencePool
      <3>4. pool' => pool \/ "InferencePool" \in crds
        BY <2>3 DEF ApplyService, DropScaledObject, ApplyScaledObject, ApplyInferencePool
      <3> QED
        BY <3>1, <3>2, <3>3, <3>4
    <2>4. CASE UpdateStatus
      BY <2>4 DEF UpdateStatus, OnlyIsvc, Done
    <2>5. CASE \/ ReconcileNotFound \/ ReconcileRejected \/ ReconcileAdmitted
               \/ StatusUnchanged \/ StatusConflict
      BY <2>5
      DEF ReconcileNotFound, ReconcileRejected, ReconcileAdmitted, TakeKey, StatusUnchanged,
          StatusConflict, Done, caches, clusterVars
    <2>6. CASE UNCHANGED clusterVars /\ Step
      BY <2>6 DEF Step, caches, clusterVars
    <2> QED
      BY <1>2, <2>1, <2>2, <2>3, <2>4, <2>5, <2>6
      DEF Reconcile, Look, DeploymentMissing, DeploymentTerminating, DeploymentCurrent,
          DeploymentOutdated, ReadDeployment, KEDAMissing, ReadVerdict, Finish, FinishWith,
          CallRefused
  <1>3. CASE SyncIsvc \/ SyncDeployment \/ SyncClaim
    BY <1>3 DEF SyncIsvc, SyncDeployment, SyncClaim, clusterVars
  <1>4. CASE CleanUp
    BY <1>4
    DEF CleanUp, DeploymentTerminates, CollectDeployment, CollectClaim, CollectOther,
        OnlyDeployment, OnlyClaim, OnlyOther, ChildWritten, caches
  <1>5. CASE Disruption
    <2>1. CASE Restart \/ CallFails \/ StatusCallFails
      BY <2>1 DEF Restart, CallFails, StatusCallFails, Done, caches, clusterVars
    <2>2. CASE (UserUpdates \/ UserDeletes) /\ IsvcWritten
      <3>1. UNCHANGED <<claim, so, service, pool, crds, cDep, cClaim, watched>>
        BY <2>2 DEF UserUpdates, UserDeletes, OnlyIsvc, IsvcWritten
      <3> QED
        BY <3>1
    <2>3. CASE ChildWritten
      <3>1. Events /\ watched' = watched /\ cClaim' = cClaim /\ cDep' = cDep
        BY <2>3 DEF ChildWritten, caches
      <3>2. CASE KEDAReports
        <4>1. PICK v : so' = [so EXCEPT !.verdict = v]
          BY <3>2 DEF KEDAReports
        <4>2. so.exists /\ so'.exists /\ so'.min = so.min /\ so'.max = so.max
          BY <3>2, <4>1, <1>s DEF KEDAReports, ScaledObjects
        <4> QED
          BY <3>1, <3>2, <4>2 DEF KEDAReports, OnlyOther
      <3>3. CASE CRDInstalled
        BY <3>1, <3>3 DEF CRDInstalled
      <3>4. CASE UserDeletesOther \/ UserDeletesClaim
        BY <3>1, <3>4 DEF UserDeletesOther, UserDeletesClaim, OnlyOther, OnlyClaim
      <3>5. CASE \/ UserDeletesDeployment \/ NameTaken \/ AutoscalerScales
                 \/ KubeletReports \/ PodsChange
        <4>1. UNCHANGED <<claim, so, service, pool, crds>>
          BY <3>5
          DEF UserDeletesDeployment, NameTaken, AutoscalerScales, KubeletReports, PodsChange,
              OnlyDeployment
        <4> QED
          BY <3>1, <4>1
      <3> QED
        BY <1>5, <2>3, <3>2, <3>3, <3>4, <3>5, <2>1, <2>2 DEF Disruption
    <2> QED
      BY <1>5, <2>1, <2>2, <2>3 DEF Disruption
  <1> QED
    BY <1>1, <1>2, <1>3, <1>4, <1>5 DEF Next

\* A pass is past a call because it was so before, or because it has just made
\* that call; either way it works on the cached copy of the spec, which stays.
LEMMA ReachedSteps ==
    ASSUME TypeOK, CopyInv, [Next]_vars, "unclaim" \notin Disruptors,
           NEW pcs \in SUBSET Pcs, "finish" \in pcs, {"idle", "status", "claim"} \cap pcs = {},
           Reached(pcs)'
    PROVE  /\ cIsvc' = cIsvc /\ watched' = watched /\ ~queued /\ isvc.exists
           /\ \/ Reached(pcs)
              \/ /\ w.pc \notin pcs /\ w'.pc \in pcs /\ Advances
                 /\ w.spec = cIsvc.spec /\ w'.spec = cIsvc.spec
  <1>1. isvc'.exists /\ ~queued'
    BY DEF Reached
  <1>2. cIsvc' = cIsvc /\ watched' = watched /\ isvc.exists
    BY <1>1, CopySteps, ObjectSteps, ClaimSteps
  <1>3. CASE Starts
    BY <1>2, <1>3
    DEF Starts, At, ReconcileNotFound, ReconcileRejected, ReconcileAdmitted, Begin, Reached
  <1>4. CASE GoesOn
    <2>1. ~queued /\ w.pc \notin {"idle", "status"} /\ Advances /\ w'.spec = w.spec
      BY <1>1, <1>4 DEF GoesOn, SamePass
    <2>2. w.spec = cIsvc.spec
      BY <2>1 DEF CopyInv
    <2>3. w'.pc \in pcs \/ w.pc = "finish"
      BY <2>1 DEF Advances, Reached
    <2> QED
      BY <1>2, <2>1, <2>2, <2>3 DEF Reached
  <1>5. CASE Ends
    <2>1. /\ ~queued /\ w.pc = "status" /\ timer' # "retry"
          /\ cIsvc.exists /\ ~PolicyViolation(cIsvc.spec)
      BY <1>1, <1>2, <1>5 DEF Ends, At, Reached
    <2>2. w.spec = cIsvc.spec /\ w.again # "none"
      BY <2>1 DEF CopyInv
    <2>3. w.again \in {"drift", "poll"}
      <3>1. w.again \in Timers
        BY DEF TypeOK, Workers
      <3> QED
        BY <1>5, <2>1, <2>2, <3>1 DEF Ends, Earliest, Timers
    <2> QED
      BY <1>2, <2>1, <2>3 DEF Reached
  <1>6. CASE Waits
    BY <1>1, <1>2, <1>6 DEF Waits, Reached
  <1>7. CASE Restarts
    BY <1>1, <1>7 DEF Restarts
  <1> QED
    BY <1>3, <1>4, <1>5, <1>6, <1>7, PassSteps

\* The owner reference of a Deployment: the operator's apply sets it, and nobody
\* takes it away.
LEMMA OwnedFields ==
    ASSUME TypeOK
    PROVE  /\ AppliedDeployment(w.spec).owned
           /\ SetInitialReplicas => dep'.owned = dep.owned
           /\ OthersWrite => \/ dep' = NoDeployment \/ dep' = ForeignDeployment
                             \/ /\ dep.exists /\ dep'.sel = dep.sel
                                /\ dep'.owned = dep.owned
  <1>1. dep \in Deployments
    BY DEF TypeOK, ClusterTypeOK
  <1>2. AppliedDeployment(w.spec).owned
    BY <1>1 DEF AppliedDeployment, CreatedDeployment, NoDeployment, Deployments
  <1>3. SetInitialReplicas => dep'.owned = dep.owned
    BY <1>1 DEF SetInitialReplicas, Deployments
  <1>4. ASSUME AutoscalerScales PROVE dep.exists /\ dep'.sel = dep.sel /\ dep'.owned = dep.owned
    <2>1. PICK n : dep' = [dep EXCEPT !.replicas = n, !.owner = "autoscaler"]
      BY <1>4 DEF AutoscalerScales
    <2> QED
      BY <1>1, <1>4, <2>1 DEF AutoscalerScales, Deployments
  <1>5. ASSUME KubeletReports PROVE dep.exists /\ dep'.sel = dep.sel /\ dep'.owned = dep.owned
    BY <1>1, <1>5 DEF KubeletReports, Deployments
  <1>6. ASSUME UserDeletesDeployment
        PROVE  \/ dep' = NoDeployment
               \/ dep.exists /\ dep'.sel = dep.sel /\ dep'.owned = dep.owned
    BY <1>1, <1>6 DEF UserDeletesDeployment, Deployments
  <1>7. DeploymentTerminates \/ CollectDeployment => dep' = NoDeployment
    BY DEF DeploymentTerminates, CollectDeployment
  <1>8. NameTaken => dep' = ForeignDeployment
    BY DEF NameTaken
  <1> QED
    BY <1>2, <1>3, <1>4, <1>5, <1>6, <1>7, <1>8 DEF OthersWrite

\* The first state has the invariant: the key is queued.
LEMMA RestStart == Init => RestInv
  <1> SUFFICES ASSUME Init PROVE RestInv
    OBVIOUS
  <1>1. \A pcs : ~Reached(pcs)
    BY DEF Init, Reached
  <1>2. cDep = dep /\ (dep.exists => dep.sel # "current")
    <2>1. dep = NoDeployment \/ dep = ForeignDeployment \/ dep = LegacyDeployment(isvc.spec)
      BY DEF Init, ClusterInit
    <2>2. cDep = dep
      BY DEF Init
    <2> QED
      BY <2>1, <2>2, FixedFields
  <1>3. ~claim.owned /\ ~so.exists /\ ~pool
    <2>1. claim = NoClaim \/ claim \in [exists : {TRUE}, owned : {FALSE}, req : ForeignClaims]
      BY DEF Init, ClusterInit
    <2>2. so = NoScaledObject /\ ~pool
      BY DEF Init, ClusterInit
    <2>3. ~claim.owned
      <3>1. CASE claim = NoClaim
        BY <3>1 DEF NoClaim
      <3>2. CASE claim \in [exists : {TRUE}, owned : {FALSE}, req : ForeignClaims]
        <4>1. claim.owned = FALSE
          BY <3>2
        <4> QED
          BY <4>1
      <3> QED
        BY <2>1, <3>1, <3>2
    <2>4. ~so.exists
      BY <2>2 DEF NoScaledObject
    <2> QED
      BY <2>2, <2>3, <2>4
  <1> QED
    BY <1>1, <1>2, <1>3
    DEF RestInv, WrittenInv, Current, ClaimReached, LookReached, WriteReached, ReadReached,
        ServiceReached, ScalingReached, RoutingReached

\* Every step keeps what the way of writing gives.
LEMMA WrittenSteps == TypeOK /\ WrittenInv /\ [Next]_vars => WrittenInv'
  <1> SUFFICES ASSUME TypeOK, WrittenInv, [Next]_vars PROVE WrittenInv'
    OBVIOUS
  <1>1. Current(dep') => dep'.owned
    <2>1. CASE dep' = dep
      BY <2>1 DEF WrittenInv
    <2>2. CASE DeleteDeployment
      BY <2>2, FixedFields DEF DeleteDeployment, Current
    <2>3. CASE CreateDeployment \/ UpdateDeployment
      BY <2>3, OwnedFields DEF CreateDeployment, UpdateDeployment, ApplyDeployment
    <2>4. CASE SetInitialReplicas
      BY <2>4, OwnedFields, InitialReplicasFields DEF WrittenInv, Current
    <2>5. CASE OthersWrite
      BY <2>5, OwnedFields, FixedFields DEF WrittenInv, Current
    <2> QED
      BY <2>1, <2>2, <2>3, <2>4, <2>5, DeploymentSteps DEF OperatorWrites
  <1>2. Current(cDep') => cDep'.owned
    BY CacheSteps DEF WrittenInv
  <1>3. claim'.owned => claim'.exists
    BY ObjectSteps DEF WrittenInv, NoClaim, AppliedClaim
  <1>4. so'.exists => "ScaledObject" \in crds'
    <2>1. ~NoScaledObject.exists
      BY DEF NoScaledObject
    <2>2. ApplyScaledObject => "ScaledObject" \in crds
      BY DEF ApplyScaledObject
    <2>3. so'.exists => "ScaledObject" \in crds
      BY <2>1, <2>2, ObjectSteps DEF WrittenInv
    <2> QED
      BY <2>3, ObjectSteps
  <1>5. pool' => "InferencePool" \in crds'
    BY ObjectSteps DEF WrittenInv
  <1> QED
    BY <1>1, <1>2, <1>3, <1>4, <1>5 DEF WrittenInv, Current

\* Every step keeps what a pass has reached, as long as nobody else takes the
\* Deployment's name or deletes claim templates.
LEMMA RestSteps ==
    ASSUME "squat" \notin Disruptors, "unclaim" \notin Disruptors
    PROVE  TypeOK /\ CopyInv /\ RecreateInv /\ RestInv /\ [Next]_vars => RestInv'
  <1> SUFFICES ASSUME TypeOK, CopyInv, RecreateInv, RestInv, [Next]_vars PROVE RestInv'
    OBVIOUS
  <1> DEFINE Sets == {ClaimDone, DepLooked, DepWritten, DepRead, ServiceDone, ScalingDone,
                      RoutingDone}
  <1>p. \A pcs \in Sets : /\ pcs \in SUBSET Pcs /\ "finish" \in pcs
                          /\ {"idle", "status", "claim"} \cap pcs = {}
    BY DEF ClaimDone, DepLooked, DepWritten, DepRead, ServiceDone, ScalingDone, RoutingDone, Pcs
  <1>s. \A pcs \in Sets : Reached(pcs)' =>
           /\ cIsvc' = cIsvc /\ watched' = watched /\ ~queued /\ isvc.exists
           /\ \/ Reached(pcs)
              \/ /\ w.pc \notin pcs /\ w'.pc \in pcs /\ Advances
                 /\ w.spec = cIsvc.spec /\ w'.spec = cIsvc.spec
    BY <1>p, ReachedSteps
  <1>q. \A pcs : Reached(pcs)' => ~queued' /\ isvc'.exists
    BY DEF Reached
  <1>w. \A pcs \in Sets : Reached(pcs) => w.pc \in pcs \cup {"idle", "status"}
    BY DEF Reached
  <1> HIDE DEF Sets
  <1>m. \A pcs : Reached(DepRead) => Reached(DepLooked) /\ Reached(DepWritten)
    BY DEF Reached, DepRead, DepLooked, DepWritten
  <1>1. WrittenInv'
    BY WrittenSteps DEF RestInv
  <1>2. ClaimReached'
    <2> SUFFICES ASSUME Reached(ClaimDone)'
                 PROVE  IF cIsvc'.spec.device = NoDevice THEN claim'.owned => cClaim' # claim'
                        ELSE claim'.exists /\ claim'.req = ClaimRequest(cIsvc'.spec)
      BY DEF ClaimReached
    <2>0. ClaimDone \in Sets /\ ~queued' /\ isvc'.exists
      BY <1>q DEF Sets
    <2>1. CASE Reached(ClaimDone)
      <3>1. ~ApplyClaim /\ ~DropClaim
        BY <1>w, <2>0, <2>1
        DEF ApplyClaim, DropClaim, At, ClaimDone, DepLooked, DepWritten, DepRead, ServiceDone,
            ScalingDone, RoutingDone
      <3>2. claim' = claim
        BY <2>0, <3>1, ClaimSteps
      <3>3. claim'.owned => cClaim' = cClaim
        <4>1. SyncClaim /\ claim.owned => queued'
          BY DEF SyncClaim, EnqueueOwner
        <4> QED
          BY <2>0, <3>2, <4>1, ObjectSteps
      <3> QED
        BY <1>s, <2>0, <2>1, <3>2, <3>3 DEF RestInv, ClaimReached
    <2>2. CASE ~Reached(ClaimDone)
      <3>1. /\ w.pc \notin ClaimDone /\ w'.pc \in ClaimDone /\ Advances
            /\ w.spec = cIsvc.spec /\ cIsvc' = cIsvc
        BY <1>s, <2>0, <2>2
      <3>2. ApplyClaim \/ DropClaim
        BY <3>1
        DEF Advances, ClaimDone, DepLooked, DepWritten, DepRead, ServiceDone, ScalingDone,
            RoutingDone
      <3>3. CASE ApplyClaim
        BY <3>1, <3>3 DEF ApplyClaim, AppliedClaim
      <3>4. CASE DropClaim
        <4>1. /\ w.spec.device = NoDevice /\ cClaim' = cClaim
              /\ claim' = IF cClaim.exists /\ cClaim.owned THEN NoClaim ELSE claim
          BY <3>4 DEF DropClaim, Step, caches
        <4>2. claim'.owned => claim' = claim /\ ~(cClaim.exists /\ cClaim.owned)
          BY <4>1 DEF NoClaim
        <4>3. claim.owned => claim.exists
          BY DEF RestInv, WrittenInv
        <4> QED
          BY <3>1, <4>1, <4>2, <4>3
      <3> QED
        BY <3>2, <3>3, <3>4
    <2> QED
      BY <2>1, <2>2
  <1>3. LookReached'
    <2> SUFFICES ASSUME Reached(DepLooked)', cDep'.exists
                 PROVE  ~cDep'.deleting /\ cDep'.sel = "current"
      BY DEF LookReached
    <2>0. DepLooked \in Sets /\ ~queued'
      BY <1>q DEF Sets
    <2>1. CASE Reached(DepLooked)
      <3>1. CASE cDep' = cDep
        BY <2>1, <3>1 DEF RestInv, LookReached
      <3>2. CASE SyncDeployment
        <4>1. cDep' = dep /\ dep.exists /\ ~dep.owned
          BY <2>0, <3>2 DEF SyncDeployment, EnqueueOwner
        <4>2. Outdated(dep)
          BY <4>1 DEF RestInv, WrittenInv, Current, Outdated
        <4>3. Outdated(cDep)
          BY <4>2 DEF RecreateInv
        <4> QED
          BY <2>1, <4>3 DEF RestInv, LookReached, Outdated
      <3> QED
        BY <2>0, <3>1, <3>2, ObjectSteps
    <2>2. CASE ~Reached(DepLooked)
      <3>1. w.pc \notin DepLooked /\ w'.pc \in DepLooked /\ Advances
        BY <1>s, <2>0, <2>2
      <3>2. DeploymentMissing \/ DeploymentCurrent
        BY <3>1
        DEF Advances, DepLooked, DepWritten, DepRead, ServiceDone, ScalingDone, RoutingDone
      <3> QED
        BY <3>2 DEF DeploymentMissing, DeploymentCurrent, Look, Step, caches
    <2> QED
      BY <2>1, <2>2
  <1>4. WriteReached'
    <2> SUFFICES ASSUME Reached(DepWritten)', dep'.exists
                 PROVE  dep'.sel = "current" /\ dep'.tmpl = Template(cIsvc'.spec)
      BY DEF WriteReached
    <2>0. DepWritten \in Sets
      BY DEF Sets
    <2>1. CASE Reached(DepWritten)
      <3>1. w.pc \in DepWritten \cup {"idle", "status"} /\ cIsvc' = cIsvc
        BY <1>s, <1>w, <2>0, <2>1
      <3>2. ~OperatorWrites
        BY <3>1
        DEF OperatorWrites, DeleteDeployment, CreateDeployment, UpdateDeployment,
            SetInitialReplicas, At, DepWritten, DepRead, ServiceDone, ScalingDone, RoutingDone
      <3>3. CASE dep' = dep
        BY <2>1, <3>1, <3>3 DEF RestInv, WriteReached
      <3>4. CASE OthersWrite
        BY <2>1, <3>1, <3>4, OthersFields, FixedFields DEF RestInv, WriteReached
      <3> QED
        BY <3>2, <3>3, <3>4, DeploymentSteps
    <2>2. CASE ~Reached(DepWritten)
      <3>1. /\ w.pc \notin DepWritten /\ w'.pc \in DepWritten /\ Advances
            /\ w.spec = cIsvc.spec /\ cIsvc' = cIsvc
        BY <1>s, <2>0, <2>2
      <3>2. UpdateDeployment
        BY <3>1 DEF Advances, DepWritten, DepRead, ServiceDone, ScalingDone, RoutingDone
      <3>3. dep' = AppliedDeployment(w.spec) /\ (dep.exists => dep.sel = "current")
        BY <3>2 DEF UpdateDeployment, ApplyDeployment, SelectorAccepted
      <3> QED
        BY <3>1, <3>3, AppliedFields
    <2> QED
      BY <2>1, <2>2
  <1>5. ReadReached'
    <2> SUFFICES ASSUME Reached(DepRead)' PROVE cDep'.exists
      BY DEF ReadReached
    <2>0. DepRead \in Sets /\ ~queued'
      BY <1>q DEF Sets
    <2>1. CASE Reached(DepRead)
      <3>1. cDep.exists /\ cDep.sel = "current"
        BY <1>m, <2>1 DEF RestInv, ReadReached, LookReached
      <3>2. cDep.owned
        BY <3>1 DEF RestInv, WrittenInv, Current
      <3>3. SyncDeployment => queued'
        BY <3>2 DEF SyncDeployment, EnqueueOwner
      <3> QED
        BY <2>0, <3>1, <3>3, ObjectSteps
    <2>2. CASE ~Reached(DepRead)
      <3>1. w.pc \notin DepRead /\ w'.pc \in DepRead /\ Advances
        BY <1>s, <2>0, <2>2
      <3>2. ReadDeployment /\ cDep.exists
        BY <3>1 DEF Advances, DepRead, ServiceDone, ScalingDone, RoutingDone
      <3> QED
        BY <3>2 DEF ReadDeployment, Step, caches
    <2> QED
      BY <2>1, <2>2
  <1>6. ServiceReached'
    <2> SUFFICES ASSUME Reached(ServiceDone)' PROVE service'
      BY DEF ServiceReached
    <2>0. ServiceDone \in Sets /\ ~queued'
      BY <1>q DEF Sets
    <2>1. CASE Reached(ServiceDone)
      <3>1. service' = service
        BY <2>0, ObjectSteps DEF Events
      <3> QED
        BY <2>1, <3>1 DEF RestInv, ServiceReached
    <2>2. CASE ~Reached(ServiceDone)
      <3>1. w.pc \notin ServiceDone /\ w'.pc \in ServiceDone /\ Advances
        BY <1>s, <2>0, <2>2
      <3>2. ApplyService
        BY <3>1 DEF Advances, ServiceDone, ScalingDone, RoutingDone
      <3> QED
        BY <3>2 DEF ApplyService
    <2> QED
      BY <2>1, <2>2
  <1>7. ScalingReached'
    <2> SUFFICES ASSUME Reached(ScalingDone)'
                 PROVE  IF cIsvc'.spec.backend = "Ollama" THEN ~so'.exists
                        ELSE /\ so'.exists => /\ so'.min = cIsvc'.spec.min
                                              /\ so'.max = cIsvc'.spec.max
                             /\ "ScaledObject" \in watched' => so'.exists
      BY DEF ScalingReached
    <2>0. ScalingDone \in Sets /\ ~queued'
      BY <1>q DEF Sets
    <2>n. ~NoScaledObject.exists
      BY DEF NoScaledObject
    <2>1. CASE Reached(ScalingDone)
      <3>1. cIsvc' = cIsvc /\ watched' = watched /\ ~ApplyScaledObject
        BY <1>s, <1>w, <2>0, <2>1 DEF ApplyScaledObject, At, ScalingDone, RoutingDone
      <3>2. "ScaledObject" \in watched => so' = so
        BY <2>0, ObjectSteps DEF Events
      <3>3. \/ so' = so \/ so' = NoScaledObject
            \/ so.exists /\ so'.exists /\ so'.min = so.min /\ so'.max = so.max
        BY <3>1, ObjectSteps
      <3>4. IF cIsvc.spec.backend = "Ollama" THEN ~so.exists
            ELSE /\ so.exists => so.min = cIsvc.spec.min /\ so.max = cIsvc.spec.max
                 /\ "ScaledObject" \in watched => so.exists
        BY <2>1 DEF RestInv, ScalingReached
      <3> QED
        BY <2>n, <3>1, <3>2, <3>3, <3>4
    <2>2. CASE ~Reached(ScalingDone)
      <3>1. /\ w.pc \notin ScalingDone /\ w'.pc \in ScalingDone /\ Advances
            /\ w.spec = cIsvc.spec /\ cIsvc' = cIsvc /\ watched' = watched
        BY <1>s, <2>0, <2>2
      <3>2. DropScaledObject \/ KEDAMissing \/ ApplyScaledObject
        BY <3>1 DEF Advances, ScalingDone, RoutingDone
      <3>3. CASE DropScaledObject
        BY <2>n, <3>1, <3>3 DEF DropScaledObject
      <3>4. CASE KEDAMissing
        <4>1. so' = so /\ "ScaledObject" \notin crds /\ w.spec.backend # "Ollama"
          BY <3>4 DEF KEDAMissing, clusterVars
        <4>2. ~so.exists /\ "ScaledObject" \notin watched
          BY <4>1 DEF RestInv, WrittenInv, TypeOK
        <4> QED
          BY <3>1, <4>1, <4>2
      <3>5. CASE ApplyScaledObject
        <4>1. so' = [so EXCEPT !.exists = TRUE, !.min = w.spec.min, !.max = w.spec.max]
              /\ w.spec.backend # "Ollama"
          BY <3>5 DEF ApplyScaledObject, DesiredScaledObject
        <4>2. so \in ScaledObjects
          BY DEF TypeOK, ClusterTypeOK
        <4> QED
          BY <3>1, <4>1, <4>2 DEF ScaledObjects
      <3> QED
        BY <3>2, <3>3, <3>4, <3>5
    <2> QED
      BY <2>1, <2>2
  <1>8. RoutingReached'
    <2> SUFFICES ASSUME Reached(RoutingDone)', "InferencePool" \in watched' PROVE pool'
      BY DEF RoutingReached
    <2>0. RoutingDone \in Sets /\ ~queued'
      BY <1>q DEF Sets
    <2>1. watched' = watched
      BY <1>s, <2>0
    <2>2. CASE Reached(RoutingDone)
      <3>1. pool' = pool
        BY <2>0, <2>1, ObjectSteps DEF Events
      <3> QED
        BY <2>1, <2>2, <3>1 DEF RestInv, RoutingReached
    <2>3. CASE ~Reached(RoutingDone)
      <3>1. w.pc \notin RoutingDone /\ w'.pc \in RoutingDone /\ Advances
        BY <1>s, <2>0, <2>3
      <3>2. ApplyInferencePool
        BY <3>1 DEF Advances, RoutingDone
      <3>3. "InferencePool" \in crds
        BY <2>1 DEF TypeOK
      <3> QED
        BY <3>2, <3>3 DEF ApplyInferencePool
    <2> QED
      BY <2>2, <2>3
  <1> QED
    BY <1>1, <1>2, <1>3, <1>4, <1>5, <1>6, <1>7, <1>8 DEF RestInv

\* As long as nobody else takes the Deployment's name or deletes claim templates,
\* the operator does not come to rest while a child is missing, outdated, on its
\* way out or left over: whatever copies a pass decided on, it has either
\* reached what the spec wants or has an event or a retry ahead of it.
THEOREM RestIsEarned ==
    ASSUME "squat" \notin Disruptors, "unclaim" \notin Disruptors
    PROVE  Spec => []RestsOnlyWhenDone
  <1>1. TypeOK /\ CopyInv /\ RestInv => RestsOnlyWhenDone
    <2> SUFFICES ASSUME TypeOK, CopyInv, RestInv, AtRest, Accepted PROVE ChildrenMatch
      BY DEF RestsOnlyWhenDone
    <2>1. /\ cIsvc = isvc /\ cDep = dep /\ cClaim = claim /\ watched = crds
          /\ \A pcs : Reached(pcs)
      BY DEF CopyInv, AtRest, At, Accepted, Reached
    <2>2. DeploymentMatches
      BY <2>1 DEF RestInv, LookReached, WriteReached, ReadReached, DeploymentMatches
    <2>3. ClaimMatches
      BY <2>1 DEF RestInv, ClaimReached, ClaimMatches
    <2>4. ScaledObjectMatches
      BY <2>1 DEF RestInv, WrittenInv, ScalingReached, ScaledObjectMatches
    <2>5. service /\ (pool <=> "InferencePool" \in crds)
      BY <2>1 DEF RestInv, WrittenInv, ServiceReached, RoutingReached
    <2> QED
      BY <2>2, <2>3, <2>4, <2>5 DEF ChildrenMatch
  <1> QED
    BY <1>1, CopyStart, CopyKept, RecreateStart, RecreateSteps, RestStart, RestSteps,
       TypeCorrect, PTL DEF Spec
=============================================================================
