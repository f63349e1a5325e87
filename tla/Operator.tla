------------------------------ MODULE Operator ------------------------------
(***************************************************************************)
(* The InferenceService reconciler: the informer caches it reads, the work *)
(* queue, and the one worker that reconciles the object, against the API   *)
(* server and the other writers of module Cluster.                         *)
(*                                                                         *)
(* Every API call of Reconcile is a step of its own, so anyone may act, or *)
(* the operator may die, between any two.  Typed reads (InferenceService,  *)
(* Deployment, ResourceClaimTemplate) are served from the informer cache   *)
(* and may be old; unstructured reads (ScaledObject) and all writes go to  *)
(* the API server.                                                         *)
(***************************************************************************)
EXTENDS Cluster

CONSTANTS
    MaxDisruptions,  \* bound on the disruptions of a behaviour
    Disruptors       \* the kinds of step that count as disruptions

ASSUME BoundAssumption == MaxDisruptions \in Nat

VARIABLES
    cIsvc,       \* the informer's copy of isvc
    fresh,       \* is the copy at the object's latest resourceVersion?
    cDep,        \* the informer's copy of dep
    cClaim,      \* the informer's copy of claim
    queued,      \* is the object's key in the work queue?
    timer,       \* the delayed requeue that is pending, if any
    watched,     \* the optional CRDs that were installed when the manager started
    w,           \* the worker
    disruptions  \* how many disruptions there have been

caches == <<cIsvc, fresh, cDep, cClaim>>
vars   == <<clusterVars, caches, queued, timer, watched, w, disruptions>>

-----------------------------------------------------------------------------
(* The queue and the worker *)

\* A delayed requeue: none, 5 minutes (driftRequeue), 30 seconds
\* (notReadyRequeue), or a few seconds (the 5 of a wait, or an error's back-off).
Timers == {"none", "drift", "poll", "retry"}

\* The queue keeps one delayed entry for the key, the earliest asked for.
Earliest(t, u) ==
    IF "retry" \in {t, u} THEN "retry"
    ELSE IF "poll" \in {t, u} THEN "poll"
    ELSE IF "drift" \in {t, u} THEN "drift"
    ELSE "none"

Pcs == {"idle", "claim", "dep", "delete", "create", "replicas", "apply", "read",
        "service", "autoscale", "verdict", "route", "finish", "status"}

\* spec, gen and before come from the cached copy Reconcile started from; st is
\* the in-memory status it builds; fresh tells whether the copy still has the
\* live object's resourceVersion; ready is dep.Status.ReadyReplicas > 0 as
\* reconcileDeployment read it; again is the requeue the result asks for.
Workers ==
    [pc : Pcs, spec : UserSpecs, gen : Nat, fresh : BOOLEAN, st : Statuses,
     before : Statuses, ready : BOOLEAN, again : Timers]

IdleWorker ==
    [pc |-> "idle", spec |-> CHOOSE s \in UserSpecs : TRUE, gen |-> 0,
     fresh |-> FALSE, st |-> EmptyStatus, before |-> EmptyStatus,
     ready |-> FALSE, again |-> "none"]

\* Changes of the children that are not read through a cache enqueue their
\* owner: the Service's always, the optional kinds' if they are watched.
Events ==
    queued' = \/ queued \/ service' # service
              \/ so' # so /\ "ScaledObject" \in watched
              \/ pool' # pool /\ "InferencePool" \in watched

\* What a step of the worker within reconcile() leaves alone.
Step == Events /\ UNCHANGED <<caches, timer, watched, disruptions>>

At(pc)   == w.pc = pc
Goto(pc) == w' = [w EXCEPT !.pc = pc]

\* The end of reconcile(): on to the status update.
Return(again) == w' = [w EXCEPT !.pc = "status", !.again = again]

\* The end of Reconcile(): an error or a RequeueAfter comes back later.
Done(again) ==
    /\ w' = IdleWorker /\ timer' = Earliest(timer, again)
    /\ UNCHANGED <<cIsvc, cDep, cClaim, queued, watched>>

Init ==
    /\ ClusterInit
    /\ cIsvc = isvc /\ fresh = TRUE /\ cDep = dep /\ cClaim = claim
    /\ queued = TRUE /\ timer = "none" /\ watched = crds
    /\ w = IdleWorker /\ disruptions = 0

-----------------------------------------------------------------------------
(* Reconcile: the read, the policy verdict, the claim template *)

\* The worker takes the key once it is queued or its delay has run out; a delay
\* that runs out while the key is queued adds nothing.
TakeKey ==
    /\ At("idle") /\ (queued \/ timer # "none")
    /\ queued' = FALSE
    /\ timer' \in IF queued THEN {timer, "none"} ELSE {"none"}
    /\ UNCHANGED <<clusterVars, caches, watched, disruptions>>

Begin(st, pc) ==
    w' = [pc |-> pc, spec |-> cIsvc.spec, gen |-> cIsvc.gen, fresh |-> fresh,
          st |-> st, before |-> cIsvc.st, ready |-> FALSE, again |-> "none"]

ReconcileNotFound == TakeKey /\ ~cIsvc.exists /\ UNCHANGED w

ReconcileRejected ==
    /\ TakeKey /\ cIsvc.exists /\ PolicyViolation(cIsvc.spec)
    /\ Begin([cIsvc.st EXCEPT !.adm = "PolicyViolation", !.phase = "Rejected"], "status")

ReconcileAdmitted ==
    /\ TakeKey /\ cIsvc.exists /\ ~PolicyViolation(cIsvc.spec)
    /\ Begin([cIsvc.st EXCEPT !.adm = "PolicySatisfied"], "claim")

AppliedUnowned(spec) == [exists |-> TRUE, owned |-> FALSE, req |-> ClaimRequest(spec)]  \* Mutant
AppliedClaim(spec)   == [exists |-> TRUE, owned |-> TRUE, req |-> ClaimRequest(spec)]

ApplyClaim ==
    /\ At("claim") /\ w.spec.device # NoDevice /\ ClaimAccepted(ClaimRequest(w.spec))
    /\ claim' = AppliedClaim(w.spec) /\ OnlyClaim
    /\ Goto("dep") /\ Step

\* deleteIfOwned: ownership as the cache has it, then a delete by name.
DropClaim ==
    /\ At("claim") /\ w.spec.device = NoDevice
    /\ claim' = IF cClaim.exists /\ cClaim.owned THEN NoClaim ELSE claim
    /\ OnlyClaim
    /\ Goto("dep") /\ Step

-----------------------------------------------------------------------------
(* reconcileDeployment and createDeployment *)

\* The first read, and the four ways on from it.
Look == At("dep") /\ UNCHANGED clusterVars /\ Step

DeploymentMissing     == Look /\ ~cDep.exists /\ Goto("create")
DeploymentTerminating == Look /\ cDep.exists /\ cDep.deleting /\ Return("retry")
DeploymentCurrent ==
    Look /\ cDep.exists /\ ~cDep.deleting /\ cDep.sel = "current" /\ Goto("apply")
DeploymentOutdated ==
    /\ Look /\ cDep.exists /\ ~cDep.deleting /\ cDep.sel # "current"
    /\ w' = [w EXCEPT !.pc = "delete", !.st = [@ EXCEPT !.rdy = "RecreatingDeployment"]]

\* Mutant: delete and create in one pass, without waiting for the cache.
DeleteAndCreate ==
    At("delete") /\ dep' = NoDeployment /\ OnlyDeployment /\ Goto("create") /\ Step

\* Background propagation: the object is gone at once, its pods follow.
DeleteDeployment ==
    /\ At("delete")
    /\ dep' = NoDeployment /\ OnlyDeployment
    /\ Return("retry") /\ Step

CreatedDeployment(spec) ==
    [NoDeployment EXCEPT !.exists = TRUE, !.tmpl = Template(spec), !.replicas = 1, !.owned = TRUE]

\* Mutants: an update that leaves the template alone, and one by a manager that
\* used to list the replica count and now leaves it out.
AppliedOnce(spec) == IF dep.exists THEN dep ELSE CreatedDeployment(spec)
AppliedReset(spec) ==
    IF dep.exists THEN [dep EXCEPT !.tmpl = Template(spec), !.replicas = 1, !.owner = "none"]
    ELSE CreatedDeployment(spec)

\* Server-side apply of desiredDeployment, which lists no replicas: on an absent
\* object the API server defaults them to 1.
AppliedDeployment(spec) ==
    IF dep.exists THEN [dep EXCEPT !.tmpl = Template(spec), !.owned = TRUE]
    ELSE CreatedDeployment(spec)

ApplyDeployment(to) ==
    /\ SelectorAccepted
    /\ dep' = AppliedDeployment(w.spec) /\ OnlyDeployment
    /\ Goto(to) /\ Step

CreateDeployment == At("create") /\ ApplyDeployment("replicas")
UpdateDeployment == At("apply") /\ ApplyDeployment("read")

\* That apply with ForceOwnership, like all the others.
ForceInitialReplicas ==
    /\ At("replicas") /\ dep.exists
    /\ dep' = [dep EXCEPT !.replicas = w.spec.min, !.owner = "initial"]
    /\ OnlyDeployment
    /\ Goto("apply") /\ Step

\* The second apply of createDeployment carries replicas alone, under a second
\* field manager and without force.
SetInitialReplicas ==
    /\ At("replicas") /\ ReplicasAccepted(w.spec.min)
    /\ dep' = [dep EXCEPT !.replicas = w.spec.min,
                          !.owner = IF @ = "autoscaler" THEN @ ELSE "initial"]
    /\ OnlyDeployment
    /\ Goto("apply") /\ Step

\* The read after the apply: the cache may not have the Deployment yet.
ReadDeployment ==
    /\ At("read")
    /\ IF cDep.exists THEN w' = [w EXCEPT !.pc = "service", !.ready = cDep.ready]
                      ELSE Return("retry")
    /\ UNCHANGED clusterVars /\ Step

-----------------------------------------------------------------------------
(* The Service, reconcileAutoscaling, reconcileRouting *)

ApplyService ==
    /\ At("service")
    /\ service' = TRUE /\ UNCHANGED <<so, pool>> /\ OnlyOther
    /\ Goto("autoscale") /\ Step

\* The Autoscaling condition, and on to the InferencePool.
Autoscaling(reason) ==
    w' = [w EXCEPT !.pc = "route", !.st = [@ EXCEPT !.aut = reason]]

DropScaledObject ==
    /\ At("autoscale") /\ w.spec.backend = "Ollama"
    /\ so' = NoScaledObject /\ UNCHANGED <<service, pool>> /\ OnlyOther
    /\ Autoscaling("BackendNotSupported") /\ Step

KEDAMissing ==
    /\ At("autoscale") /\ w.spec.backend # "Ollama" /\ "ScaledObject" \notin crds
    /\ Autoscaling("KEDANotInstalled")
    /\ UNCHANGED clusterVars /\ Step

DesiredScaledObject(spec) ==
    [so EXCEPT !.exists = TRUE, !.min = spec.min, !.max = spec.max]

ApplyScaledObject ==
    /\ At("autoscale") /\ w.spec.backend # "Ollama" /\ "ScaledObject" \in crds
    /\ so' = DesiredScaledObject(w.spec) /\ UNCHANGED <<service, pool>> /\ OnlyOther
    /\ Goto("verdict") /\ Step

\* scaledObjectReady: KEDA's word, not the operator's.
Verdict == CASE so.verdict = "True"    -> "ScalerReady"
             [] so.verdict = "False"   -> "ScalerNotReady"
             [] so.verdict = "Unknown" -> "WaitingForKEDA"

ReadVerdict ==
    /\ At("verdict")
    /\ IF so.exists THEN Autoscaling(Verdict) ELSE Return("retry")
    /\ UNCHANGED clusterVars /\ Step

Routing == IF "InferencePool" \in crds THEN "InferencePoolApplied"
           ELSE "InferencePoolNotInstalled"

ApplyInferencePool ==
    /\ At("route")
    /\ pool' = (pool \/ "InferencePool" \in crds) /\ UNCHANGED <<so, service>> /\ OnlyOther
    /\ w' = [w EXCEPT !.pc = "finish", !.st = [@ EXCEPT !.rou = Routing]]
    /\ Step

-----------------------------------------------------------------------------
(* The end of reconcile() and the status update *)

FinalPhase == IF w.ready THEN "Ready" ELSE PodTrouble(pods)

FinishWith(ifReady, ifNot) ==
    /\ At("finish")
    /\ w' = [w EXCEPT
                !.pc = "status",
                !.again = IF w.ready THEN ifReady ELSE ifNot,
                !.st = [@ EXCEPT
                           !.ready = w.ready, !.endpoint = TRUE, !.phase = FinalPhase,
                           !.rdy = IF w.ready THEN "MinimumReplicasAvailable"
                                   ELSE NotReadyReason(FinalPhase)]]
    /\ UNCHANGED clusterVars /\ Step

FinishNoResync == FinishWith("none", "poll")    \* Mutants
FinishNoPoll   == FinishWith("drift", "drift")

Finish == FinishWith("drift", "poll")

BuiltStatus == [w.st EXCEPT !.obsGen = w.gen]

StatusUnchanged ==
    /\ At("status") /\ BuiltStatus = w.before
    /\ Done(w.again) /\ UNCHANGED <<clusterVars, fresh, disruptions>>

\* Mutant: the status is patched onto whatever object is there by now.
PatchStatus ==
    /\ At("status") /\ BuiltStatus # w.before /\ isvc.exists
    /\ isvc' = [isvc EXCEPT !.st = [w.st EXCEPT !.obsGen = isvc.gen]] /\ OnlyIsvc
    /\ fresh' = FALSE
    /\ Done(w.again) /\ UNCHANGED disruptions

UpdateStatus ==
    /\ At("status") /\ BuiltStatus # w.before /\ isvc.exists /\ w.fresh
    /\ isvc' = [isvc EXCEPT !.st = BuiltStatus] /\ OnlyIsvc
    /\ fresh' = FALSE
    /\ Done(w.again) /\ UNCHANGED disruptions

\* The object has moved on or is gone: a conflict, and the error comes back.
StatusConflict ==
    /\ At("status") /\ BuiltStatus # w.before /\ ~(isvc.exists /\ w.fresh)
    /\ Done("retry") /\ UNCHANGED <<clusterVars, fresh, disruptions>>

\* A call the API server turns down by its rules, every time it is made.
Refused ==
    \/ At("claim") /\ w.spec.device # NoDevice /\ ~ClaimAccepted(ClaimRequest(w.spec))
    \/ (At("create") \/ At("apply")) /\ ~SelectorAccepted
    \/ At("replicas") /\ ~ReplicasAccepted(w.spec.min)

\* Mutant: the error of the claim template is logged and reconcile goes on.
ClaimErrorIgnored ==
    /\ Refused /\ (IF At("claim") THEN Goto("dep") ELSE Return("retry"))
    /\ UNCHANGED clusterVars /\ Step

CallRefused == Refused /\ Return("retry") /\ UNCHANGED clusterVars /\ Step

Reconcile ==
    \/ ReconcileNotFound \/ ReconcileRejected \/ ReconcileAdmitted
    \/ ApplyClaim \/ DropClaim
    \/ DeploymentMissing \/ DeploymentTerminating \/ DeploymentCurrent \/ DeploymentOutdated
    \/ DeleteDeployment \/ CreateDeployment \/ SetInitialReplicas
    \/ UpdateDeployment \/ ReadDeployment
    \/ ApplyService
    \/ DropScaledObject \/ KEDAMissing \/ ApplyScaledObject \/ ReadVerdict
    \/ ApplyInferencePool
    \/ Finish \/ StatusUnchanged \/ UpdateStatus \/ StatusConflict
    \/ CallRefused

-----------------------------------------------------------------------------
(* The informers *)

SyncIsvc ==
    /\ ~fresh
    /\ cIsvc' = isvc /\ fresh' = TRUE /\ queued' = TRUE
    /\ UNCHANGED <<clusterVars, cDep, cClaim, timer, watched, w, disruptions>>

\* An event on a child enqueues its owner, found in the new or the old object.
EnqueueNobody(old, new) == UNCHANGED queued  \* Mutant
EnqueueOwner(old, new) == queued' = (queued \/ old.owned \/ new.owned)

SyncDeployment ==
    /\ cDep # dep
    /\ cDep' = dep /\ EnqueueOwner(cDep, dep)
    /\ UNCHANGED <<clusterVars, cIsvc, fresh, cClaim, timer, watched, w, disruptions>>

SyncClaim ==
    /\ cClaim # claim
    /\ cClaim' = claim /\ EnqueueOwner(cClaim, claim)
    /\ UNCHANGED <<clusterVars, cIsvc, fresh, cDep, timer, watched, w, disruptions>>

-----------------------------------------------------------------------------
(* Disruptions *)

\* Mutant: kinds are watched without asking whether their CRDs are there.
RestartWatchingAll ==
    /\ w' = IdleWorker
    /\ cIsvc' = isvc /\ fresh' = TRUE /\ cDep' = dep /\ cClaim' = claim
    /\ queued' = TRUE /\ timer' = "none" /\ watched' = OptionalCRDs
    /\ UNCHANGED clusterVars

\* The manager dies, or loses its lease, and starts again: the work queue and
\* the worker are gone, the caches are listed anew, every object is enqueued,
\* and the optional kinds are watched if their CRDs are there.
Restart ==
    /\ w' = IdleWorker
    /\ cIsvc' = isvc /\ fresh' = TRUE /\ cDep' = dep /\ cClaim' = claim
    /\ queued' = TRUE /\ timer' = "none"
    /\ watched' = crds
    /\ UNCHANGED clusterVars

\* A call fails for a reason of the moment: the API server is away, a webhook
\* times out, the quota is used up.
CallFails ==
    /\ w.pc \in {"claim", "delete", "create", "replicas", "apply", "service",
                 "autoscale", "verdict", "route"}
    /\ Return("retry")
    /\ UNCHANGED <<clusterVars, caches, queued, timer, watched>>

\* Mutant: the error of the status update is logged and dropped.
StatusErrorDropped ==
    At("status") /\ BuiltStatus # w.before /\ Done("none") /\ UNCHANGED <<clusterVars, fresh>>

StatusCallFails ==
    /\ At("status") /\ BuiltStatus # w.before
    /\ Done("retry") /\ UNCHANGED <<clusterVars, fresh>>

\* Somebody else writes the InferenceService: every copy of it is out of date.
IsvcWritten ==
    /\ fresh' = FALSE /\ w' = [w EXCEPT !.fresh = FALSE]
    /\ UNCHANGED <<cIsvc, cDep, cClaim, queued, timer, watched>>

\* Somebody else writes a child.  Pods are listed, not watched: no event.
ChildWritten == Events /\ UNCHANGED <<caches, timer, watched, w>>

Disruption ==
    /\ disruptions < MaxDisruptions
    /\ disruptions' = disruptions + 1
    /\ \/ "crash"   \in Disruptors /\ Restart
       \/ "failure" \in Disruptors /\ (CallFails \/ StatusCallFails)
       \/ "update"  \in Disruptors /\ UserUpdates /\ IsvcWritten
       \/ "delete"  \in Disruptors /\ UserDeletes /\ IsvcWritten
       \/ "remove"  \in Disruptors /\ (UserDeletesDeployment \/ UserDeletesOther) /\ ChildWritten
       \/ "unclaim" \in Disruptors /\ UserDeletesClaim /\ ChildWritten
       \/ "squat"   \in Disruptors /\ NameTaken /\ ChildWritten
       \/ "scale"   \in Disruptors /\ AutoscalerScales /\ ChildWritten
       \/ "report"  \in Disruptors /\ (KubeletReports \/ KEDAReports \/ PodsChange) /\ ChildWritten
       \/ "install" \in Disruptors /\ CRDInstalled /\ ChildWritten

\* What the cluster's own controllers do about deleted objects.
CleanUp ==
    /\ DeploymentTerminates \/ CollectDeployment \/ CollectClaim \/ CollectOther
    /\ ChildWritten /\ UNCHANGED disruptions

-----------------------------------------------------------------------------
Next ==
    \/ Reconcile
    \/ SyncIsvc \/ SyncDeployment \/ SyncClaim
    \/ CleanUp
    \/ Disruption

Spec == Init /\ [][Next]_vars

\* Watches deliver and the cluster's controllers work; the worker runs when the
\* key is due.  Nobody else is fair: disruptions need not happen.
ClusterIsFair ==
    WF_vars(SyncIsvc) /\ WF_vars(SyncDeployment) /\ WF_vars(SyncClaim) /\ WF_vars(CleanUp)

FairSpec == Spec /\ ClusterIsFair /\ WF_vars(Reconcile)

\* The same without the five-minute resync where nothing needs it: if all that is
\* installed is watched, the worker need not come back for a drift requeue alone.
ReconcileUnlessDrift ==
    Reconcile /\ (~At("idle") \/ queued \/ timer # "drift" \/ watched # crds)
EventSpec            == Spec /\ ClusterIsFair /\ WF_vars(ReconcileUnlessDrift)

TypeOK ==
    /\ ClusterTypeOK
    /\ cIsvc \in Services /\ fresh \in BOOLEAN /\ cDep \in Deployments /\ cClaim \in Claims
    /\ queued \in BOOLEAN /\ timer \in Timers /\ watched \subseteq crds
    /\ w \in Workers
    /\ disruptions \in 0 .. MaxDisruptions
=============================================================================
