------------------------- MODULE OperatorProperties -------------------------
(* What the reconciler guarantees whatever the other writers do and whenever *)
(* calls fail or the operator restarts.                                      *)
EXTENDS Operator

(* Safety *)

\* Whatever the installed CRD admits, a Deployment the operator has written
\* keeps the placement policy: Restricted data is served by vLLM only, and vLLM
\* never runs without a device claim.  (policyViolation's early return in
\* reconcile, on specs that change between any two calls.)
DeployedWithinPolicy ==
    dep.exists /\ dep.sel = "current" =>
        /\ dep.tmpl.class = "Restricted" => dep.tmpl.backend = "vLLM"
        /\ dep.tmpl.backend = "vLLM" => dep.tmpl.claim

\* ADR-0004: once the autoscaler owns the replica count, no step of the
\* operator changes the count or takes it back, not even when the autoscaler
\* gets in between the two applies of createDeployment.
AutoscalerCountSurvives ==
    [][w' # w /\ dep.exists /\ dep'.exists /\ dep.owner = "autoscaler" =>
          dep'.replicas = dep.replicas /\ dep'.owner = "autoscaler"]_vars

\* The recreate path of reconcileDeployment decides on a cached Deployment, but
\* it never deletes one that has the current selector already, and so never
\* one it created itself a moment ago.
CurrentDeploymentKept ==
    [][w' # w /\ dep.exists /\ dep.sel = "current" => dep'.exists]_vars

\* "The claim template has to exist before a pod that names it can schedule":
\* when the operator writes a pod template that names the claim template, the
\* claim template is there, and asks for the device of the same spec.
ClaimBeforeDeployment ==
    [][isvc.exists /\ w' # w /\ dep' # dep /\ dep'.exists /\ dep'.tmpl.claim =>
          claim.exists /\ claim.req = ClaimRequest(w.spec)]_vars

\* observedGeneration is a promise: when it names the current generation, the
\* Admitted condition is the verdict on the current spec and not on an older
\* one that a reconcile was still working on when the user wrote.
StatusSpeaksForItsGeneration ==
    isvc.exists /\ isvc.st.obsGen = isvc.gen =>
        (isvc.st.adm = "PolicyViolation" <=> PolicyViolation(isvc.spec))

\* The Deployment's replica count is written as the abstract specification of
\* ADR-0004 allows: a Deployment that goes and comes back, retried creations and
\* updates from old copies included.
Replicas == INSTANCE ReplicaOwnership
               WITH exists <- dep.exists, count <- dep.replicas, owner <- dep.owner
ReplicasAsInADR0004 == Replicas!Spec

-----------------------------------------------------------------------------
(* At rest *)

Accepted == isvc.exists /\ ~PolicyViolation(isvc.spec)
Reported == /\ isvc.st.phase = "Rejected" /\ isvc.st.adm = "PolicyViolation"
            /\ isvc.st.obsGen = isvc.gen

DeploymentMatches ==
    dep.exists /\ ~dep.deleting /\ dep.sel = "current" /\ dep.tmpl = Template(isvc.spec)

ClaimMatches ==
    IF isvc.spec.device = NoDevice THEN ~claim.owned
    ELSE claim.exists /\ claim.req = ClaimRequest(isvc.spec)

ScaledObjectMatches ==
    IF isvc.spec.backend # "Ollama" /\ "ScaledObject" \in crds
    THEN so.exists /\ so.min = isvc.spec.min /\ so.max = isvc.spec.max
    ELSE ~so.exists

ChildrenMatch ==
    /\ DeploymentMatches /\ ClaimMatches /\ ScaledObjectMatches
    /\ service /\ (pool <=> "InferencePool" \in crds)

\* No service is forgotten: its key is queued, delayed or in work, or an event
\* is on its way, unless it is rejected and its status says so for the current
\* generation.  (Each return of Reconcile has to ask for a requeue, return an
\* error, or be sure that the next event is the user's.)
NothingForgotten ==
    isvc.exists =>
        \/ queued \/ timer # "none" \/ ~At("idle") \/ ~fresh
        \/ PolicyViolation(isvc.spec) /\ Reported

\* The worker waits for nothing but its next resync or poll, no error is to be
\* tried again, the caches are up to date and all that is installed is watched.
AtRest ==
    /\ At("idle") /\ ~queued /\ timer # "retry"
    /\ fresh /\ cDep = dep /\ cClaim = claim /\ watched = crds

\* The operator does not come to rest before its work is done: at rest every
\* child is there and as the current spec wants it, whatever old copies
\* reconcile took its decisions on, and whatever was edited, removed, retried
\* or cut short by a crash on the way.
RestsOnlyWhenDone == AtRest /\ Accepted => ChildrenMatch

-----------------------------------------------------------------------------
(* Liveness *)

\* Once the disruptions are over, every child matches the last spec written and
\* stays so, whichever caches were old and whichever calls failed on the way.
ChildrenConverge ==
    <>[](Accepted => ChildrenMatch)

\* And the status tells the truth: about the Deployment's replicas, about pods
\* that raise no event, and about the word of a KEDA that may not be watched.
TruePhase       == IF dep.ready THEN "Ready" ELSE PodTrouble(pods)
TrueAutoscaling == IF isvc.spec.backend = "Ollama" THEN "BackendNotSupported"
                   ELSE IF "ScaledObject" \in crds THEN Verdict
                   ELSE "KEDANotInstalled"
StatusConverges ==
    <>[](Accepted =>
            isvc.st = [obsGen |-> isvc.gen, phase |-> TruePhase, ready |-> dep.ready,
                       endpoint |-> TRUE, adm |-> "PolicySatisfied",
                       rdy |-> IF dep.ready THEN "MinimumReplicasAvailable"
                               ELSE NotReadyReason(TruePhase),
                       aut |-> TrueAutoscaling, rou |-> Routing])

\* A spec the operator rejects is reported as rejected although its reconcile
\* asks for no requeue ("nothing to retry until the spec changes").
RejectionReported ==
    <>[](isvc.exists /\ PolicyViolation(isvc.spec) => Reported)

\* The owner references are enough to clean up after a deleted service, even
\* when the worker goes on creating children from its old copy of it: what is
\* left, if anything, is a Deployment somebody else has made.
NothingLeftBehind ==
    <>[](~isvc.exists => /\ dep.exists => dep.sel = "foreign"
                         /\ ~claim.exists /\ ~so.exists /\ ~service /\ ~pool)
=============================================================================
