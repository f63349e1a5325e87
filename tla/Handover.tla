------------------------------ MODULE Handover ------------------------------
(***************************************************************************)
(* Two operator processes around a lost lease.  Leader election gives a    *)
(* manager that stops, or can no longer renew its lease, a successor; the  *)
(* old process exits, but one call it has sent may still be on its way to  *)
(* the API server, and take effect after the successor has started, at any *)
(* time or never.                                                          *)
(***************************************************************************)
EXTENDS OperatorProperties

VARIABLES
    lost,  \* has the lease been lost?  Once in a behaviour
    late   \* the worker of the old process, as of the call under way

handoverVars == <<vars, lost, late>>

\* The calls that write; a pass that has nothing to write sends none.
Writes(x) ==
    \/ x.pc \in {"delete", "create", "replicas", "apply", "service"}
    \/ x.pc = "claim" /\ (x.spec.device # NoDevice \/ (cClaim.exists /\ cClaim.owned))
    \/ x.pc = "autoscale" /\ (x.spec.backend = "Ollama" \/ "ScaledObject" \in crds)
    \/ x.pc = "route" /\ "InferencePool" \in crds
    \/ x.pc = "status" /\ [x.st EXCEPT !.obsGen = x.gen] # x.before

\* A call carries its object, and the status update all that was built.
Sent(x) == IF x.pc = "status" THEN x ELSE [IdleWorker EXCEPT !.pc = x.pc, !.spec = x.spec]

LeaseLost ==
    /\ ~lost /\ Writes(w)
    /\ lost' = TRUE /\ late' = Sent(w) /\ Restart /\ UNCHANGED disruptions

-----------------------------------------------------------------------------
(* The late call: what it would have done, done to what is there by now.     *)

LateClaim ==
    /\ late.pc = "claim"
    /\ IF late.spec.device = NoDevice THEN claim' = NoClaim
       ELSE ClaimAccepted(ClaimRequest(late.spec)) /\ claim' = AppliedClaim(late.spec)
    /\ OnlyClaim

\* The delete goes by name, whatever Deployment has the name now.
LateDeployment ==
    /\ \/ late.pc = "delete" /\ dep' = NoDeployment
       \/ /\ late.pc \in {"create", "apply"} /\ SelectorAccepted
          /\ dep' = AppliedDeployment(late.spec)
    /\ OnlyDeployment

\* Mutant: the initial count is applied with force.
LateReplicasForced ==
    /\ late.pc = "replicas" /\ dep.exists
    /\ dep' = [dep EXCEPT !.replicas = late.spec.min, !.owner = "initial"]
    /\ OnlyDeployment

LateReplicas ==
    /\ late.pc = "replicas" /\ ReplicasAccepted(late.spec.min)
    /\ dep' = [dep EXCEPT !.replicas = late.spec.min,
                          !.owner = IF @ = "autoscaler" THEN @ ELSE "initial"]
    /\ OnlyDeployment

LateOther ==
    /\ \/ late.pc = "service" /\ service' = TRUE /\ UNCHANGED <<so, pool>>
       \/ /\ late.pc = "autoscale" /\ UNCHANGED <<service, pool>>
          /\ so' = IF late.spec.backend = "Ollama" THEN NoScaledObject
                   ELSE DesiredScaledObject(late.spec)
       \/ late.pc = "route" /\ pool' = TRUE /\ UNCHANGED <<so, service>>
    /\ OnlyOther

\* The successor's watches tell it of the write like of anybody else's.
LateCall ==
    /\ LateClaim \/ LateDeployment \/ LateReplicas \/ LateOther
    /\ late' = IdleWorker /\ ChildWritten /\ UNCHANGED <<lost, disruptions>>

\* The status update carries a resourceVersion: it is refused when anybody has
\* written the object since.
LateStatus ==
    /\ late.pc = "status" /\ isvc.exists /\ late.fresh
    /\ isvc' = [isvc EXCEPT !.st = [late.st EXCEPT !.obsGen = late.gen]] /\ OnlyIsvc
    /\ late' = IdleWorker /\ IsvcWritten /\ UNCHANGED <<lost, disruptions>>

-----------------------------------------------------------------------------
LateStays == late' = IF isvc' = isvc THEN late ELSE [late EXCEPT !.fresh = FALSE]

HandoverInit == Init /\ lost = FALSE /\ late = IdleWorker
HandoverNext == (Next /\ LateStays /\ UNCHANGED lost) \/ LeaseLost \/ LateCall \/ LateStatus

HandoverSpec     == HandoverInit /\ [][HandoverNext]_handoverVars
FairHandoverSpec == HandoverSpec /\ ClusterIsFair /\ WF_vars(ReconcileUnlessDrift)

\* A late call, too, leaves a count that the autoscaler owns alone.
LateCallsKeepTheCount ==
    [][late' # late /\ dep.exists /\ dep'.exists /\ dep.owner = "autoscaler" =>
          dep'.replicas = dep.replicas /\ dep'.owner = "autoscaler"]_handoverVars
=============================================================================
