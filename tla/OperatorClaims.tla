--------------------------- MODULE OperatorClaims ---------------------------
(* What documents, comments and tests of the repository say of the operator, *)
(* and its code does not do.  Each is refuted by a run of its own.           *)
EXTENDS OperatorProperties

\* "Ollama exports no queue metrics; replicas stay at minReplicas"
\* (inferenceservice_controller.go:281).  A service whose status says so ends up
\* at minReplicas, unless another manager has taken the count.
ReplicasStayAtMinReplicas ==
    <>[](Accepted /\ dep.exists /\ isvc.st.aut = "BackendNotSupported"
            /\ dep.owner # "autoscaler" => dep.replicas = isvc.spec.min)

\* "The second name never writes again." (inferenceservice_controller.go:263;
\* ADR-0004:30): a count set by createDeployment changes only when another
\* manager takes it.
InitialCountWrittenOnce ==
    [][dep.owner = "initial" /\ dep'.exists /\ dep'.owner = "initial" =>
          dep'.replicas = dep.replicas]_vars
=============================================================================
