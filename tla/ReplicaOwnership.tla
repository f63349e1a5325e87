-------------------------- MODULE ReplicaOwnership --------------------------
(***************************************************************************)
(* ADR-0004 as an abstract specification: who may write the replica count  *)
(* of the Deployment, and when.  The API server starts it at 1.  The       *)
(* operator may set the initial count as long as nobody else has taken it. *)
(* Once the autoscaler owns the count, it stays with the autoscaler until  *)
(* the Deployment goes.                                                    *)
(***************************************************************************)
EXTENDS Integers

CONSTANT MaxReplicas
VARIABLES exists, count, owner
vars == <<exists, count, owner>>

Counts == 0 .. MaxReplicas

Init == exists \in BOOLEAN /\ count \in Counts /\ owner = "none"

Appear == ~exists /\ exists' = TRUE /\ count' = 1 /\ owner' = "none"

SetInitial ==
    /\ exists /\ owner \in {"none", "initial"}
    /\ count' \in Counts \ {0} /\ owner' = "initial" /\ UNCHANGED exists

Scale ==
    /\ exists
    /\ count' \in Counts /\ owner' = "autoscaler" /\ UNCHANGED exists

Disappear == exists /\ exists' = FALSE /\ count' = 0 /\ owner' = "none"

Next == Appear \/ SetInitial \/ Scale \/ Disappear

Spec == Init /\ [][Next]_vars
=============================================================================
