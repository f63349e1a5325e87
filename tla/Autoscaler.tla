----------------------------- MODULE Autoscaler -----------------------------
(***************************************************************************)
(* What the ScaledObject the operator writes for a vLLM service makes of   *)
(* the service's load: the three triggers, the scaling behaviour, and the  *)
(* horizontal pod autoscaler (HPA) that KEDA has follow them, over         *)
(* replicas that take the whole weight-load budget to start.               *)
(***************************************************************************)
EXTENDS Integers, FiniteSetsExt

CONSTANTS
    MinReplicas, MaxReplicas,
    QueueDepthTarget, KVCacheUsagePercent, TTFTP95Milliseconds,
    WeightLoadSeconds,
    SettleFloor,    \* the shortest scale-down window: 300 in the code
    ScaleUpPeriod,  \* seconds between two replicas added: 60 in the code
    Loads,          \* the loads callers put on the service
    MaxRestarts     \* bound on restarts of the HPA controller

\* kv: cache wanted in all, in percent of what one replica has.
LoadKinds == [queue : Nat, kv : Nat, ttft : Nat]

ASSUME AutoscalerAssumption ==
    /\ {MinReplicas, MaxReplicas, QueueDepthTarget, KVCacheUsagePercent,
        TTFTP95Milliseconds, ScaleUpPeriod} \subseteq Nat \ {0}
    /\ MinReplicas <= MaxReplicas
    /\ WeightLoadSeconds \in Nat /\ SettleFloor \in Nat /\ MaxRestarts \in Nat
    /\ Loads \subseteq LoadKinds

VARIABLES
    load,      \* what callers do now
    count,     \* spec.replicas
    age,       \* seconds each replica has had to load, up to WeightLoadSeconds
    since,     \* seconds since the HPA last wanted at least so many replicas
    sinceUp,   \* seconds since it last added one
    sinceDown, \* seconds since it last removed one
    restarts   \* how often its memory was lost

memory == <<since, sinceUp, sinceDown>>
vars   == <<load, count, age, memory, restarts>>

-----------------------------------------------------------------------------
(* What the operator writes *)

SettleAtFloor == SettleFloor                                                \* Mutant
Settle        == IF WeightLoadSeconds > SettleFloor THEN WeightLoadSeconds ELSE SettleFloor

CeilDiv(a, b) == (a + b - 1) \div b
Loaded(i)     == i <= count /\ age[i] = WeightLoadSeconds
Serving       == Cardinality({i \in 1 .. MaxReplicas : Loaded(i)})

\* The HPA leaves the count alone within a tenth of the target.
Near(value, target) == 10 * value <= 11 * target /\ 10 * value >= 9 * target

\* The two metric types of a trigger: a sum to be shared out, and a reading that
\* scales the replicas there are.
AverageValue(sum, target) ==
    IF Near(sum, target * count) THEN count ELSE CeilDiv(sum, target)
Value(reading, target) ==
    IF Near(reading, target) THEN count ELSE CeilDiv(Serving * reading, target)

SmallerOf(a, b) == IF a < b THEN a ELSE b

TriggersByAverage ==                                                        \* Mutants
    {AverageValue(load.queue, QueueDepthTarget),
     AverageValue(SmallerOf(load.kv, 100 * Serving), KVCacheUsagePercent),
     AverageValue(load.ttft, TTFTP95Milliseconds)}
TriggersAveraged ==
    {AverageValue(load.queue, QueueDepthTarget),
     AverageValue(SmallerOf(load.kv, 100 * Serving) \div Serving, KVCacheUsagePercent),
     Value(load.ttft, TTFTP95Milliseconds)}

\* A replica cannot report its cache more than full.
Triggers ==
    {AverageValue(load.queue, QueueDepthTarget),
     AverageValue(SmallerOf(load.kv, 100 * Serving), KVCacheUsagePercent),
     Value(load.ttft, TTFTP95Milliseconds)}

WithinAnything(n) == n                                                      \* Mutants
WithinSwapped(n)  == IF n < MaxReplicas THEN MaxReplicas ELSE MinReplicas
Within(n)         == IF n < MinReplicas THEN MinReplicas ELSE SmallerOf(n, MaxReplicas)

\* KEDA takes the largest.
Wanted == Within(Max(Triggers))

-----------------------------------------------------------------------------
(* The HPA *)

\* The scale-down window: it wanted fewer all the time.
WantsFewer == Wanted < count /\ \A n \in count .. MaxReplicas : since[n] >= Settle

Remember == since' = [n \in 1 .. MaxReplicas |-> IF n <= Wanted THEN 0 ELSE since[n]]

Adds ==
    /\ Wanted > count /\ sinceUp >= ScaleUpPeriod
    /\ count' = count + 1 /\ age' = [age EXCEPT ![count + 1] = 0]
    /\ sinceUp' = 0 /\ Remember /\ UNCHANGED <<load, sinceDown, restarts>>

Removes ==
    /\ WantsFewer /\ sinceDown >= Settle
    /\ count' = count - 1 /\ UNCHANGED age
    /\ sinceDown' = 0 /\ Remember /\ UNCHANGED <<load, sinceUp, restarts>>

Holds ==
    /\ Wanted > count => sinceUp < ScaleUpPeriod
    /\ WantsFewer => sinceDown < Settle
    /\ Remember /\ UNCHANGED <<load, count, age, sinceUp, sinceDown, restarts>>

Sync == Adds \/ Removes \/ Holds

\* A restarted HPA controller remembers nothing, and begins with the count there is.
HPARestarts ==
    /\ restarts < MaxRestarts /\ restarts' = restarts + 1
    /\ since' = [n \in 1 .. MaxReplicas |-> IF n <= count THEN 0 ELSE Settle]
    /\ sinceUp' = ScaleUpPeriod /\ sinceDown' = Settle
    /\ UNCHANGED <<load, count, age>>

-----------------------------------------------------------------------------
(* Callers and time *)

LoadChanges == \E l \in Loads : l # load /\ load' = l /\ UNCHANGED <<count, age, memory, restarts>>

Tick ==
    /\ age'   = [i \in 1 .. MaxReplicas |-> SmallerOf(age[i] + 1, WeightLoadSeconds)]
    /\ since' = [n \in 1 .. MaxReplicas |-> SmallerOf(since[n] + 1, Settle)]
    /\ sinceUp' = SmallerOf(sinceUp + 1, ScaleUpPeriod)
    /\ sinceDown' = SmallerOf(sinceDown + 1, Settle)
    /\ UNCHANGED <<load, count, restarts>>

Init ==
    /\ load \in Loads /\ count = MinReplicas
    /\ age = [i \in 1 .. MaxReplicas |-> WeightLoadSeconds]
    /\ since = [n \in 1 .. MaxReplicas |-> IF n <= MinReplicas THEN 0 ELSE Settle]
    /\ sinceUp = ScaleUpPeriod /\ sinceDown = Settle /\ restarts = 0

Next == Sync \/ HPARestarts \/ LoadChanges \/ Tick

Spec     == Init /\ [][Next]_vars
FairSpec == Spec /\ WF_vars(Tick) /\ WF_vars(Sync)

-----------------------------------------------------------------------------
\* The count stays within the bounds of the spec and the clocks within theirs.
TypeOK ==
    /\ load \in Loads /\ count \in MinReplicas .. MaxReplicas
    /\ age \in [1 .. MaxReplicas -> 0 .. WeightLoadSeconds]
    /\ since \in [1 .. MaxReplicas -> 0 .. Settle]
    /\ sinceUp \in 0 .. ScaleUpPeriod /\ sinceDown \in 0 .. Settle
    /\ restarts \in 0 .. MaxRestarts

\* "A replica removed while its replacement is still loading weights leaves the
\* service stuck in cold start, so the scale-down window is at least the
\* weight-load budget": no replica is removed while one that was added is still
\* loading, however the load swings and whenever the HPA forgets.
NoRemovalWhileLoading == [][count' < count => \A i \in 1 .. count : Loaded(i)]_vars

\* "Each trigger can scale up on its own": a queue, full caches, or a latency
\* over the target, with the other two at rest, brings the service to its
\* maximum in the end and keeps it there.
Pressing(l) ==
    \/ 10 * l.queue > 11 * QueueDepthTarget * MaxReplicas
    \/ l.kv >= 100 * MaxReplicas
    \/ 10 * l.ttft > 11 * TTFTP95Milliseconds
PressureIsAnswered == <>[]Pressing(load) => <>[](count = MaxReplicas)

\* A service nobody calls goes back to its minimum, in spite of the window and
\* although every replica removed opens a new one.
IdleShrinks ==
    <>[](load.queue = 0 /\ load.kv = 0 /\ load.ttft = 0) => <>[](count = MinReplicas)
=============================================================================
