-------------------------- MODULE AutoscalerProofs --------------------------
(* Proofs about Autoscaler, for every pair of replica bounds, every target,  *)
(* load time, window, pace and load.                                         *)
EXTENDS Autoscaler, FiniteSetTheorems, TLAPS

LEMMA ConstantsTyped ==
    /\ MinReplicas \in Nat \ {0} /\ MaxReplicas \in Nat \ {0} /\ MinReplicas <= MaxReplicas
    /\ QueueDepthTarget \in Nat \ {0} /\ KVCacheUsagePercent \in Nat \ {0}
    /\ TTFTP95Milliseconds \in Nat \ {0} /\ ScaleUpPeriod \in Nat \ {0}
    /\ WeightLoadSeconds \in Nat /\ SettleFloor \in Nat /\ MaxRestarts \in Nat
  BY AutoscalerAssumption

USE ConstantsTyped

LEMMA SettleNat == Settle \in Nat /\ Settle >= WeightLoadSeconds
  BY DEF Settle

-----------------------------------------------------------------------------
(* Type correctness: what the triggers want is a number, whatever the load. *)

LEMMA CeilDivInt == ASSUME NEW a \in Int, NEW b \in Nat \ {0} PROVE CeilDiv(a, b) \in Int
<1>1. a + b - 1 \in Int
  OBVIOUS
<1>2. QED
  BY <1>1, SMT DEF CeilDiv

LEMMA MaxOfThree ==
    ASSUME NEW a \in Int, NEW b \in Int, NEW c \in Int
    PROVE  Max({a, b, c}) \in {a, b, c}
<1>1. \E x \in {a, b, c} : \A y \in {a, b, c} : x >= y
  OBVIOUS
<1>2. QED
  BY <1>1 DEF Max

LEMMA ServingNat == Serving \in Nat
<1>1. IsFiniteSet(1 .. MaxReplicas)
  BY FS_Interval
<1>2. IsFiniteSet({i \in 1 .. MaxReplicas : Loaded(i)})
  BY <1>1, FS_Subset
<1>3. QED
  BY <1>2, FS_CardinalityType DEF Serving

LEMMA WantedInBounds == ASSUME TypeOK PROVE Wanted \in MinReplicas .. MaxReplicas
<1>1. count \in Int /\ load.queue \in Nat /\ load.kv \in Nat /\ load.ttft \in Nat
  BY AutoscalerAssumption DEF TypeOK, LoadKinds
<1>2. AverageValue(load.queue, QueueDepthTarget) \in Int
  BY <1>1, CeilDivInt DEF AverageValue
<1>3. AverageValue(SmallerOf(load.kv, 100 * Serving), KVCacheUsagePercent) \in Int
  <2>1. SmallerOf(load.kv, 100 * Serving) \in Int
    BY <1>1, ServingNat DEF SmallerOf
  <2>2. QED
    BY <1>1, <2>1, CeilDivInt DEF AverageValue
<1>4. Value(load.ttft, TTFTP95Milliseconds) \in Int
  <2>1. Serving * load.ttft \in Int
    BY <1>1, ServingNat
  <2>2. QED
    BY <1>1, <2>1, CeilDivInt DEF Value
<1>5. Max(Triggers) \in Int
  BY <1>2, <1>3, <1>4, MaxOfThree DEF Triggers
<1>6. QED
  BY <1>5 DEF Wanted, Within, SmallerOf

LEMMA AutoscalerType == ASSUME TypeOK, [Next]_vars PROVE TypeOK'
<1> USE SettleNat
<1>1. CASE Adds
  <2>1. count' = count + 1 /\ count' \in MinReplicas .. MaxReplicas
    BY <1>1, WantedInBounds DEF TypeOK, Adds
  <2>2. age' \in [1 .. MaxReplicas -> 0 .. WeightLoadSeconds]
    <3>1. age' = [age EXCEPT ![count + 1] = 0] /\ age \in [1 .. MaxReplicas -> 0 .. WeightLoadSeconds]
      BY <1>1 DEF TypeOK, Adds
    <3>2. 0 \in 0 .. WeightLoadSeconds
      OBVIOUS
    <3>3. QED
      BY <3>1, <3>2, Zenon
  <2>3. since' \in [1 .. MaxReplicas -> 0 .. Settle]
    BY <1>1, WantedInBounds DEF TypeOK, Adds, Remember
  <2>4. QED
    <3>1. load' \in Loads /\ sinceUp' = 0 /\ sinceDown' \in 0 .. Settle /\ restarts' \in 0 .. MaxRestarts
      BY <1>1 DEF TypeOK, Adds
    <3>2. QED
      BY <2>1, <2>2, <2>3, <3>1 DEF TypeOK
<1>2. CASE Removes
  <2>1. count' \in MinReplicas .. MaxReplicas
    BY <1>2, WantedInBounds DEF TypeOK, Removes, WantsFewer
  <2>2. since' \in [1 .. MaxReplicas -> 0 .. Settle]
    BY <1>2, WantedInBounds DEF TypeOK, Removes, Remember
  <2>3. QED
    BY <1>2, <2>1, <2>2 DEF TypeOK, Removes
<1>3. CASE Holds
  BY <1>3, WantedInBounds DEF TypeOK, Holds, Remember
<1>4. CASE HPARestarts
  BY <1>4 DEF TypeOK, HPARestarts
<1>5. CASE LoadChanges
  BY <1>5 DEF TypeOK, LoadChanges, memory
<1>6. CASE Tick
  <2>1. age' \in [1 .. MaxReplicas -> 0 .. WeightLoadSeconds]
    BY <1>6 DEF TypeOK, Tick, SmallerOf
  <2>2. since' \in [1 .. MaxReplicas -> 0 .. Settle]
    BY <1>6 DEF TypeOK, Tick, SmallerOf
  <2>3. sinceUp' \in 0 .. ScaleUpPeriod /\ sinceDown' \in 0 .. Settle
    BY <1>6 DEF TypeOK, Tick, SmallerOf
  <2>4. QED
    BY <1>6, <2>1, <2>2, <2>3 DEF TypeOK, Tick
<1>7. CASE UNCHANGED vars
  BY <1>7 DEF TypeOK, vars, memory
<1>8. QED
  BY <1>1, <1>2, <1>3, <1>4, <1>5, <1>6, <1>7 DEF Next, Sync

LEMMA AutoscalerTypeInit == Init => TypeOK
  BY SettleNat DEF Init, TypeOK

-----------------------------------------------------------------------------
(* The window covers the load: the replica added last is the youngest, and   *)
(* it has not been wanted for at most as long as it has been loading.        *)

YoungestLast == \A i, j \in 1 .. count : i <= j => age[j] <= age[i]

WantedWhenAdded ==
    \A i \in 1 .. count : age[i] < WeightLoadSeconds => since[i] <= age[i]

WindowInv == TypeOK /\ YoungestLast /\ WantedWhenAdded

LEMMA WindowInit == Init => WindowInv
<1>1. Init => YoungestLast /\ WantedWhenAdded
  BY DEF Init, YoungestLast, WantedWhenAdded
<1>2. QED
  BY <1>1, AutoscalerTypeInit DEF WindowInv

LEMMA WindowNext == ASSUME WindowInv, [Next]_vars PROVE WindowInv'
<1>0. TypeOK'
  BY AutoscalerType DEF WindowInv
<1>w. Wanted \in MinReplicas .. MaxReplicas
  BY WantedInBounds DEF WindowInv
<1> USE SettleNat DEF WindowInv, TypeOK
<1>t. count \in 1 .. MaxReplicas /\ count' \in 1 .. MaxReplicas
  BY <1>0
<1>n. \A i \in 1 .. MaxReplicas : age'[i] \in Nat
  <2>1. age' \in [1 .. MaxReplicas -> 0 .. WeightLoadSeconds]
    BY <1>0
  <2>2. QED
    BY <2>1, ConstantsTyped
<1>r. ASSUME Remember
      PROVE  \A n \in 1 .. MaxReplicas : since'[n] <= since[n] /\ (n <= Wanted => since'[n] = 0)
  BY <1>r DEF Remember
<1>1. CASE Adds
  <2>1. count' = count + 1 /\ count' \in 1 .. MaxReplicas /\ Wanted >= count'
    BY <1>0, <1>1, <1>w DEF Adds
  <2>2. age'[count'] = 0 /\ \A i \in 1 .. count : age'[i] = age[i]
    BY <1>1, <2>1 DEF Adds
  <2>3. \A i \in 1 .. count' : since'[i] = 0
    BY <1>1, <1>r, <1>t, <1>w, <2>1 DEF Adds
  <2>4. ASSUME NEW i \in 1 .. count', NEW j \in 1 .. count', i <= j PROVE age'[j] <= age'[i]
    <3>1. age'[i] \in Nat
      BY <1>t, <1>n
    <3>2. CASE j = count'
      BY <2>2, <3>1, <3>2
    <3>3. CASE j # count'
      <4>1. i \in 1 .. count /\ j \in 1 .. count
        BY <2>1, <2>4, <3>3
      <4>2. QED
        BY <2>2, <2>4, <4>1 DEF YoungestLast
    <3>4. QED
      BY <3>2, <3>3
  <2>5. ASSUME NEW i \in 1 .. count' PROVE since'[i] <= age'[i]
    <3>1. age'[i] \in Nat
      BY <1>t, <1>n
    <3>2. QED
      BY <2>3, <3>1
  <2>6. QED
    BY <1>0, <2>4, <2>5 DEF YoungestLast, WantedWhenAdded
<1>2. CASE Removes
  <2>1. count' = count - 1 /\ count' \in 1 .. MaxReplicas /\ age' = age
    BY <1>0, <1>2 DEF Removes
  <2>2. YoungestLast'
    BY <2>1 DEF YoungestLast
  <2>3. WantedWhenAdded'
    BY <1>0, <1>2, <1>r, <2>1 DEF WantedWhenAdded, Removes
  <2>4. QED
    BY <1>0, <2>2, <2>3
<1>3. CASE Holds
  <2>1. YoungestLast'
    BY <1>3 DEF YoungestLast, Holds
  <2>2. WantedWhenAdded'
    BY <1>0, <1>3, <1>r DEF WantedWhenAdded, Holds
  <2>3. QED
    BY <1>0, <2>1, <2>2
<1>4. CASE HPARestarts
  BY <1>0, <1>4 DEF HPARestarts, YoungestLast, WantedWhenAdded
<1>5. CASE LoadChanges
  BY <1>0, <1>5 DEF LoadChanges, memory, YoungestLast, WantedWhenAdded
<1>6. CASE Tick
  <2>0. count' = count
    BY <1>6 DEF Tick
  <2>1. \A i \in 1 .. MaxReplicas :
           /\ age[i] \in Nat /\ age[i] <= WeightLoadSeconds
           /\ age'[i] = IF age[i] < WeightLoadSeconds THEN age[i] + 1 ELSE WeightLoadSeconds
    BY <1>6 DEF Tick, SmallerOf
  <2>s. \A i \in 1 .. MaxReplicas :
           since[i] \in Nat /\ since'[i] \in Nat /\ since'[i] <= since[i] + 1
    <3>1. /\ since \in [1 .. MaxReplicas -> 0 .. Settle]
          /\ since' = [n \in 1 .. MaxReplicas |-> SmallerOf(since[n] + 1, Settle)]
      BY <1>6 DEF Tick
    <3>2. QED
      BY <3>1, SettleNat DEF SmallerOf
  <2>2. \A i \in 1 .. count : i \in 1 .. MaxReplicas
    OBVIOUS
  <2>3. ASSUME NEW i \in 1 .. count, NEW j \in 1 .. count, i <= j PROVE age'[j] <= age'[i]
    <3>1. age[j] <= age[i]
      BY <2>3 DEF YoungestLast
    <3>2. QED
      <4>1. i \in 1 .. MaxReplicas /\ j \in 1 .. MaxReplicas
        BY <2>2
      <4>2. /\ age[i] \in Nat /\ age[i] <= WeightLoadSeconds
            /\ age[j] \in Nat /\ age[j] <= WeightLoadSeconds
            /\ age'[i] = IF age[i] < WeightLoadSeconds THEN age[i] + 1 ELSE WeightLoadSeconds
            /\ age'[j] = IF age[j] < WeightLoadSeconds THEN age[j] + 1 ELSE WeightLoadSeconds
        BY <2>1, <4>1
      <4>3. QED
        BY <3>1, <4>2
  <2>4. ASSUME NEW i \in 1 .. count, age'[i] < WeightLoadSeconds PROVE since'[i] <= age'[i]
    <3>1. age[i] < WeightLoadSeconds /\ age'[i] = age[i] + 1
      BY <2>1, <2>2, <2>4
    <3>2. since[i] <= age[i]
      BY <3>1 DEF WantedWhenAdded
    <3>3. QED
      BY <2>1, <2>2, <2>s, <3>1, <3>2
  <2>5. QED
    BY <1>0, <2>0, <2>3, <2>4 DEF YoungestLast, WantedWhenAdded
<1>7. CASE UNCHANGED vars
  BY <1>0, <1>7 DEF vars, memory, YoungestLast, WantedWhenAdded
<1>8. QED
  BY <1>1, <1>2, <1>3, <1>4, <1>5, <1>6, <1>7 DEF Next, Sync

LEMMA WindowInvariant == Spec => []WindowInv
  BY WindowInit, WindowNext, PTL DEF Spec

-----------------------------------------------------------------------------
\* The count stays within the spec's bounds, whatever the load reads.
THEOREM AutoscalerTypeCorrect == Spec => []TypeOK
  BY WindowInvariant, PTL DEF WindowInv

\* For every load time, above the five minutes or below: no replica is removed
\* while one that was added is still loading.
THEOREM RemovalWaitsForLoading == Spec => NoRemovalWhileLoading
<1>1. ASSUME WindowInv, [Next]_vars, count' < count
      PROVE  \A i \in 1 .. count : Loaded(i)
  <2>1. Removes
    BY <1>1 DEF Next, Sync, Adds, Holds, HPARestarts, LoadChanges, Tick, vars, WindowInv, TypeOK
  <2>2. since[count] >= Settle
    BY <1>1, <2>1 DEF Removes, WantsFewer, WindowInv, TypeOK
  <2>3. age[count] = WeightLoadSeconds
    <3>1. count \in 1 .. count /\ age[count] \in 0 .. WeightLoadSeconds /\ since[count] \in Nat
      BY <1>1, SettleNat DEF WindowInv, TypeOK
    <3>2. age[count] < WeightLoadSeconds => since[count] <= age[count]
      BY <1>1, <3>1 DEF WindowInv, WantedWhenAdded
    <3>3. QED
      BY <2>2, <3>1, <3>2, SettleNat
  <2>4. QED
    BY <1>1, <2>3 DEF WindowInv, TypeOK, YoungestLast, Loaded
<1>2. QED
  BY <1>1, WindowInvariant, PTL DEF NoRemovalWhileLoading, Spec

\* kvCacheUsagePercent may be up to 100, and the HPA lets a tenth pass: from 91
\* on, caches that are full on every replica ask for no replica more.
THEOREM FullCachesAskForNothing ==
    ASSUME TypeOK, KVCacheUsagePercent \in 91 .. 100, Serving = count
    PROVE  AverageValue(100 * Serving, KVCacheUsagePercent) = count
<1>1. Near(100 * count, KVCacheUsagePercent * count)
  <2>1. /\ 10 * (100 * count) = 1000 * count
        /\ 91 * count <= KVCacheUsagePercent * count
        /\ KVCacheUsagePercent * count <= 100 * count
    BY DEF TypeOK
  <2>2. KVCacheUsagePercent * count \in Int /\ count \in Nat
    BY DEF TypeOK
  <2>3. QED
    BY <2>1, <2>2 DEF Near
<1>2. QED
  BY <1>1 DEF AverageValue
=============================================================================
