-------------------------- MODULE ModelStartProofs --------------------------
(* Proofs about ModelStart, for every probe period, load time and number of  *)
(* faults.                                                                   *)
EXTENDS ModelStart, TLAPS

\* The number of whole startup periods in weightLoadSeconds.
Periods == WeightLoadSeconds \div startupPeriod

LEMMA PeriodsNat == Periods \in Nat
  BY StartAssumption, SMT DEF Periods

\* The kubelet's bookkeeping.  While a container starts, its age and the time to
\* its next probe tell how many probes it has failed; once it has started, it has
\* failed none as long as it answers; and when it no longer does, readiness, with
\* its shorter period, has always counted at least as far in time as liveness.
ExitedInv == proc = "exited" => ~started /\ age = 0 /\ due = NoProbes /\ fails = NoProbes

StartupInv ==
    /\ ~started => ~ready
    /\ ~started /\ proc # "exited" =>
          /\ fails["startup"] <= Periods
          /\ fails["startup"] * startupPeriod <= age + due["startup"]
          /\ age + due["startup"] <= fails["startup"] * startupPeriod + startupPeriod - 1

ServableInv ==
    started => IF pod.backend = "Ollama" THEN disk /\ proc \notin {"exited", "starting"}
               ELSE proc \in {"serving", "hung"}

HealthInv ==
    started =>
       /\ HTTPAnswers => fails["readiness"] = 0 /\ fails["liveness"] = 0
       /\ ~HTTPAnswers /\ ready /\ fails["liveness"] > 0 =>
             20 * fails["liveness"] - due["liveness"]
                <= 5 * (fails["readiness"] + 1) - due["readiness"]

StartInv == TypeOK /\ ExitedInv /\ StartupInv /\ ServableInv /\ HealthInv

LEMMA PeriodFacts ==
    /\ Period \in [Probes -> Nat]
    /\ Period["startup"] = startupPeriod /\ Period["readiness"] = 5 /\ Period["liveness"] = 20
    /\ FailureThreshold \in [Probes -> Nat]
    /\ FailureThreshold["startup"] = Periods + 1
    /\ FailureThreshold["readiness"] = 3 /\ FailureThreshold["liveness"] = 3
  BY PeriodsNat, StartAssumption
     DEF Period, FailureThreshold, startupFailureThreshold, Periods, Probes

LEMMA ResetOK ==
    /\ NoProbes \in [Probes -> Nat] /\ \A p \in Probes : NoProbes[p] = 0
    /\ \A p \in Probes : 0 <= Period[p] /\ 0 <= FailureThreshold[p]
  BY PeriodFacts DEF NoProbes

LEMMA StartInit == Init => StartInv
<1>1. Init => TypeOK
  <2>1. Init => disk \in BOOLEAN /\ started \in BOOLEAN /\ ready \in BOOLEAN
    BY DEF Init
  <2>2. QED
    BY <2>1, ResetOK, StartAssumption DEF Init, TypeOK, Processes
<1>2. Init => ExitedInv /\ StartupInv /\ ServableInv /\ HealthInv
  BY DEF Init, ExitedInv, StartupInv, ServableInv, HealthInv
<1>3. QED
  BY <1>1, <1>2 DEF StartInv

\* What every way of ending a container leaves behind is well typed.
LEMMA ExitsTyped ==
    ASSUME Exits
    PROVE  /\ proc' \in Processes /\ age' \in Nat
           /\ started' \in BOOLEAN /\ ready' \in BOOLEAN
           /\ due' \in [Probes -> Nat] /\ \A p \in Probes : due'[p] <= Period[p]
           /\ fails' \in [Probes -> Nat] /\ \A p \in Probes : fails'[p] <= FailureThreshold[p]
<1>1. started' \in BOOLEAN /\ ready' \in BOOLEAN
  BY DEF Exits
<1>2. QED
  BY <1>1, ResetOK DEF Exits, Processes

LEMMA StartType == ASSUME TypeOK, [Next]_vars PROVE TypeOK'
<1> USE PeriodFacts, PeriodsNat, StartAssumption DEF TypeOK, Processes, Probes
<1>1. CASE ContainerStarts
  BY <1>1 DEF ContainerStarts
<1>2. CASE StartupSucceeds
  <2>1. /\ due' \in [Probes -> Nat] /\ \A p \in Probes : due'[p] <= Period[p]
        /\ fails' = NoProbes /\ age' = 0
    BY <1>2, ResetOK DEF StartupSucceeds
  <2>2. started' \in BOOLEAN /\ ready' \in BOOLEAN /\ disk' \in BOOLEAN
    BY <1>2 DEF StartupSucceeds
  <2>3. QED
    BY <1>2, <2>1, <2>2, ResetOK DEF StartupSucceeds
<1>3. CASE StartupRetries
  BY <1>3 DEF StartupRetries, Due, Runs, Counted, Last
<1>4. CASE StartupKills
  BY <1>4, ResetOK DEF StartupKills, Exits
<1>5. CASE ReadinessSucceeds
  BY <1>5 DEF ReadinessSucceeds, Due, Runs, Counted
<1>6. CASE ReadinessFails
  BY <1>6 DEF ReadinessFails, Due, Runs, Counted, Last
<1>7. CASE LivenessSucceeds
  BY <1>7 DEF LivenessSucceeds, Due, Runs, Counted
<1>8. CASE LivenessRetries
  BY <1>8 DEF LivenessRetries, Due, Runs, Counted, Last
<1>9. CASE LivenessKills
  BY <1>9, ResetOK DEF LivenessKills, Exits
<1>10. CASE ServerListens
  BY <1>10 DEF ServerListens, probeVars
<1>11. CASE ModelLoaded
  BY <1>11 DEF ModelLoaded, probeVars
<1>12. CASE Tick
  BY <1>12 DEF Tick, Runs
<1>13. CASE Fault
  <2>1. CASE PullFails
    BY <1>13, <2>1, ExitsTyped DEF Fault, PullFails
  <2>2. CASE ServerDies
    <3>1. CASE Exits /\ UNCHANGED disk
      BY <1>13, <3>1, ExitsTyped DEF Fault
    <3>2. CASE proc' = "stalled" /\ UNCHANGED <<disk, probeVars>>
      BY <1>13, <3>2 DEF Fault, probeVars
    <3>3. QED
      BY <2>2, <3>1, <3>2 DEF ServerDies
  <2>3. CASE Hangs
    BY <1>13, <2>3 DEF Fault, Hangs, probeVars
  <2>4. CASE PodReplaced
    <3>1. disk' \in BOOLEAN
      BY <2>4 DEF PodReplaced, VolumeKept
    <3>2. QED
      BY <1>13, <2>4, <3>1, ExitsTyped DEF Fault, PodReplaced
  <2>5. QED
    BY <1>13, <2>1, <2>2, <2>3, <2>4 DEF Fault
<1>14. CASE UNCHANGED vars
  BY <1>14 DEF vars, probeVars
<1>15. QED
  BY <1>1, <1>2, <1>3, <1>4, <1>5, <1>6, <1>7, <1>8, <1>9, <1>10, <1>11, <1>12, <1>13, <1>14 DEF Next, Kubelet

LEMMA ExitedNext == ASSUME StartInv, [Next]_vars PROVE ExitedInv'
<1> USE PeriodFacts, PeriodsNat, StartAssumption
    DEF StartInv, TypeOK, ExitedInv, ExitedInv, Probes, NoProbes
<1>1. CASE ContainerStarts
  BY <1>1 DEF ContainerStarts
<1>2. CASE StartupSucceeds
  BY <1>2 DEF StartupSucceeds, Due, Runs, StartupPasses, HTTPAnswers
<1>3. CASE StartupRetries
  BY <1>3 DEF StartupRetries, Due, Runs, Counted, Last
<1>4. CASE StartupKills
  BY <1>4 DEF StartupKills, Exits
<1>5. CASE ReadinessSucceeds
  BY <1>5 DEF ReadinessSucceeds, Due, Runs, Counted
<1>6. CASE ReadinessFails
  BY <1>6 DEF ReadinessFails, Due, Runs, Counted, Last
<1>7. CASE LivenessSucceeds
  BY <1>7 DEF LivenessSucceeds, Due, Runs, Counted
<1>8. CASE LivenessRetries
  BY <1>8 DEF LivenessRetries, Due, Runs, Counted, Last
<1>9. CASE LivenessKills
  BY <1>9 DEF LivenessKills, Exits
<1>10. CASE ServerListens
  BY <1>10 DEF ServerListens, probeVars
<1>11. CASE ModelLoaded
  BY <1>11 DEF ModelLoaded, probeVars
<1>12. CASE Tick
  BY <1>12 DEF Tick, Runs
<1>13. CASE Fault
  <2>1. CASE PullFails
    BY <1>13, <2>1 DEF Fault, PullFails, Exits
  <2>2. CASE ServerDies
    BY <1>13, <2>2 DEF Fault, ServerDies, Exits, probeVars
  <2>3. CASE Hangs
    BY <1>13, <2>3 DEF Fault, Hangs, Loading, probeVars
  <2>4. CASE PodReplaced
    BY <1>13, <2>4 DEF Fault, PodReplaced, Exits, VolumeKept
  <2>5. QED
    BY <1>13, <2>1, <2>2, <2>3, <2>4 DEF Fault
<1>14. CASE UNCHANGED vars
  BY <1>14 DEF vars, probeVars
<1>15. QED
  BY <1>1, <1>2, <1>3, <1>4, <1>5, <1>6, <1>7, <1>8, <1>9, <1>10, <1>11, <1>12, <1>13, <1>14 DEF Next, Kubelet

LEMMA StartupNext == ASSUME StartInv, [Next]_vars PROVE StartupInv'
<1> USE PeriodFacts, PeriodsNat, StartAssumption
    DEF StartInv, TypeOK, ExitedInv, StartupInv, Probes, NoProbes
<1>1. CASE ContainerStarts
  BY <1>1 DEF ContainerStarts
<1>2. CASE StartupSucceeds
  BY <1>2 DEF StartupSucceeds, Due, Runs, StartupPasses, HTTPAnswers
<1>3. CASE StartupRetries
  BY <1>3 DEF StartupRetries, Due, Runs, Counted, Last
<1>4. CASE StartupKills
  BY <1>4 DEF StartupKills, Exits
<1>5. CASE ReadinessSucceeds
  BY <1>5 DEF ReadinessSucceeds, Due, Runs, Counted
<1>6. CASE ReadinessFails
  BY <1>6 DEF ReadinessFails, Due, Runs, Counted, Last
<1>7. CASE LivenessSucceeds
  BY <1>7 DEF LivenessSucceeds, Due, Runs, Counted
<1>8. CASE LivenessRetries
  BY <1>8 DEF LivenessRetries, Due, Runs, Counted, Last
<1>9. CASE LivenessKills
  BY <1>9 DEF LivenessKills, Exits
<1>10. CASE ServerListens
  BY <1>10 DEF ServerListens, probeVars
<1>11. CASE ModelLoaded
  BY <1>11 DEF ModelLoaded, probeVars
<1>12. CASE Tick
  BY <1>12 DEF Tick, Runs
<1>13. CASE Fault
  <2>1. CASE PullFails
    BY <1>13, <2>1 DEF Fault, PullFails, Exits
  <2>2. CASE ServerDies
    BY <1>13, <2>2 DEF Fault, ServerDies, Exits, probeVars
  <2>3. CASE Hangs
    BY <1>13, <2>3 DEF Fault, Hangs, Loading, probeVars
  <2>4. CASE PodReplaced
    BY <1>13, <2>4 DEF Fault, PodReplaced, Exits, VolumeKept
  <2>5. QED
    BY <1>13, <2>1, <2>2, <2>3, <2>4 DEF Fault
<1>14. CASE UNCHANGED vars
  BY <1>14 DEF vars, probeVars
<1>15. QED
  BY <1>1, <1>2, <1>3, <1>4, <1>5, <1>6, <1>7, <1>8, <1>9, <1>10, <1>11, <1>12, <1>13, <1>14 DEF Next, Kubelet

LEMMA ServableNext == ASSUME StartInv, [Next]_vars PROVE ServableInv'
<1> USE PeriodFacts, PeriodsNat, StartAssumption
    DEF StartInv, TypeOK, ExitedInv, ServableInv, Probes, NoProbes
<1>1. CASE ContainerStarts
  BY <1>1 DEF ContainerStarts
<1>2. CASE StartupSucceeds
  BY <1>2 DEF StartupSucceeds, Due, Runs, StartupPasses, HTTPAnswers
<1>3. CASE StartupRetries
  BY <1>3 DEF StartupRetries, Due, Runs, Counted, Last
<1>4. CASE StartupKills
  BY <1>4 DEF StartupKills, Exits
<1>5. CASE ReadinessSucceeds
  BY <1>5 DEF ReadinessSucceeds, Due, Runs, Counted
<1>6. CASE ReadinessFails
  BY <1>6 DEF ReadinessFails, Due, Runs, Counted, Last
<1>7. CASE LivenessSucceeds
  BY <1>7 DEF LivenessSucceeds, Due, Runs, Counted
<1>8. CASE LivenessRetries
  BY <1>8 DEF LivenessRetries, Due, Runs, Counted, Last
<1>9. CASE LivenessKills
  BY <1>9 DEF LivenessKills, Exits
<1>10. CASE ServerListens
  BY <1>10 DEF ServerListens, probeVars
<1>11. CASE ModelLoaded
  BY <1>11 DEF ModelLoaded, probeVars
<1>12. CASE Tick
  BY <1>12 DEF Tick, Runs
<1>13. CASE Fault
  <2>1. CASE PullFails
    BY <1>13, <2>1 DEF Fault, PullFails, Exits
  <2>2. CASE ServerDies
    BY <1>13, <2>2 DEF Fault, ServerDies, Exits, probeVars
  <2>3. CASE Hangs
    BY <1>13, <2>3 DEF Fault, Hangs, Loading, probeVars
  <2>4. CASE PodReplaced
    BY <1>13, <2>4 DEF Fault, PodReplaced, Exits, VolumeKept
  <2>5. QED
    BY <1>13, <2>1, <2>2, <2>3, <2>4 DEF Fault
<1>14. CASE UNCHANGED vars
  BY <1>14 DEF vars, probeVars
<1>15. QED
  BY <1>1, <1>2, <1>3, <1>4, <1>5, <1>6, <1>7, <1>8, <1>9, <1>10, <1>11, <1>12, <1>13, <1>14 DEF Next, Kubelet

LEMMA HealthNext == ASSUME StartInv, [Next]_vars PROVE HealthInv'
<1> USE PeriodFacts, PeriodsNat, StartAssumption
    DEF StartInv, TypeOK, ExitedInv, ServableInv, HealthInv, HTTPAnswers, Probes, NoProbes
<1>1. CASE ContainerStarts
  BY <1>1 DEF ContainerStarts
<1>2. CASE StartupSucceeds
  BY <1>2 DEF StartupSucceeds, Due, Runs, StartupPasses, HTTPAnswers
<1>3. CASE StartupRetries
  BY <1>3 DEF StartupRetries, Due, Runs, Counted, Last
<1>4. CASE StartupKills
  BY <1>4 DEF StartupKills, Exits
<1>5. CASE ReadinessSucceeds
  BY <1>5 DEF ReadinessSucceeds, Due, Runs, Counted
<1>6. CASE ReadinessFails
  <2>1. CASE Last("readiness")
    BY <1>6, <2>1 DEF ReadinessFails, Due, Runs, Counted
  <2>2. CASE ~Last("readiness")
    <3>1. /\ fails'["readiness"] = fails["readiness"] + 1 /\ fails'["liveness"] = fails["liveness"]
          /\ due["readiness"] = 0 /\ due'["readiness"] = 5 /\ due'["liveness"] = due["liveness"]
          /\ ~HTTPAnswers /\ ready' = ready /\ started' = started /\ UNCHANGED <<pod, proc>>
      BY <1>6, <2>2 DEF ReadinessFails, Due, Runs, Counted
    <3>2. QED
      BY <3>1
  <2>3. QED
    BY <2>1, <2>2
<1>7. CASE LivenessSucceeds
  BY <1>7 DEF LivenessSucceeds, Due, Runs, Counted
<1>8. CASE LivenessRetries
  BY <1>8 DEF LivenessRetries, Due, Runs, Counted, Last
<1>9. CASE LivenessKills
  BY <1>9 DEF LivenessKills, Exits
<1>10. CASE ServerListens
  BY <1>10 DEF ServerListens, probeVars
<1>11. CASE ModelLoaded
  BY <1>11 DEF ModelLoaded, probeVars
<1>12. CASE Tick
  BY <1>12 DEF Tick, Runs
<1>13. CASE Fault
  <2>1. CASE PullFails
    BY <1>13, <2>1 DEF Fault, PullFails, Exits
  <2>2. CASE ServerDies
    BY <1>13, <2>2 DEF Fault, ServerDies, Exits, probeVars
  <2>3. CASE Hangs
    BY <1>13, <2>3 DEF Fault, Hangs, Loading, probeVars
  <2>4. CASE PodReplaced
    BY <1>13, <2>4 DEF Fault, PodReplaced, Exits, VolumeKept
  <2>5. QED
    BY <1>13, <2>1, <2>2, <2>3, <2>4 DEF Fault
<1>14. CASE UNCHANGED vars
  BY <1>14 DEF vars, probeVars
<1>15. QED
  BY <1>1, <1>2, <1>3, <1>4, <1>5, <1>6, <1>7, <1>8, <1>9, <1>10, <1>11, <1>12, <1>13, <1>14 DEF Next, Kubelet

LEMMA StartInvariant == Spec => []StartInv
<1>1. StartInv /\ [Next]_vars => StartInv'
  BY StartType, ExitedNext, StartupNext, ServableNext, HealthNext DEF StartInv
<1>2. QED
  BY <1>1, StartInit, PTL DEF Spec

-----------------------------------------------------------------------------
\* Probe timers and failure counts stay within the periods and thresholds the
\* operator writes, whatever they are.
THEOREM StartTypeCorrect == Spec => []TypeOK
  BY StartInvariant, PTL DEF StartInv

\* Whatever weightLoadSeconds and the period are: the startup probe kills after
\* all the whole periods of the budget and within one period more.
THEOREM StartupGivesTheBudget == Spec => StartupIsPatient
<1>1. ASSUME StartInv, StartupKills PROVE age \in Budget .. Budget + startupPeriod - 1
  <2>1. fails["startup"] = Periods /\ due["startup"] = 0 /\ ~started /\ proc # "exited"
    BY <1>1, PeriodFacts, PeriodsNat
       DEF StartInv, StartupInv, TypeOK, StartupKills, Due, Runs, Last, Probes
  <2>2. QED
    BY <1>1, <2>1, PeriodsNat, StartAssumption
       DEF StartInv, StartupInv, TypeOK, Budget, Periods
<1>2. QED
  BY <1>1, StartInvariant, PTL DEF StartupIsPatient

\* No request is sent to a container whose model is not there.
THEOREM ReadyIsServable == Spec => []ReadyMeansServable
<1>1. StartInv => ReadyMeansServable
  BY DEF StartInv, StartupInv, ServableInv, ReadyMeansServable, TypeOK
<1>2. QED
  BY <1>1, StartInvariant, PTL

\* Liveness kills only what no longer answers, and readiness is always first,
\* wherever in their periods the two timers started.
THEOREM LivenessIsLast == Spec => LivenessKillsTheHung
<1>1. ASSUME StartInv, LivenessKills PROVE proc \in {"stalled", "hung"} /\ ~ready
  BY <1>1, PeriodFacts
     DEF StartInv, StartupInv, ServableInv, HealthInv, TypeOK, LivenessKills, Due, Runs, Last,
         HTTPAnswers, Probes, Pods, Processes
<1>2. QED
  BY <1>1, StartInvariant, PTL DEF LivenessKillsTheHung
=============================================================================
