----------------------------- MODULE ModelStart -----------------------------
(***************************************************************************)
(* One model container of a serving Deployment: the start script and the   *)
(* server it runs, and the kubelet that probes, restarts and replaces it   *)
(* as the container's probes tell it to.  Time passes in whole seconds.    *)
(***************************************************************************)
EXTENDS Integers

CONSTANTS
    startupPeriod,      \* seconds between two startup probes
    WeightLoadSeconds,  \* spec.weightLoadSeconds
    SlowestLoad,        \* bound on the seconds a container takes to load its model
    MaxFaults           \* bound on the faults of a behaviour

ASSUME StartAssumption ==
    /\ startupPeriod \in Nat \ {0} /\ WeightLoadSeconds \in Nat
    /\ SlowestLoad \in Nat /\ MaxFaults \in Nat

VARIABLES
    pod,      \* the backend of the pod template, and has it a cache claim?
    proc,     \* the process in the container
    disk,     \* is the whole model on the cache volume?
    age,      \* seconds since the container started, until the startup probe passes
    started,  \* has the startup probe passed?
    ready,    \* does the Service send requests here?
    due,      \* seconds to the next probe of each kind
    fails,    \* consecutive failures of each probe
    faults    \* how many faults there have been

probeVars == <<age, started, ready, due, fails>>
vars      == <<pod, proc, disk, probeVars, faults>>

-----------------------------------------------------------------------------
(* What the operator writes into the container *)

Pods   == [backend : {"vLLM", "Ollama"}, cacheClaim : BOOLEAN]
Probes == {"startup", "readiness", "liveness"}

ThresholdRoundedDown    == WeightLoadSeconds \div startupPeriod  \* Mutant
startupFailureThreshold == WeightLoadSeconds \div startupPeriod + 1

PeriodLikeLiveness == [p \in Probes |-> IF p = "startup" THEN startupPeriod ELSE 20]  \* Mutant
Period == [p \in Probes |-> CASE p = "startup"   -> startupPeriod
                              [] p = "readiness" -> 5
                              [] p = "liveness"  -> 20]

FailureThreshold == [p \in Probes |-> IF p = "startup" THEN startupFailureThreshold ELSE 3]

\* starting: ollamaServe waits for its server; loading: the server answers and
\* the script pulls, or vLLM fetches and loads; stalled: no progress and no
\* answer; hung: a loaded server that no longer answers.
Processes == {"exited", "starting", "loading", "serving", "stalled", "hung"}

\* GET /health of vLLM, GET / of Ollama, whose listener is there before the model.
HTTPAnswers ==
    proc = "serving" \/ (pod.backend = "Ollama" /\ proc = "loading")

StartupByHTTP == HTTPAnswers                            \* Mutants
HealthOfBoth  == pod.backend = "vLLM" /\ HTTPAnswers

\* Ollama's startup probe runs `ollama show': the server knows the model.
StartupPasses == HTTPAnswers /\ (pod.backend = "Ollama" => disk)

\* What a new pod finds: a claim outlives the pod, a scratch volume does not.
VolumeKept == disk /\ pod.cacheClaim

-----------------------------------------------------------------------------
(* The process *)

NoProbes == [p \in Probes |-> 0]

Exits ==
    /\ proc' = "exited" /\ started' = FALSE /\ ready' = FALSE
    /\ age' = 0 /\ due' = NoProbes /\ fails' = NoProbes

\* The kubelet starts the container, or starts it again.  Its probe timers run
\* on by themselves, so the first startup probe comes anywhere in a period.
ContainerStarts ==
    /\ proc = "exited"
    /\ proc' = IF pod.backend = "Ollama" THEN "starting" ELSE "loading"
    /\ \E d \in 0 .. startupPeriod - 1 : due' = [due EXCEPT !["startup"] = d]
    /\ UNCHANGED <<pod, disk, age, started, ready, fails, faults>>

ServerListens ==
    /\ proc = "starting" /\ proc' = "loading"
    /\ UNCHANGED <<pod, disk, probeVars, faults>>

ModelLoaded ==
    /\ proc = "loading" /\ proc' = "serving" /\ disk' = TRUE
    /\ UNCHANGED <<pod, probeVars, faults>>

Loading == proc \in {"starting", "loading"}
Runs(p) == IF p = "startup" THEN ~started ELSE started

\* A probe that is due comes before the next second does.
Tick ==
    /\ proc # "exited"
    /\ \A p \in Probes : Runs(p) => due[p] > 0
    /\ Loading /\ ~started => age < SlowestLoad
    /\ age' = IF started THEN age ELSE age + 1
    /\ due' = [p \in Probes |-> IF Runs(p) THEN due[p] - 1 ELSE due[p]]
    /\ UNCHANGED <<pod, proc, disk, started, ready, fails, faults>>

-----------------------------------------------------------------------------
(* The probes *)

Due(p)  == proc # "exited" /\ Runs(p) /\ due[p] = 0
Last(p) == fails[p] + 1 >= FailureThreshold[p]

Counted(p, n) ==
    /\ fails' = [fails EXCEPT ![p] = n] /\ due' = [due EXCEPT ![p] = Period[p]]
    /\ UNCHANGED <<pod, proc, disk, age, started, faults>>

StartupSucceeds ==
    /\ Due("startup") /\ StartupPasses
    /\ started' = TRUE /\ age' = 0 /\ fails' = NoProbes
    /\ \E r \in 0 .. Period["readiness"] - 1, l \in 0 .. Period["liveness"] - 1 :
          due' = [NoProbes EXCEPT !["readiness"] = r, !["liveness"] = l]
    /\ UNCHANGED <<pod, proc, disk, ready, faults>>

\* Mutant: the startup probe never gives up.
StartupWaits ==
    /\ Due("startup") /\ ~StartupPasses
    /\ Counted("startup", fails["startup"] + 1) /\ UNCHANGED ready

StartupRetries ==
    /\ Due("startup") /\ ~StartupPasses /\ ~Last("startup")
    /\ Counted("startup", fails["startup"] + 1) /\ UNCHANGED ready

StartupKills ==
    /\ Due("startup") /\ ~StartupPasses /\ Last("startup")
    /\ Exits /\ UNCHANGED <<pod, disk, faults>>

ReadinessSucceeds ==
    Due("readiness") /\ HTTPAnswers /\ Counted("readiness", 0) /\ ready' = TRUE

\* After the threshold the container only stays out of the Service.
ReadinessFails ==
    /\ Due("readiness") /\ ~HTTPAnswers
    /\ ready' = (ready /\ ~Last("readiness"))
    /\ Counted("readiness", IF Last("readiness") THEN fails["readiness"] ELSE fails["readiness"] + 1)

LivenessSucceeds ==
    Due("liveness") /\ HTTPAnswers /\ Counted("liveness", 0) /\ UNCHANGED ready

LivenessRetries ==
    /\ Due("liveness") /\ ~HTTPAnswers /\ ~Last("liveness")
    /\ Counted("liveness", fails["liveness"] + 1) /\ UNCHANGED ready

LivenessKills ==
    /\ Due("liveness") /\ ~HTTPAnswers /\ Last("liveness")
    /\ Exits /\ UNCHANGED <<pod, disk, faults>>

-----------------------------------------------------------------------------
(* Faults *)

\* "If the pull fails the container exits and the pod restarts."
PullFails == pod.backend = "Ollama" /\ proc = "loading" /\ Exits /\ UNCHANGED disk

\* A server that dies takes its container with it, unless ollamaServe still
\* waits for its first answer: that loop does not ask whether it is alive.
ServerDies ==
    \/ proc = "starting" /\ proc' = "stalled" /\ UNCHANGED <<disk, probeVars>>
    \/ proc \notin {"exited", "starting"} /\ Exits /\ UNCHANGED disk

Hangs ==
    /\ \/ Loading /\ proc' = "stalled"
       \/ proc = "serving" /\ proc' = "hung"
    /\ UNCHANGED <<disk, probeVars>>

\* A new pod, on another node perhaps: the scratch volume goes with the old one.
PodReplaced == Exits /\ disk' = VolumeKept

Fault ==
    /\ faults < MaxFaults /\ faults' = faults + 1 /\ UNCHANGED pod
    /\ PullFails \/ ServerDies \/ Hangs \/ PodReplaced

-----------------------------------------------------------------------------
Init ==
    /\ pod \in Pods /\ proc = "exited" /\ disk = FALSE
    /\ age = 0 /\ started = FALSE /\ ready = FALSE
    /\ due = NoProbes /\ fails = NoProbes /\ faults = 0

Kubelet ==
    \/ ContainerStarts
    \/ StartupSucceeds \/ StartupRetries \/ StartupKills
    \/ ReadinessSucceeds \/ ReadinessFails
    \/ LivenessSucceeds \/ LivenessRetries \/ LivenessKills

Next == Kubelet \/ ServerListens \/ ModelLoaded \/ Tick \/ Fault

Spec == Init /\ [][Next]_vars

\* Time passes, the kubelet does what is due, and a server that has neither
\* failed nor hung gets on with its work.
FairSpec ==
    Spec /\ WF_vars(Kubelet) /\ WF_vars(Tick) /\ WF_vars(ServerListens) /\ WF_vars(ModelLoaded)

-----------------------------------------------------------------------------
\* Probe timers and failure counts stay within the periods and thresholds.
TypeOK ==
    /\ pod \in Pods /\ proc \in Processes /\ disk \in BOOLEAN
    /\ age \in Nat /\ started \in BOOLEAN /\ ready \in BOOLEAN
    /\ due \in [Probes -> Nat] /\ \A p \in Probes : due[p] <= Period[p]
    /\ fails \in [Probes -> Nat] /\ \A p \in Probes : fails[p] <= FailureThreshold[p]
    /\ faults \in 0 .. MaxFaults

\* startupFailureThreshold: a container that does not come up is killed, and
\* not before it had all the whole periods that fit into weightLoadSeconds, nor
\* more than one period after them.
Budget == (WeightLoadSeconds \div startupPeriod) * startupPeriod
StartupIsPatient == [][StartupKills => age \in Budget .. Budget + startupPeriod - 1]_vars

\* The Service sends no request to a container whose model is not there, in
\* particular not to an Ollama that listens and still pulls; not after a restart
\* with an empty volume either.
ReadyMeansServable ==
    ready => IF pod.backend = "Ollama" THEN disk ELSE proc \in {"serving", "hung"}

\* Liveness kills no container that is loading or serving, and one that hangs
\* only when readiness has taken it out of the Service ("takes a replica out of
\* the Service quickly when it stops answering"), however the timers of the two
\* probes lie to each other.
LivenessKillsTheHung == [][LivenessKills => proc \in {"stalled", "hung"} /\ ~ready]_vars

\* A model that loads within the budget is served in the end, whatever failed,
\* hung, died or moved on the way: no restart loop.
EventuallyServes == <>[](ready /\ proc = "serving")
=============================================================================
