----------------------------- MODULE MCOperator -----------------------------
(* Small instances of Operator for TLC: the specs a user switches between.   *)
EXTENDS OperatorClaims

Serve(backend, class, device, min) ==
    [backend |-> backend, class |-> class, device |-> device, mem |-> 0,
     min |-> min, max |-> 2, model |-> "m"]

VLLM        == Serve("vLLM", "Internal", "gpu", 1)
Ollama      == Serve("Ollama", "Internal", NoDevice, 2)

\* Specs the shipped CRD refuses.
RestrictedOllama == Serve("Ollama", "Restricted", "gpu", 1)
VLLMOnCPU        == Serve("vLLM", "Internal", NoDevice, 1)

\* One that the operator can take over as it is, one that it cannot.
OtherClaims == {[device |-> "gpu", mem |-> 0], [device |-> "gpu", mem |-> 1]}

AcceptedSpecs == {VLLM, Ollama}
StatusSpecs   == {VLLM, RestrictedOllama, VLLMOnCPU}
ScalingSpecs  == {Ollama, [Ollama EXCEPT !.min = 1]}
OllamaOnly    == {Ollama}
=============================================================================
