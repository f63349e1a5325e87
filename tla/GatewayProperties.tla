------------------------- MODULE GatewayProperties -------------------------
(* What a request through the gateway is promised, and what two documents   *)
(* promise that the code does not keep.                                     *)
EXTENDS Gateway

Answered(c) == call[c].pc = "answered"
RecordsOf(id) == {i \in DOMAIN ledger : ledger[i].id = id}
BackendNamed(n) == CHOOSE b \in PoolBackends : b.name = n

\* Where a call is in handle().
Steps == {"idle", "refused", "lookup", "enter", "stream", "record", "store", "answered", "failed"}

TypeOK ==
    /\ \A c \in Callers :
          /\ call[c].pc \in Steps
          /\ call[c].id \in 0..MaxCalls
          /\ call[c].backend \in PoolBackends \cup {Refused}
          /\ call[c].pc \in {"record", "store", "answered"} => call[c].answer # NoAnswer
    /\ inFlight \in [BackendNames -> 0..Cardinality(Callers)]
    /\ \A i \in DOMAIN ledger : ledger[i].tenant \in Tenants
    /\ asked \in 0..MaxCalls

\* ADR-0010 and ADR-0006: whatever other callers ask, store and evict
\* meanwhile, an answer handed to a caller was made for the caller's tenant,
\* at its classification, by its model with its settings, on a backend whose
\* ceiling allows the classification.
AnswersStayInTheirScope ==
    \A c \in Callers : Answered(c) =>
        LET a == call[c].answer
        IN /\ a.scope.tenant = call[c].tenant
           /\ a.scope.class = call[c].ask.class
           /\ a.scope.settings = call[c].ask.settings
           /\ a.scope.model = call[c].backend.model
           /\ BackendNamed(a.backend).ceiling >= call[c].ask.class
           /\ Numbers[a.prompt] = Numbers[call[c].ask.prompt]

\* The in-flight count of a backend is the number of calls that are with it,
\* on every way out of complete(); a call's cost is divided by the mean of two
\* such counts.
InFlightCounts ==
    \A b \in BackendNames :
        inFlight[b] = Cardinality({c \in Callers : call[c].pc = "stream" /\ call[c].backend.name = b})

\* "Either way the call lands in the ledger under the tenant"
\* (gateway.py:15): an answer handed out has exactly one record, under the
\* tenant that asked, and a call that was refused, is still with its backend
\* or failed there has none.
LedgerMatchesAnswers ==
    \A c \in Callers :
        CASE call[c].pc \in {"answered", "store"} ->
                /\ Cardinality(RecordsOf(call[c].id)) = 1
                /\ \A i \in RecordsOf(call[c].id) :
                      /\ ledger[i].tenant = call[c].tenant
                      /\ ledger[i].cached = call[c].cached
          [] call[c].pc \in {"refused", "lookup", "enter", "stream", "record", "failed"} ->
                RecordsOf(call[c].id) = {}
          [] OTHER -> TRUE

\* "The ledger records every call that reaches a backend or the cache,
\* including cached ones" (guide 4, section 4.3).
EveryCallRecorded ==
    \A c \in Callers : call[c].pc = "failed" => RecordsOf(call[c].id) # {}

\* BackendError: "A backend answered with an error or an unreadable
\* response" (client.py:26).  An answer that a caller gets, and that later
\* callers get from the cache, was sent to its end.
BrokenStreamsRaise ==
    \A c \in Callers : Answered(c) => call[c].answer.whole
=============================================================================
