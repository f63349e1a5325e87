------------------------------ MODULE Gateway ------------------------------
(***************************************************************************)
(* One request through the gateway (gateway/app/gateway.py, client.py),    *)
(* for several callers at once: the tenant check, the router, the answer   *)
(* cache, the call to the backend inside the in-flight count, the ledger   *)
(* and the store.  The callers are threads that share one Gateway; a step  *)
(* of a caller is what it does between two accesses of shared state.       *)
(***************************************************************************)
EXTENDS SemanticCache, Router

CONSTANTS Callers, Tenants,
          NoTenant,    \* the empty string: a caller that gives no tenant
          Asks,        \* records [prompt, class, caps, budget, tokens, settings]
          Pool,        \* the gateway's backends
          MaxCalls     \* bound of the runs on the calls made

ASSUME NoTenantAssumption == NoTenant \notin Tenants
ASSUME CallersAssumption == IsFiniteSet(Callers) /\ MaxCalls \in Nat
ASSUME PoolAssumption ==
    /\ Pool \in Seq(Backend)
    /\ \A i, j \in DOMAIN Pool : Pool[i].name = Pool[j].name => i = j
ASSUME AsksAssumption ==
    \A a \in Asks :
        /\ IsRequest(a) /\ a.prompt \in Prompts
        /\ \A i \in DOMAIN Pool, t \in Tenants :
              [class |-> a.class, model |-> Pool[i].model, settings |-> a.settings,
               tenant |-> t] \in Scopes

VARIABLES
    call,       \* [Callers -> what the caller's call of handle() is at]
    inFlight,   \* InFlight._counts, by backend
    ledger,     \* Ledger.records
    asked       \* calls made so far; a call's number is its id

gatewayVars == <<call, inFlight, ledger, asked>>
vars == <<call, inFlight, ledger, asked, bucket, order, nextId, stats, now>>

PoolBackends == {Pool[i] : i \in DOMAIN Pool}
BackendNames == {Pool[i].name : i \in DOMAIN Pool}
NoAsk == [prompt |-> "none"]
NoAnswer == [prompt |-> "none"]

\* Between two calls.
Idle == [pc |-> "idle", id |-> 0, ask |-> NoAsk, tenant |-> NoTenant, backend |-> Refused,
         answer |-> NoAnswer, cached |-> FALSE]

\* Everything besides the prompt that decides what the answer is.
ScopeOf(x) == [class |-> x.ask.class, model |-> x.backend.model, settings |-> x.ask.settings,
               tenant |-> x.tenant]

\* The scope of ADR-0006, before ADR-0010 added the tenant.
ScopeWithoutTenant(x) ==
    [class |-> x.ask.class, model |-> x.backend.model, settings |-> x.ask.settings,
     tenant |-> CHOOSE t \in Tenants : TRUE]

\* CacheScope.of(...)
CacheScope(x) == ScopeOf(x)

\* What a backend sent back for the call x; whole is FALSE if it stopped
\* early.
AnswerTo(x, whole) ==
    [prompt |-> x.ask.prompt, scope |-> ScopeOf(x), backend |-> x.backend.name, whole |-> whole]

Goto(c, step) == call' = [call EXCEPT ![c].pc = step]
-----------------------------------------------------------------------------
Init ==
    /\ CacheInit
    /\ call = [c \in Callers |-> Idle]
    /\ inFlight = [b \in BackendNames |-> 0]
    /\ ledger = <<>>
    /\ asked = 0

\* handle() with no tenant raises before anything else; with one, the
\* router chooses a backend or raises NoEligibleBackend.
Handle(c, ask, tenant) ==
    /\ call[c].pc = "idle" /\ asked < MaxCalls
    /\ asked' = asked + 1
    /\ LET b == IF tenant = NoTenant THEN Refused ELSE Route(ask, Pool)
       IN call' = [call EXCEPT ![c] =
             [pc |-> IF b = Refused THEN "refused" ELSE "lookup", id |-> asked + 1,
              ask |-> ask, tenant |-> tenant, backend |-> b, answer |-> NoAnswer,
              cached |-> FALSE]]
    /\ UNCHANGED <<inFlight, ledger, cacheVars>>

\* self.cache.get in the request's own scope.
Lookup(c) ==
    /\ call[c].pc = "lookup"
    /\ LET p == call[c].ask.prompt
           s == CacheScope(call[c])
       IN /\ Get(p, s)
          /\ call' = [call EXCEPT ![c] =
                IF Hit(p, s)
                THEN [@ EXCEPT !.answer = Nearest(p, s).response, !.cached = TRUE, !.pc = "record"]
                ELSE [@ EXCEPT !.pc = "enter"]]
    /\ UNCHANGED <<inFlight, ledger, asked>>

\* in_flight.enter, then the request is sent.
Enters(c) ==
    /\ call[c].pc = "enter"
    /\ inFlight' = [inFlight EXCEPT ![call[c].backend.name] = @ + 1]
    /\ Goto(c, "stream")
    /\ UNCHANGED <<ledger, asked, cacheVars>>

\* in_flight.leave.
Leave(b) == inFlight' = [inFlight EXCEPT ![b] = IF @ > 0 THEN @ - 1 ELSE 0]

\* The stream ends: at [DONE], or where the connection closes, or after an
\* event that carries an error and no choices.  complete() returns the
\* pieces read so far.
StreamEnds(c, whole) ==
    /\ call[c].pc = "stream"
    /\ call' = [call EXCEPT ![c].answer = AnswerTo(call[c], whole), ![c].pc = "record"]
    /\ Leave(call[c].backend.name)
    /\ UNCHANGED <<ledger, asked, cacheVars>>

\* The count is left only by a call that read its answer.
StreamFailsInside(c) ==
    /\ call[c].pc = "stream"
    /\ Goto(c, "failed")
    /\ UNCHANGED <<inFlight, ledger, asked, cacheVars>>

\* An HTTP error, an unreadable event, a refused connection or a timeout:
\* complete() raises out of its finally, and handle() with it.
StreamFails(c) ==
    /\ call[c].pc = "stream"
    /\ Goto(c, "failed")
    /\ Leave(call[c].backend.name)
    /\ UNCHANGED <<ledger, asked, cacheVars>>

\* A record of the call without the tenant it was made for.
RecordWithoutTenant(x) ==
    [id |-> x.id, tenant |-> NoTenant, backend |-> x.backend.name, cached |-> x.cached]

CallRecord(x) ==
    [id |-> x.id, tenant |-> x.tenant, backend |-> x.backend.name, cached |-> x.cached]

\* An answer from the cache is returned before the ledger is told.
RecordFreshOnly(c) ==
    /\ call[c].pc = "record"
    /\ ledger' = IF call[c].cached THEN ledger ELSE Append(ledger, CallRecord(call[c]))
    /\ Goto(c, IF call[c].cached THEN "answered" ELSE "store")
    /\ UNCHANGED <<inFlight, asked, cacheVars>>

\* self.ledger.add; an answer from the cache is returned then.
Record(c) ==
    /\ call[c].pc = "record"
    /\ ledger' = Append(ledger, CallRecord(call[c]))
    /\ Goto(c, IF call[c].cached THEN "answered" ELSE "store")
    /\ UNCHANGED <<inFlight, asked, cacheVars>>

\* self.cache.put.
Store(c) ==
    /\ call[c].pc = "store"
    /\ Put(call[c].ask.prompt, call[c].answer, CacheScope(call[c]))
    /\ Goto(c, "answered")
    /\ UNCHANGED <<inFlight, ledger, asked>>

\* The caller has its answer or its exception.
Return(c) ==
    /\ call[c].pc \in {"refused", "failed", "answered"}
    /\ call' = [call EXCEPT ![c] = Idle]
    /\ UNCHANGED <<inFlight, ledger, asked, cacheVars>>

Step(c) ==
    \/ Lookup(c) \/ Enters(c) \/ Record(c) \/ Store(c) \/ Return(c)
    \/ \E whole \in BOOLEAN : StreamEnds(c, whole)
    \/ StreamFails(c)

Next == \E c \in Callers :
    \/ Step(c)
    \/ \E ask \in Asks, tenant \in Tenants \cup {NoTenant} : Handle(c, ask, tenant)

Spec == Init /\ [][Next]_vars
=============================================================================
