----------------------------- MODULE RouterFeed -----------------------------
(***************************************************************************)
(* The router with its latency figures read from Prometheus between        *)
(* requests (gateway/app/metrics.py).  A gateway starts with a configured  *)
(* pool; Observe replaces the figures of the backends that have a reading, *)
(* Ask routes one request over the pool as it is then.                     *)
(***************************************************************************)
EXTENDS Router, OrderedDict, FiniteSets

CONSTANTS Pools,      \* the sequences of backends a gateway may be given
          Requests,   \* records [class, caps, budget, tokens]
          Readings,   \* the p95 figures Prometheus may report, in ms
          Prices      \* hourly prices to compare a decision under

ASSUME FiguresAssumption == Readings \subseteq Nat /\ Prices \subseteq Nat
ASSUME RequestsAssumption == \A r \in Requests : IsRequest(r)
ASSUME PoolsAssumption ==
    /\ Pools \subseteq Seq(Backend)
    /\ \A pool \in Pools : \A i, j \in DOMAIN pool : pool[i].name = pool[j].name => i = j

VARIABLES
    configured,  \* the pool the gateway was given
    reading,     \* the last readings, by model
    backends,    \* the pool with the observed figures
    request,     \* the last request, or NoRequest
    decision     \* the backend route() chose for it, or Refused

vars == <<configured, reading, backends, request, decision>>

NoRequest == [class |-> -1]
Models(pool) == {pool[i].model : i \in DOMAIN pool}
BackendsOf(pool) == {pool[i] : i \in DOMAIN pool}

TypeOK ==
    /\ configured \in Pools
    /\ reading \in [Models(configured) -> Readings \cup {NoReading}]
    /\ DOMAIN backends = DOMAIN configured
    /\ \A i \in DOMAIN backends :
          /\ backends[i].ttft \in Readings \cup {configured[i].ttft}
          /\ [backends[i] EXCEPT !.ttft = 0] = [configured[i] EXCEPT !.ttft = 0]
    /\ request \in Requests \cup {NoRequest}
    /\ decision \in BackendsOf(backends) \cup {Refused}

Init ==
    /\ configured \in Pools
    /\ reading = [m \in Models(configured) |-> NoReading]
    /\ backends = configured
    /\ request = NoRequest
    /\ decision = Refused

\* Prometheus is queried once for each backend, by its model.  A query that
\* fails raises, and the gateway keeps the pool it has.
Observe ==
    /\ request = NoRequest
    /\ reading' \in [Models(configured) -> Readings \cup {NoReading}]
    /\ backends' = WithObservedTTFT(configured, reading')
    /\ UNCHANGED <<configured, request, decision>>

Ask(r) ==
    /\ request = NoRequest
    /\ request' = r
    /\ decision' = Route(r, backends)
    /\ UNCHANGED <<configured, reading, backends>>

\* The caller has its answer; the next request may come.
Answered ==
    /\ request # NoRequest
    /\ request' = NoRequest
    /\ decision' = Refused
    /\ UNCHANGED <<configured, reading, backends>>

Next == Observe \/ Answered \/ \E r \in Requests : Ask(r)

Spec == Init /\ [][Next]_vars
-----------------------------------------------------------------------------
Asked == request # NoRequest
Served == decision # Refused

\* The pool with its prices replaced; a price of 0 makes a backend local.
Repriced(pool, price) == [i \in DOMAIN pool |-> [pool[i] EXCEPT !.price = price[i]]]

\* ADR-0005: "Cost ranks the backends that are already eligible. It never
\* removes one."  Whatever the hourly prices, the request is served or
\* refused all the same, and the latency budget, the ceiling and the
\* capabilities hold for whichever backend the prices bring to the front.
CostNeverRemoves ==
    Asked => \A price \in [DOMAIN backends -> Prices] :
        LET other == Route(request, Repriced(backends, price))
        IN /\ (other = Refused) <=> ~Served
           /\ Served => /\ other.ceiling >= request.class
                        /\ request.caps \subseteq other.caps
                        /\ other.ttft <= request.budget
                        /\ 10 * (other.context + 1) > 13 * request.tokens

\* s asks no more than r in any respect.
AsksNoMore(s, r) ==
    /\ s.class <= r.class
    /\ s.caps \subseteq r.caps
    /\ s.budget >= r.budget
    /\ s.tokens <= r.tokens

\* A caller that asks less is never refused where one that asks more is
\* served, and its backend never ranks behind the other's.
AskingLessNeverHurts ==
    Asked /\ Served => \A s \in Requests : AsksNoMore(s, request) =>
        /\ Route(s, backends) # Refused
        /\ ~KeyLess(decision, Route(s, backends))

\* Backends that were not chosen have no influence: take any of them out of
\* the pool and the request goes where it went.
LosersDoNotMatter ==
    Asked /\ Served => \A losers \in SUBSET (BackendsOf(backends) \ {decision}) :
        Route(request, Without(backends, losers)) = decision

\* ADR-0005, revised: cost is per answer where the throughput is known.  No
\* other backend that would do produces a million tokens for less, and a
\* paid backend without a figure is used only when none with one would do.
CheapestAnswer ==
    Asked /\ Served => \A i \in DOMAIN backends :
        LET b == backends[i]
        IN Rejection(b, request) = "none" /\ (b.price = 0 \/ b.tps > 0) =>
              \/ decision.price = 0
              \/ /\ decision.tps > 0
                 /\ b.price > 0
                 /\ decision.price * b.tps <= b.price * decision.tps

\* A backend with no recent traffic has no reading, and "zero would make an
\* idle backend look like the fastest one" (metrics.py): one that is chosen
\* without a reading is within the budget by its configured figure, and no
\* equally priced backend configured faster was passed over for it unless
\* that one's own reading says otherwise.
IdleIsNotFastest ==
    Asked /\ Served /\ reading[decision.model] = NoReading =>
        \E i \in DOMAIN configured :
            /\ configured[i].name = decision.name
            /\ configured[i].ttft <= request.budget
            /\ \A j \in DOMAIN configured :
                  /\ reading[configured[j].model] = NoReading
                  /\ Rejection(configured[j], request) = "none"
                  /\ configured[j].price = decision.price
                  /\ configured[j].tps = decision.tps
                  => configured[i].ttft <= configured[j].ttft
=============================================================================
