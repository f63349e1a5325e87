---------------------------- MODULE RouterProofs ----------------------------
(***************************************************************************)
(* Proofs about the router fed with observed latencies: the decision is    *)
(* always route()'s over the configured pool under the last readings.      *)
(***************************************************************************)
EXTENDS RouterFeed, GatewayLemmas

\* An observed pool is a pool: only the latency figures differ, and each is
\* the configured one or a reading.
LEMMA ObservedPool ==
    ASSUME NEW pool \in Seq(Backend),
           NEW figures \in [Models(pool) -> Readings \cup {NoReading}]
    PROVE  /\ WithObservedTTFT(pool, figures) \in Seq(Backend)
           /\ DOMAIN WithObservedTTFT(pool, figures) = DOMAIN pool
           /\ \A i \in DOMAIN pool :
                 /\ pool[i] \in Backend
                 /\ figures[pool[i].model] \in Readings \cup {NoReading}
                 /\ WithObservedTTFT(pool, figures)[i] = [pool[i] EXCEPT !.ttft =
                       IF figures[pool[i].model] = NoReading THEN pool[i].ttft
                       ELSE figures[pool[i].model]]
<1> DEFINE seen == WithObservedTTFT(pool, figures)
<1>1. DOMAIN pool = 1..Len(pool) /\ Len(pool) \in Nat /\ \A i \in DOMAIN pool : pool[i] \in Backend
  OBVIOUS
<1>2. \A i \in DOMAIN pool : pool[i].model \in Models(pool)
  BY DEF Models
<1>3. \A i \in DOMAIN pool : figures[pool[i].model] \in Readings \cup {NoReading}
  BY <1>2
<1>4. \A i \in DOMAIN pool : seen[i] = [pool[i] EXCEPT !.ttft =
         IF figures[pool[i].model] = NoReading THEN pool[i].ttft ELSE figures[pool[i].model]]
  BY DEF WithObservedTTFT
<1>5. \A i \in DOMAIN pool : seen[i] \in Backend
  <2> TAKE i \in DOMAIN pool
  <2> DEFINE ms == IF figures[pool[i].model] = NoReading THEN pool[i].ttft
                   ELSE figures[pool[i].model]
  <2>1. pool[i] \in Backend /\ pool[i].ttft \in Nat
    BY <1>1 DEF Backend
  <2>2. ms \in Nat
    BY <1>3, <2>1, FiguresAssumption
  <2> HIDE DEF ms
  <2>3. [pool[i] EXCEPT !.ttft = ms] \in Backend
    BY <2>1, <2>2 DEF Backend
  <2>. QED
    BY <1>4, <2>3 DEF ms
<1>6. seen = [i \in 1..Len(pool) |-> seen[i]]
  BY <1>1 DEF WithObservedTTFT
<1> HIDE DEF seen
<1>7. seen \in Seq(Backend) /\ DOMAIN seen = DOMAIN pool
  BY <1>1, <1>5, <1>6
<1>. QED
  BY <1>1, <1>3, <1>4, <1>7 DEF seen

\* The inductive invariant: the pool in use is the configured one under the
\* last readings, and the decision is route()'s for the last request.
FeedInv ==
    /\ configured \in Pools
    /\ reading \in [Models(configured) -> Readings \cup {NoReading}]
    /\ backends = WithObservedTTFT(configured, reading)
    /\ request \in Requests \cup {NoRequest}
    /\ decision = IF request = NoRequest THEN Refused ELSE Route(request, backends)

\* Before the first reading the pool is the configured one.
LEMMA InitFeedInv == Init => FeedInv
<1> SUFFICES ASSUME Init PROVE FeedInv
  OBVIOUS
<1>1. configured \in Seq(Backend)
  BY PoolsAssumption DEF Init
<1>2. reading \in [Models(configured) -> Readings \cup {NoReading}]
  BY DEF Init
<1>3. WithObservedTTFT(configured, reading) = configured
  <2> DEFINE seen == WithObservedTTFT(configured, reading)
  <2>1. DOMAIN seen = DOMAIN configured /\ seen \in Seq(Backend)
    BY <1>1, <1>2, ObservedPool
  <2>2. \A i \in DOMAIN configured : seen[i] = configured[i]
    <3> TAKE i \in DOMAIN configured
    <3>1. configured[i].model \in Models(configured)
      BY DEF Models
    <3>2. reading[configured[i].model] = NoReading
      BY <3>1 DEF Init
    <3>3. configured[i] \in Backend /\ seen[i] = [configured[i] EXCEPT !.ttft = configured[i].ttft]
      BY <1>1, <1>2, <3>2, ObservedPool
    <3>. QED
      BY <3>3 DEF Backend
  <2> HIDE DEF seen
  <2>3. seen = configured
    BY <1>1, <2>1, <2>2
  <2>. QED
    BY <2>3 DEF seen
<1>. QED
  BY <1>2, <1>3 DEF Init, FeedInv

\* Observe replaces the pool between requests, Ask routes over it.
LEMMA NextFeedInv == FeedInv /\ [Next]_vars => FeedInv'
<1> SUFFICES ASSUME FeedInv, [Next]_vars PROVE FeedInv'
  OBVIOUS
<1>1. NoRequest \notin Requests
  BY RequestsAssumption DEF NoRequest, IsRequest
<1>2. CASE Observe
  BY <1>2 DEF FeedInv, Observe
<1>3. CASE Answered
  BY <1>3 DEF FeedInv, Answered
<1>4. ASSUME NEW r \in Requests, Ask(r) PROVE FeedInv'
  BY <1>1, <1>4 DEF FeedInv, Ask
<1>5. CASE UNCHANGED vars
  BY <1>5 DEF FeedInv, vars
<1>. QED
  BY <1>2, <1>3, <1>4, <1>5 DEF Next

\* FeedInv holds in every reachable state.
LEMMA FeedInvariant == Spec => []FeedInv
BY InitFeedInv, NextFeedInv, PTL DEF Spec

\* What FeedInv says of the pool in use and of a request that was served.
LEMMA Decided ==
    ASSUME FeedInv
    PROVE  /\ configured \in Seq(Backend) /\ backends \in Seq(Backend)
           /\ DOMAIN backends = DOMAIN configured
           /\ Asked => request \in Requests /\ decision = Route(request, backends)
           /\ \A i \in DOMAIN backends : backends[i] \in Backend
<1>1. configured \in Seq(Backend)
  BY PoolsAssumption DEF FeedInv
<1>2. backends \in Seq(Backend) /\ DOMAIN backends = DOMAIN configured
  BY <1>1, ObservedPool DEF FeedInv
<1>. QED
  BY <1>1, <1>2 DEF FeedInv, Asked
\* Each backend in use is the configured one with its reading, if it has one.
LEMMA ObservedFigures ==
    ASSUME FeedInv
    PROVE  \A i \in DOMAIN backends :
              /\ configured[i] \in Backend
              /\ reading[configured[i].model] \in Readings \cup {NoReading}
              /\ backends[i] = [configured[i] EXCEPT !.ttft =
                    IF reading[configured[i].model] = NoReading THEN configured[i].ttft
                    ELSE reading[configured[i].model]]
<1>1. configured \in Seq(Backend) /\ DOMAIN backends = DOMAIN configured
  BY Decided
<1>2. /\ reading \in [Models(configured) -> Readings \cup {NoReading}]
      /\ backends = WithObservedTTFT(configured, reading)
  BY DEF FeedInv
<1>3. \A i \in DOMAIN configured :
         /\ configured[i] \in Backend
         /\ reading[configured[i].model] \in Readings \cup {NoReading}
         /\ WithObservedTTFT(configured, reading)[i] = [configured[i] EXCEPT !.ttft =
               IF reading[configured[i].model] = NoReading THEN configured[i].ttft
               ELSE reading[configured[i].model]]
  BY ONLY <1>1, <1>2, ObservedPool, Zenon
<1>. QED
  BY <1>1, <1>2, <1>3, Zenon

-----------------------------------------------------------------------------
\* Every reachable state is well typed: each latency figure in use is the
\* configured one or a reading, and a decision is a backend of the pool.
THEOREM RouterTypeCorrect == Spec => []TypeOK
<1>1. FeedInv => TypeOK
  <2> SUFFICES ASSUME FeedInv PROVE TypeOK
    OBVIOUS
  <2>1. \A i \in DOMAIN backends :
           /\ configured[i] \in Backend
           /\ reading[configured[i].model] \in Readings \cup {NoReading}
           /\ backends[i] = [configured[i] EXCEPT !.ttft =
                 IF reading[configured[i].model] = NoReading THEN configured[i].ttft
                 ELSE reading[configured[i].model]]
    BY ObservedFigures
  <2>2. \A i \in DOMAIN backends :
           /\ backends[i].ttft \in Readings \cup {configured[i].ttft}
           /\ [backends[i] EXCEPT !.ttft = 0] = [configured[i] EXCEPT !.ttft = 0]
    <3> TAKE i \in DOMAIN backends
    <3>1. configured[i] \in Backend
      BY <2>1
    <3>. QED
      BY <2>1, <3>1 DEF Backend
  <2>3. decision \in BackendsOf(backends) \cup {Refused}
    <3>1. CASE request = NoRequest
      BY <3>1 DEF FeedInv
    <3>2. CASE request # NoRequest
      <4>1. Route(request, backends) = Refused \/ \E i \in Eligible(request, backends) : Route(request, backends) = backends[i]
        BY Decided, RouteChooses
      <4>. QED
        BY <3>2, <4>1 DEF FeedInv, BackendsOf, Eligible
    <3>. QED
      BY <3>1, <3>2
  <2>4. DOMAIN backends = DOMAIN configured
    BY Decided
  <2>. QED
    BY <2>2, <2>3, <2>4, Zenon DEF FeedInv, TypeOK
<1>. QED
  BY <1>1, FeedInvariant, PTL

\* Cost only ranks: under any other prices the same requests are served,
\* each by a backend that passes every filter.
THEOREM CostOnlyRanks == Spec => []CostNeverRemoves
<1>1. FeedInv => CostNeverRemoves
  <2> SUFFICES ASSUME FeedInv, Asked,
                      NEW price \in [DOMAIN backends -> Prices]
               PROVE  LET other == Route(request, Repriced(backends, price))
                      IN /\ (other = Refused) <=> ~Served
                         /\ Served => /\ other.ceiling >= request.class
                                      /\ request.caps \subseteq other.caps
                                      /\ other.ttft <= request.budget
                                      /\ 10 * (other.context + 1) > 13 * request.tokens
    BY DEF CostNeverRemoves
  <2> DEFINE pool == Repriced(backends, price)
  <2>1. /\ backends \in Seq(Backend)
        /\ request \in Requests /\ IsRequest(request)
        /\ decision = Route(request, backends)
    BY Decided, RequestsAssumption
  <2>2. /\ pool \in Seq(Backend)
        /\ DOMAIN pool = DOMAIN backends
        /\ \A i \in DOMAIN backends : /\ pool[i] \in Backend
                                      /\ pool[i] = [backends[i] EXCEPT !.price = price[i]]
    <3>1. /\ DOMAIN backends = 1..Len(backends) /\ Len(backends) \in Nat
          /\ \A i \in DOMAIN backends : backends[i] \in Backend /\ price[i] \in Nat
      <4>1. \A i \in DOMAIN backends : price[i] \in Nat
        BY FiguresAssumption
      <4>2. /\ DOMAIN backends = 1..Len(backends) /\ Len(backends) \in Nat
            /\ \A i \in DOMAIN backends : backends[i] \in Backend
        BY <2>1
      <4>. QED
        BY <4>1, <4>2
    <3>2. \A i \in DOMAIN backends : pool[i] = [backends[i] EXCEPT !.price = price[i]]
      BY DEF Repriced
    <3>3. \A i \in DOMAIN backends : pool[i] \in Backend
      BY <3>1, <3>2 DEF Backend
    <3>4. pool = [i \in 1..Len(backends) |-> pool[i]]
      BY <3>1 DEF Repriced
    <3> HIDE DEF pool
    <3>. QED
      BY <3>1, <3>2, <3>3, <3>4
  <2> HIDE DEF pool
  <2>3. Eligible(request, pool) = Eligible(request, backends)
    <3>1. \A i \in DOMAIN backends : Rejection(pool[i], request) = Rejection(backends[i], request)
      BY <2>1, <2>2 DEF Rejection, Backend
    <3>. QED
      BY <2>2, <3>1 DEF Eligible
  <2>4. Route(request, pool) = Refused <=> ~Served
    BY <2>1, <2>2, <2>3, RouteChooses DEF Served
  <2>5. ASSUME Served
        PROVE  LET other == Route(request, pool)
               IN /\ other.ceiling >= request.class
                  /\ request.caps \subseteq other.caps
                  /\ other.ttft <= request.budget
                  /\ 10 * (other.context + 1) > 13 * request.tokens
    <3>1. PICK i \in Eligible(request, pool) : Route(request, pool) = pool[i]
      BY <2>2, <2>4, <2>5, RouteChooses
    <3>2. pool[i] \in Backend /\ Rejection(pool[i], request) = "none"
      BY <2>2, <3>1 DEF Eligible
    <3>3. /\ ~(pool[i].ceiling < request.class)
          /\ request.caps \subseteq pool[i].caps
          /\ ~(pool[i].context < NeededContext(request))
          /\ ~(pool[i].ttft > request.budget)
      BY <3>2 DEF Rejection
    <3>4. /\ pool[i].ceiling \in Nat /\ pool[i].context \in Nat /\ pool[i].ttft \in Nat
          /\ request.class \in Nat /\ request.budget \in Nat /\ request.tokens \in Nat
      BY <2>1, <3>2 DEF Backend, IsRequest
    <3>5. 10 * (pool[i].context + 1) > 13 * request.tokens
      BY <3>3, <3>4 DEF NeededContext
    <3>6. pool[i].ceiling >= request.class /\ pool[i].ttft <= request.budget
      BY <3>3, <3>4
    <3>. QED
      BY <3>1, <3>3, <3>5, <3>6
  <2>. QED
    BY <2>4, <2>5 DEF pool
<1>. QED
  BY <1>1, FeedInvariant, PTL

\* A request that asks no more is served wherever one that asks more is, by
\* a backend that does not rank behind the other's.
THEOREM AskingLessIsSafe == Spec => []AskingLessNeverHurts
<1>1. FeedInv => AskingLessNeverHurts
  <2> SUFFICES ASSUME FeedInv, Asked, Served,
                      NEW s \in Requests, AsksNoMore(s, request)
               PROVE  /\ Route(s, backends) # Refused
                      /\ ~KeyLess(decision, Route(s, backends))
    BY DEF AskingLessNeverHurts
  <2>1. /\ backends \in Seq(Backend)
        /\ IsRequest(request) /\ IsRequest(s)
        /\ decision = Route(request, backends)
        /\ \A i \in DOMAIN backends : backends[i] \in Backend
    BY Decided, RequestsAssumption
  <2>2. \A i \in DOMAIN backends :
           Rejection(backends[i], request) = "none" => Rejection(backends[i], s) = "none"
    <3> SUFFICES ASSUME NEW b \in Backend, Rejection(b, request) = "none"
                 PROVE  Rejection(b, s) = "none"
      BY <2>1
    <3>1. /\ b.ceiling \in Nat /\ b.context \in Nat /\ b.ttft \in Nat
          /\ request.class \in Nat /\ request.budget \in Nat /\ request.tokens \in Nat
          /\ s.class \in Nat /\ s.budget \in Nat /\ s.tokens \in Nat
      BY <2>1 DEF Backend, IsRequest
    <3>2. /\ ~(b.ceiling < request.class) /\ request.caps \subseteq b.caps
          /\ ~(b.context < NeededContext(request)) /\ ~(b.ttft > request.budget)
      BY DEF Rejection
    <3>3. /\ s.class <= request.class /\ s.caps \subseteq request.caps
          /\ s.budget >= request.budget /\ s.tokens <= request.tokens
      BY DEF AsksNoMore
    <3>4. ~(b.context < NeededContext(s))
      BY <3>1, <3>2, <3>3 DEF NeededContext
    <3>5. ~(b.ceiling < s.class) /\ ~(b.ttft > s.budget) /\ s.caps \subseteq b.caps
      BY <3>1, <3>2, <3>3
    <3>. QED
      BY <3>4, <3>5 DEF Rejection
  <2>3. Eligible(request, backends) \subseteq Eligible(s, backends)
    BY <2>2 DEF Eligible
  <2>4. PICK i \in Eligible(request, backends) : decision = backends[i]
    BY <2>1, RouteChooses DEF Served
  <2>5. PICK k \in Eligible(s, backends) :
           /\ Route(s, backends) = backends[k]
           /\ \A j \in Eligible(s, backends) : ~KeyLess(backends[j], backends[k])
    BY <2>1, <2>3, <2>4, RouteChooses
  <2>6. Route(s, backends) # Refused
    BY <2>1, <2>5, RouteChooses
  <2>. QED
    BY <2>3, <2>4, <2>5, <2>6
<1>. QED
  BY <1>1, FeedInvariant, PTL

\* A decision is the same without any of the backends that were not chosen.
THEOREM LosersNeverMatter == Spec => []LosersDoNotMatter
<1>1. FeedInv => LosersDoNotMatter
  <2> SUFFICES ASSUME FeedInv, Asked, Served,
                      NEW losers \in SUBSET (BackendsOf(backends) \ {decision})
               PROVE  Route(request, Without(backends, losers)) = decision
    BY DEF LosersDoNotMatter
  <2>. QED
    BY Decided, RouteIgnoresLosers DEF Served
<1>. QED
  BY <1>1, FeedInvariant, PTL

\* No backend that would do answers for less per token where the throughput
\* is known, and a paid one without a figure never goes before one with.
THEOREM AnswerIsCheapest == Spec => []CheapestAnswer
<1>1. FeedInv => CheapestAnswer
  <2> SUFFICES ASSUME FeedInv, Asked, Served, NEW i \in DOMAIN backends,
                      Rejection(backends[i], request) = "none",
                      backends[i].price = 0 \/ backends[i].tps > 0
               PROVE  \/ decision.price = 0
                      \/ /\ decision.tps > 0
                         /\ backends[i].price > 0
                         /\ decision.price * backends[i].tps <= backends[i].price * decision.tps
    BY DEF CheapestAnswer
  <2>1. /\ backends \in Seq(Backend)
        /\ decision = Route(request, backends)
        /\ \A j \in DOMAIN backends : backends[j] \in Backend
    BY Decided
  <2>2. i \in Eligible(request, backends)
    BY DEF Eligible
  <2>3. PICK k \in Eligible(request, backends) :
           /\ decision = backends[k]
           /\ \A j \in Eligible(request, backends) : ~KeyLess(backends[j], backends[k])
    BY <2>1, <2>2, RouteChooses
  <2> DEFINE d == backends[k]  b == backends[i]
  <2>4. d \in Backend /\ b \in Backend /\ ~KeyLess(b, d)
    BY <2>1, <2>2, <2>3 DEF Eligible
  <2>5. decision = d /\ (b.price = 0 \/ b.tps > 0)
    BY <2>3
  <2> HIDE DEF d, b
  <2>6. /\ d.price \in Nat /\ d.tps \in Nat /\ b.price \in Nat /\ b.tps \in Nat
    BY <2>4 DEF Backend
  <2>7. Priced(b) /\ Priced(d) /\ ~Cheaper(Rate(b), Rate(d))
    BY <2>4, <2>5 DEF KeyLess, Priced, Local
  <2>8. CASE d.price = 0
    BY <2>5, <2>8
  <2>9. CASE d.price # 0
    <3>1. d.tps > 0 /\ Rate(d) = <<d.price, d.tps>>
      BY <2>6, <2>7, <2>9 DEF Priced, Local, Rate
    <3>2. b.price # 0
      <4>1. SUFFICES ASSUME b.price = 0 PROVE FALSE
        OBVIOUS
      <4>2. Rate(b) = <<0, 1>>
        BY <4>1 DEF Rate, Local
      <4>. QED
        BY <2>6, <2>7, <2>9, <3>1, <4>2 DEF Cheaper
    <3>3. Rate(b) = <<b.price, b.tps>>
      BY <2>7, <3>2 DEF Rate, Local
    <3>4. d.price * b.tps <= b.price * d.tps
      BY <2>6, <2>7, <3>1, <3>3 DEF Cheaper
    <3>. QED
      BY <2>5, <2>6, <3>1, <3>2, <3>4 DEF b
  <2>. QED
    BY <2>8, <2>9
<1>. QED
  BY <1>1, FeedInvariant, PTL

\* A backend chosen without a reading is within the budget as configured,
\* and the fastest as configured of its like that have no reading either.
THEOREM IdleKeepsItsFigure == Spec => []IdleIsNotFastest
<1>1. FeedInv => IdleIsNotFastest
  <2> SUFFICES ASSUME FeedInv, Asked, Served, reading[decision.model] = NoReading
               PROVE  \E i \in DOMAIN configured :
                        /\ configured[i].name = decision.name
                        /\ configured[i].ttft <= request.budget
                        /\ \A j \in DOMAIN configured :
                              /\ reading[configured[j].model] = NoReading
                              /\ Rejection(configured[j], request) = "none"
                              /\ configured[j].price = decision.price
                              /\ configured[j].tps = decision.tps
                              => configured[i].ttft <= configured[j].ttft
    BY DEF IdleIsNotFastest
  <2>1. /\ backends \in Seq(Backend) /\ configured \in Seq(Backend)
        /\ DOMAIN backends = DOMAIN configured
        /\ IsRequest(request)
        /\ decision = Route(request, backends)
        /\ \A j \in DOMAIN backends : backends[j] \in Backend /\ configured[j] \in Backend
    BY Decided, RequestsAssumption
  <2>2. \A j \in DOMAIN configured : backends[j].model = configured[j].model
    BY <2>1, ObservedFigures DEF Backend
  <2>3. \A j \in DOMAIN configured :
           reading[configured[j].model] = NoReading => backends[j] = configured[j]
    <3> TAKE j \in DOMAIN configured
    <3> HAVE reading[configured[j].model] = NoReading
    <3>1. backends[j] = [configured[j] EXCEPT !.ttft = configured[j].ttft]
      BY <2>1, ObservedFigures
    <3>. QED
      BY <2>1, <3>1 DEF Backend
  <2>4. PICK i \in Eligible(request, backends) :
           /\ decision = backends[i]
           /\ \A j \in Eligible(request, backends) : ~KeyLess(backends[j], backends[i])
    BY <2>1, RouteChooses DEF Served
  <2>5. i \in DOMAIN configured /\ backends[i] = configured[i]
    BY <2>1, <2>2, <2>3, <2>4 DEF Eligible
  <2>6. configured[i].ttft <= request.budget
    <3>1. Rejection(configured[i], request) = "none"
      BY <2>4, <2>5 DEF Eligible
    <3>2. ~(configured[i].ttft > request.budget)
      BY <3>1 DEF Rejection
    <3>3. configured[i].ttft \in Nat /\ request.budget \in Nat
      BY <2>1, <2>5 DEF Backend, IsRequest
    <3>. QED
      BY <3>2, <3>3
  <2>7. ASSUME NEW j \in DOMAIN configured,
               reading[configured[j].model] = NoReading,
               Rejection(configured[j], request) = "none",
               configured[j].price = decision.price,
               configured[j].tps = decision.tps
        PROVE  configured[i].ttft <= configured[j].ttft
    <3>1. backends[j] = configured[j] /\ j \in Eligible(request, backends)
      BY <2>1, <2>3, <2>7 DEF Eligible
    <3>2. ~KeyLess(configured[j], configured[i])
      BY <2>4, <2>5, <3>1
    <3>3. configured[j].price = configured[i].price /\ configured[j].tps = configured[i].tps
      BY <2>4, <2>5, <2>7
    <3>4. /\ Rate(configured[j]) = Rate(configured[i])
          /\ Priced(configured[j]) = Priced(configured[i])
      BY <3>3 DEF Rate, Priced, Local
    <3>5. ~Cheaper(Rate(configured[i]), Rate(configured[i]))
      BY <2>1, <2>5, RateIsFraction, CheaperAsymmetric
    <3>6. ~(configured[j].ttft < configured[i].ttft)
      BY <3>2, <3>4, <3>5 DEF KeyLess
    <3>. QED
      BY <2>1, <2>5, <3>6 DEF Backend
  <2>. QED
    BY <2>4, <2>5, <2>6, <2>7
<1>. QED
  BY <1>1, FeedInvariant, PTL
=============================================================================
