--------------------------- MODULE GatewayProofs ---------------------------
(***************************************************************************)
(* Proofs about concurrent calls of handle(), for every number of callers, *)
(* tenants, backends and calls, and for every size of the cache.  The      *)
(* inductive invariant says where each caller's data come from while the   *)
(* call is under way, and that every entry of the cache was made for the   *)
(* scope it is kept in.                                                    *)
(***************************************************************************)
EXTENDS GatewayProperties, GatewayLemmas, FiniteSetTheorems

AnswerSet == [prompt : Prompts, scope : Scopes, backend : BackendNames, whole : BOOLEAN]
EntrySet  == [id : Nat, prompt : Prompts, response : AnswerSet, at : Nat]
RecordSet == [id : Nat, tenant : Tenants, backend : BackendNames, cached : BOOLEAN]
CallSet ==
    [pc : Steps, id : 0..MaxCalls, ask : Asks \cup {NoAsk}, tenant : Tenants \cup {NoTenant},
     backend : PoolBackends \cup {Refused}, answer : AnswerSet \cup {NoAnswer},
     cached : BOOLEAN]

Typed ==
    /\ call \in [Callers -> CallSet]
    /\ inFlight \in [BackendNames -> Nat]
    /\ ledger \in Seq(RecordSet)
    /\ asked \in 0..MaxCalls
    /\ bucket \in [Scopes -> SUBSET EntrySet]
    /\ nextId \in Nat /\ now \in Nat

\* A backend of that name takes the class.
Allowed(a, class) == \E b \in PoolBackends : b.name = a.backend /\ b.ceiling >= class

\* A call that went past the router has a tenant and an allowed backend.
Admitted(x) ==
    x.pc \in {"lookup", "enter", "stream", "record", "store", "answered"} =>
        /\ x.ask \in Asks /\ x.tenant \in Tenants
        /\ x.backend \in PoolBackends /\ x.backend.ceiling >= x.ask.class

\* An answer under way to its caller fits the call.
Fits(x) ==
    x.pc \in {"record", "store", "answered"} =>
        /\ x.answer \in AnswerSet /\ x.answer.scope = ScopeOf(x)
        /\ Allowed(x.answer, x.ask.class)
        /\ Numbers[x.answer.prompt] = Numbers[x.ask.prompt]
        /\ ~x.cached => x.answer.prompt = x.ask.prompt
        /\ x.pc = "store" => ~x.cached

CallsFit == \A c \in Callers : Admitted(call[c]) /\ Fits(call[c])

\* An entry answers its own prompt in the scope it is kept in.
CacheFits ==
    \A s \in Scopes : \A e \in bucket[s] :
        /\ e.response.scope = s
        /\ e.response.prompt = e.prompt
        /\ Allowed(e.response, s.class)

Busy(x) == x.pc # "idle"

\* Call numbers are not shared, and the ledger knows no others.
IdsFit ==
    /\ \A c \in Callers : Busy(call[c]) => call[c].id \in 1..asked
    /\ \A c, d \in Callers : Busy(call[c]) /\ Busy(call[d]) /\ c # d => call[c].id # call[d].id
    /\ \A i \in DOMAIN ledger : ledger[i].id \in 1..asked

\* A call has one record once it is past Record and none before.
Recorded(x) == x.pc \in {"store", "answered"}
LedgerFits ==
    \A c \in Callers :
        /\ Recorded(call[c]) => \E i \in DOMAIN ledger :
              /\ RecordsOf(call[c].id) = {i}
              /\ ledger[i].tenant = call[c].tenant /\ ledger[i].cached = call[c].cached
        /\ Busy(call[c]) /\ ~Recorded(call[c]) => RecordsOf(call[c].id) = {}

GatewayInv == Typed /\ CallsFit /\ CacheFits /\ IdsFit /\ LedgerFits /\ InFlightCounts

-----------------------------------------------------------------------------
\* What a step of one caller leaves of the others.
LEMMA CallMoves ==
    ASSUME call \in [Callers -> CallSet], NEW c \in Callers, NEW y,
           call' = [call EXCEPT ![c] = y]
    PROVE  /\ call'[c] = y
           /\ \A d \in Callers : d # c => call'[d] = call[d]
           /\ y \in CallSet => call' \in [Callers -> CallSet]
OBVIOUS

\* The pool's backends are backends and have names.
LEMMA PoolFacts ==
    /\ \A b \in PoolBackends : b \in Backend /\ b.name \in BackendNames /\ b # Refused
    /\ \A a, b \in PoolBackends : a.name = b.name => a = b
<1>1. \A i \in DOMAIN Pool : Pool[i] \in Backend
  BY PoolAssumption
<1>2. Refused \notin Backend
  BY DEF Refused, Backend
<1>. QED
  BY <1>1, <1>2, PoolAssumption DEF PoolBackends, BackendNames

\* route() over the pool returns a backend whose ceiling allows the class.
LEMMA Routed ==
    ASSUME NEW ask \in Asks, Route(ask, Pool) # Refused
    PROVE  Route(ask, Pool) \in PoolBackends /\ Route(ask, Pool).ceiling >= ask.class
<1>1. PICK i \in Eligible(ask, Pool) : Route(ask, Pool) = Pool[i]
  BY RouteChooses, PoolAssumption
<1>2. i \in DOMAIN Pool /\ Rejection(Pool[i], ask) = "none"
  BY DEF Eligible
<1>3. Pool[i].ceiling \in Nat /\ ask.class \in Nat
  <2>1. Pool[i] \in Backend
    BY <1>2, PoolAssumption
  <2>2. IsRequest(ask)
    BY AsksAssumption
  <2>. QED
    BY <2>1, <2>2 DEF Backend, IsRequest
<1>4. Pool[i].ceiling >= ask.class
  BY <1>2, <1>3 DEF Rejection
<1>. QED
  BY <1>1, <1>2, <1>4 DEF PoolBackends

\* The scope of an admitted call is one of the cache's.
LEMMA ScopeOfAdmitted ==
    ASSUME NEW x, x.ask \in Asks, x.tenant \in Tenants, x.backend \in PoolBackends
    PROVE  /\ ScopeOf(x) \in Scopes
           /\ ScopeOf(x).class = x.ask.class /\ ScopeOf(x).model = x.backend.model
           /\ ScopeOf(x).settings = x.ask.settings /\ ScopeOf(x).tenant = x.tenant
BY AsksAssumption DEF ScopeOf, PoolBackends
-----------------------------------------------------------------------------
\* The scan of get() ends at an entry it considered.
LEMMA NearestIsNear ==
    ASSUME bucket \in [Scopes -> SUBSET EntrySet], NEW p \in Prompts, NEW s \in Scopes,
           Near(p, s) # {}
    PROVE  Nearest(p, s) \in Near(p, s) /\ Nearest(p, s) \in bucket[s]
<1> DEFINE N == Near(p, s)
           far(e) == 100 - Similarity[p][e.prompt]
<1>1. N \subseteq bucket[s] /\ \A e \in N : e.id \in Nat /\ e.prompt \in Prompts
  BY DEF Near, Live, EntrySet
<1>2. \A e \in N : Similarity[p][e.prompt] \in 0..100
  BY <1>1, SimilarityAssumption
<1>3. \A e \in N : far(e) \in Nat
  BY <1>2
<1> DEFINE Fars == {far(e) : e \in N}
<1>4. Fars \in SUBSET Nat /\ Fars # {}
  BY <1>3
<1>5. PICK m \in Fars : \A k \in Fars : m <= k
  <2> HIDE DEF Fars
  <2>. QED
    BY <1>4, LeastNumber
<1> DEFINE Ids == {e.id : e \in {f \in N : far(f) = m}}
<1>6. Ids \in SUBSET Nat /\ Ids # {}
  BY <1>1, <1>5
<1>7. PICK n \in Ids : \A k \in Ids : n <= k
  <2> HIDE DEF Ids
  <2>. QED
    BY <1>6, LeastNumber
<1>8. PICK e \in N : far(e) = m /\ e.id = n
  BY <1>7
<1>9. \A f \in N : \/ Similarity[p][f.prompt] < Similarity[p][e.prompt]
                   \/ Similarity[p][f.prompt] = Similarity[p][e.prompt] /\ e.id <= f.id
  <2> TAKE f \in N
  <2>1. far(e) <= far(f)
    BY <1>5, <1>8
  <2>2. far(f) = m => n <= f.id
    BY <1>7
  <2>3. /\ Similarity[p][e.prompt] \in Int /\ Similarity[p][f.prompt] \in Int
        /\ e.id \in Int /\ f.id \in Int
    BY <1>1, <1>2
  <2>4. Similarity[p][f.prompt] <= Similarity[p][e.prompt]
    BY <2>1, <2>3
  <2>5. Similarity[p][f.prompt] = Similarity[p][e.prompt] => e.id <= f.id
    BY <1>8, <2>2, <2>3
  <2>. QED
    BY <2>3, <2>4, <2>5
<1>10. Nearest(p, s) \in N
  BY <1>8, <1>9 DEF Nearest
<1>. QED
  BY <1>1, <1>10

\* A hit is an entry of the searched bucket with the prompt's numerals.
LEMMA HitIsEntry ==
    ASSUME bucket \in [Scopes -> SUBSET EntrySet], NEW p \in Prompts, NEW s \in Scopes,
           Hit(p, s)
    PROVE  Nearest(p, s) \in bucket[s] /\ Numbers[Nearest(p, s).prompt] = Numbers[p]
BY NearestIsNear DEF Hit, Found, SameNumbers

\* get() only takes entries away.
LEMMA GetKeeps ==
    ASSUME Typed, CacheFits, NEW p, NEW s \in Scopes, Get(p, s)
    PROVE  /\ bucket' \in [Scopes -> SUBSET EntrySet] /\ nextId' \in Nat /\ now' \in Nat
           /\ CacheFits'
<1>1. bucket' = [bucket EXCEPT ![s] = Live(s)] /\ nextId' = nextId /\ now' = now
  BY DEF Get, Search
<1>2. Live(s) \subseteq bucket[s]
  BY DEF Live
<1>3. \A t \in Scopes : bucket'[t] \subseteq bucket[t]
  BY <1>1, <1>2 DEF Typed
<1>4. bucket' \in [Scopes -> SUBSET EntrySet]
  BY <1>1, <1>2 DEF Typed
<1>5. CacheFits'
  BY <1>3 DEF CacheFits, Allowed
<1>. QED
  BY <1>1, <1>4, <1>5 DEF Typed

\* put() adds one entry, made for the scope it is put in.
LEMMA PutKeeps ==
    ASSUME Typed, CacheFits, NEW p \in Prompts, NEW a \in AnswerSet, NEW s \in Scopes,
           a.scope = s, a.prompt = p, Allowed(a, s.class), Put(p, a, s)
    PROVE  /\ bucket' \in [Scopes -> SUBSET EntrySet] /\ nextId' \in Nat /\ now' \in Nat
           /\ CacheFits'
<1> DEFINE entry == [id |-> nextId, prompt |-> p, response |-> a, at |-> now]
<1>1. /\ nextId' = nextId + 1 /\ now' = now
      /\ \A t \in Scopes : bucket'[t] \subseteq bucket[t] \cup (IF t = s THEN {entry} ELSE {})
      /\ bucket' = [t \in Scopes |-> bucket'[t]]
  BY DEF Put, Enter, Typed
<1>2. entry \in EntrySet
  BY DEF Typed, EntrySet
<1>3. bucket' \in [Scopes -> SUBSET EntrySet]
  <2>1. \A t \in Scopes : bucket'[t] \in SUBSET EntrySet
    <3> HIDE DEF entry
    <3>. QED
      BY <1>1, <1>2 DEF Typed
  <2>. QED
    BY <1>1, <2>1
<1>4. CacheFits'
  <2> SUFFICES ASSUME NEW t \in Scopes, NEW e \in bucket'[t]
               PROVE  /\ e.response.scope = t /\ e.response.prompt = e.prompt
                      /\ Allowed(e.response, t.class)
    BY DEF CacheFits, Allowed
  <2>1. CASE e \in bucket[t]
    BY <2>1 DEF CacheFits
  <2>2. CASE e \notin bucket[t]
    <3>1. t = s /\ e = entry
      BY <1>1, <2>2
    <3>. QED
      BY <3>1
  <2>. QED
    BY <2>1, <2>2
<1>. QED
  BY <1>1, <1>3, <1>4 DEF Typed
-----------------------------------------------------------------------------
\* A step that leaves the mover's call fitting leaves all calls fitting.
LEMMA CallsKept ==
    ASSUME Typed, CallsFit, NEW c \in Callers, NEW y \in CallSet,
           call' = [call EXCEPT ![c] = y], Admitted(y), Fits(y)
    PROVE  call' \in [Callers -> CallSet] /\ CallsFit'
<1>1. /\ call'[c] = y /\ \A d \in Callers : d # c => call'[d] = call[d]
      /\ call' \in [Callers -> CallSet]
  BY CallMoves DEF Typed
<1>2. ASSUME NEW d \in Callers PROVE Admitted(call'[d]) /\ Fits(call'[d])
  <2>1. CASE d = c
    BY <1>1, <2>1
  <2>2. CASE d # c
    BY <1>1, <2>2 DEF CallsFit
  <2>. QED
    BY <2>1, <2>2
<1>. QED
  BY <1>1, <1>2 DEF CallsFit, Admitted, Fits, Allowed, ScopeOf

\* A step that tells the ledger nothing, by a call that keeps its number and
\* its side of Record.
LEMMA LedgerKept ==
    ASSUME Typed, IdsFit, LedgerFits, NEW c \in Callers, NEW y,
           call' = [call EXCEPT ![c] = y], ledger' = ledger, asked' = asked,
           Busy(call[c]), Busy(y), y.id = call[c].id,
           Recorded(y) <=> Recorded(call[c]),
           Recorded(y) => y.tenant = call[c].tenant /\ y.cached = call[c].cached
    PROVE  IdsFit' /\ LedgerFits'
<1>1. /\ call'[c] = y /\ \A d \in Callers : d # c => call'[d] = call[d]
  BY CallMoves DEF Typed
<1>2. \A d \in Callers : /\ Busy(call'[d]) <=> Busy(call[d])
                         /\ call'[d].id = call[d].id
                         /\ Recorded(call'[d]) <=> Recorded(call[d])
                         /\ Recorded(call[d]) => /\ call'[d].tenant = call[d].tenant
                                                 /\ call'[d].cached = call[d].cached
  BY <1>1
<1>3. \A n : RecordsOf(n)' = RecordsOf(n)
  BY DEF RecordsOf
<1>4. IdsFit'
  BY <1>2 DEF IdsFit, Busy
<1>5. LedgerFits'
  BY <1>2, <1>3 DEF LedgerFits, Busy, Recorded, RecordsOf
<1>. QED
  BY <1>4, <1>5

\* The calls that are with a backend.
With(b) == {c \in Callers : call[c].pc = "stream" /\ call[c].backend.name = b}

\* They are finitely many.
LEMMA WithFinite ==
    ASSUME NEW b
    PROVE  /\ IsFiniteSet(With(b)) /\ Cardinality(With(b)) \in Nat
           /\ Cardinality(With(b)) <= Cardinality(Callers) /\ Cardinality(Callers) \in Nat
<1>1. With(b) \in SUBSET Callers
  BY DEF With
<1>. QED
  BY <1>1, CallersAssumption, FS_Subset, FS_CardinalityType

\* A step of a call that is with no backend before or after.
LEMMA CountKept ==
    ASSUME Typed, InFlightCounts, NEW c \in Callers, NEW y,
           call' = [call EXCEPT ![c] = y], inFlight' = inFlight,
           call[c].pc # "stream", y.pc # "stream"
    PROVE  InFlightCounts' /\ inFlight' \in [BackendNames -> Nat]
<1>1. /\ call'[c] = y /\ \A d \in Callers : d # c => call'[d] = call[d]
  BY CallMoves DEF Typed
<1>2. \A b \in BackendNames : With(b)' = With(b)
  BY <1>1 DEF With
<1>. QED
  BY <1>2 DEF InFlightCounts, With, Typed

\* A call that enters is counted once.
LEMMA CountEntered ==
    ASSUME Typed, InFlightCounts, NEW c \in Callers, NEW y,
           call' = [call EXCEPT ![c] = y], call[c].pc # "stream", y.pc = "stream",
           y.backend.name \in BackendNames,
           inFlight' = [inFlight EXCEPT ![y.backend.name] = @ + 1]
    PROVE  InFlightCounts' /\ inFlight' \in [BackendNames -> Nat]
<1>1. /\ call'[c] = y /\ \A d \in Callers : d # c => call'[d] = call[d]
  BY CallMoves DEF Typed
<1>2. ASSUME NEW b \in BackendNames PROVE inFlight'[b] = Cardinality(With(b)')
  <2>1. CASE b = y.backend.name
    <3>1. With(b)' = With(b) \cup {c} /\ c \notin With(b)
      BY <1>1, <2>1 DEF With
    <3>2. Cardinality(With(b)') = Cardinality(With(b)) + 1
      BY <3>1, WithFinite, FS_AddElement
    <3>. QED
      BY <2>1, <3>2 DEF InFlightCounts, With, Typed
  <2>2. CASE b # y.backend.name
    <3>1. With(b)' = With(b)
      BY <1>1, <2>2 DEF With
    <3>. QED
      BY <2>2, <3>1 DEF InFlightCounts, With, Typed
  <2>. QED
    BY <2>1, <2>2
<1>3. inFlight' \in [BackendNames -> Nat]
  BY DEF Typed
<1>. QED
  BY <1>2, <1>3 DEF InFlightCounts, With

\* A call that leaves its backend, answered or not, is counted out once.
LEMMA CountLeft ==
    ASSUME Typed, InFlightCounts, NEW c \in Callers, NEW y,
           call' = [call EXCEPT ![c] = y], call[c].pc = "stream", y.pc # "stream",
           call[c].backend.name \in BackendNames, Leave(call[c].backend.name)
    PROVE  InFlightCounts' /\ inFlight' \in [BackendNames -> Nat]
<1>0. PICK n : n = call[c].backend.name
  OBVIOUS
<1>1. /\ call'[c] = y /\ \A d \in Callers : d # c => call'[d] = call[d]
  BY CallMoves DEF Typed
<1>2. /\ c \in With(n) /\ With(n)' = With(n) \ {c}
      /\ \A b : b # n => With(b)' = With(b)
  BY <1>0, <1>1 DEF With
<1>3. Cardinality(With(n)') = Cardinality(With(n)) - 1 /\ Cardinality(With(n)') \in Nat
  BY <1>2, WithFinite, FS_RemoveElement, FS_CardinalityType
<1>4. inFlight[n] = Cardinality(With(n)) /\ inFlight[n] > 0
  <2>1. inFlight[n] = Cardinality(With(n))
    BY <1>0 DEF InFlightCounts, With
  <2>2. Cardinality(With(n)) \in Nat
    BY WithFinite
  <2>. QED
    BY <1>3, <2>1, <2>2
<1>5. inFlight' = [inFlight EXCEPT ![n] = @ - 1]
  BY <1>0, <1>4 DEF Leave
<1>6. \A b \in BackendNames : inFlight'[b] = Cardinality(With(b)')
  BY <1>0, <1>2, <1>3, <1>4, <1>5 DEF InFlightCounts, With, Typed
<1>7. inFlight' \in [BackendNames -> Nat]
  BY <1>0, <1>3, <1>4, <1>5 DEF Typed
<1>. QED
  BY <1>6, <1>7 DEF InFlightCounts, With
-----------------------------------------------------------------------------
\* A step that does not touch the cache.
LEMMA CacheKept ==
    ASSUME Typed, CacheFits, UNCHANGED cacheVars
    PROVE  /\ bucket' \in [Scopes -> SUBSET EntrySet] /\ nextId' \in Nat /\ now' \in Nat
           /\ CacheFits'
BY DEF Typed, CacheFits, cacheVars, Allowed

\* What the parts of the invariant say of one caller.
LEMMA OneCall ==
    ASSUME GatewayInv, NEW c \in Callers
    PROVE  /\ call[c] \in CallSet /\ Admitted(call[c]) /\ Fits(call[c])
           /\ call[c] = [pc |-> call[c].pc, id |-> call[c].id, ask |-> call[c].ask,
                         tenant |-> call[c].tenant, backend |-> call[c].backend,
                         answer |-> call[c].answer, cached |-> call[c].cached]
<1>1. call[c] \in CallSet
  BY DEF GatewayInv, Typed
<1>2. Admitted(call[c]) /\ Fits(call[c])
  BY DEF GatewayInv, CallsFit
<1>. QED
  BY <1>1, <1>2 DEF CallSet

\* A call is taken in or refused.
LEMMA HandleStep ==
    ASSUME GatewayInv, NEW c \in Callers, NEW ask \in Asks,
           NEW tenant \in Tenants \cup {NoTenant}, Handle(c, ask, tenant)
    PROVE  GatewayInv'
<1> DEFINE b == IF tenant = NoTenant THEN Refused ELSE Route(ask, Pool)
           y == [pc |-> IF b = Refused THEN "refused" ELSE "lookup", id |-> asked + 1,
                 ask |-> ask, tenant |-> tenant, backend |-> b, answer |-> NoAnswer,
                 cached |-> FALSE]
<1>1. PICK z : z = y
  OBVIOUS
<1>2. /\ call' = [call EXCEPT ![c] = z] /\ asked' = asked + 1 /\ asked < MaxCalls
      /\ call[c].pc = "idle" /\ inFlight' = inFlight /\ ledger' = ledger
      /\ UNCHANGED cacheVars
  BY <1>1 DEF Handle
<1>3. asked \in Nat /\ MaxCalls \in Nat /\ asked + 1 \in 0..MaxCalls
  BY <1>2, CallersAssumption DEF GatewayInv, Typed
<1>4. b # Refused => b \in PoolBackends /\ b.ceiling >= ask.class /\ tenant \in Tenants
  BY Routed
<1> HIDE DEF b
<1>5. z.pc \in {"refused", "lookup"} /\ z.id = asked + 1
  BY <1>1
<1>6. z \in CallSet
  BY <1>1, <1>3, <1>4 DEF CallSet, Steps
<1>7. Admitted(z) /\ Fits(z)
  BY <1>1, <1>4 DEF Admitted, Fits
<1>8. call' \in [Callers -> CallSet] /\ CallsFit'
  BY <1>2, <1>6, <1>7, CallsKept DEF GatewayInv
<1>9. InFlightCounts' /\ inFlight' \in [BackendNames -> Nat]
  BY <1>2, <1>5, CountKept DEF GatewayInv
<1>10. call'[c] = z /\ \A d \in Callers : d # c => call'[d] = call[d]
  BY <1>2, CallMoves DEF GatewayInv, Typed
<1>11. IdsFit'
  <2>1. \A d \in Callers : d # c /\ Busy(call[d]) => call[d].id \in 1..asked
    BY DEF GatewayInv, IdsFit
  <2>2. \A d \in Callers : Busy(call'[d]) => call'[d].id \in 1..asked'
    BY <1>2, <1>3, <1>5, <1>10, <2>1
  <2>3. \A d, e \in Callers :
           Busy(call'[d]) /\ Busy(call'[e]) /\ d # e => call'[d].id # call'[e].id
    BY <1>3, <1>5, <1>10, <2>1 DEF GatewayInv, IdsFit
  <2>4. \A i \in DOMAIN ledger' : ledger'[i].id \in 1..asked'
    BY <1>2, <1>3 DEF GatewayInv, IdsFit
  <2>. QED
    BY <2>2, <2>3, <2>4 DEF IdsFit, Busy
<1>12. LedgerFits'
  <2>1. \A n : RecordsOf(n)' = RecordsOf(n)
    BY <1>2 DEF RecordsOf
  <2>2. RecordsOf(asked + 1) = {}
    BY <1>3 DEF GatewayInv, IdsFit, RecordsOf
  <2>3. ~Recorded(z)
    BY <1>5 DEF Recorded
  <2>. QED
    BY <1>2, <1>5, <1>10, <2>1, <2>2, <2>3 DEF GatewayInv, LedgerFits, RecordsOf, Recorded, Busy
<1>13. Typed' /\ CacheFits'
  BY <1>2, <1>3, <1>8, <1>9, CacheKept DEF GatewayInv, Typed
<1>. QED
  BY <1>8, <1>9, <1>11, <1>12, <1>13 DEF GatewayInv
\* A hit hands out an entry of the call's own scope; a miss changes nothing
\* the invariant speaks of.
LEMMA LookupStep ==
    ASSUME GatewayInv, NEW c \in Callers, Lookup(c)
    PROVE  GatewayInv'
<1> DEFINE x == call[c]
           p == x.ask.prompt
           s == ScopeOf(x)
           y == IF Hit(p, s)
                THEN [x EXCEPT !.answer = Nearest(p, s).response, !.cached = TRUE, !.pc = "record"]
                ELSE [x EXCEPT !.pc = "enter"]
<1>1. PICK z : z = y
  OBVIOUS
<1>2. /\ call' = [call EXCEPT ![c] = z] /\ Get(p, s) /\ x.pc = "lookup"
      /\ inFlight' = inFlight /\ ledger' = ledger /\ asked' = asked
  BY <1>1 DEF Lookup, CacheScope
<1>3. x \in CallSet /\ Admitted(x)
  BY OneCall
<1>4. /\ x.ask \in Asks /\ x.tenant \in Tenants /\ x.backend \in PoolBackends
      /\ x.backend.ceiling >= x.ask.class /\ p \in Prompts
      /\ s \in Scopes /\ s.class = x.ask.class
  BY <1>2, <1>3, AsksAssumption, ScopeOfAdmitted DEF Admitted
<1>5. Hit(p, s) => /\ Nearest(p, s) \in bucket[s] /\ Nearest(p, s) \in EntrySet
                   /\ Numbers[Nearest(p, s).prompt] = Numbers[p]
  BY <1>4, HitIsEntry DEF GatewayInv, Typed
<1>6. Hit(p, s) => LET a == Nearest(p, s).response
                   IN /\ a \in AnswerSet /\ a.scope = s /\ Allowed(a, s.class)
                      /\ Numbers[a.prompt] = Numbers[p]
  <2>1. Hit(p, s) => Nearest(p, s).response \in AnswerSet
    BY <1>5 DEF EntrySet
  <2>. QED
    BY <1>4, <1>5, <2>1 DEF GatewayInv, CacheFits
<1> HIDE DEF s, p
<1>7. /\ z \in CallSet /\ z.id = x.id /\ z.tenant = x.tenant /\ z.ask = x.ask
      /\ z.backend = x.backend /\ z.pc \in {"record", "enter"}
      /\ z.pc = "record" => Hit(p, s) /\ z.answer = Nearest(p, s).response /\ z.cached
  <2>1. CASE Hit(p, s)
    <3>1. Nearest(p, s).response \in AnswerSet
      BY <1>6, <2>1
    <3>. QED
      BY <1>1, <1>3, <2>1, <3>1 DEF CallSet, Steps
  <2>2. CASE ~Hit(p, s)
    BY <1>1, <1>3, <2>2 DEF CallSet, Steps
  <2>. QED
    BY <2>1, <2>2
<1>8. Admitted(z)
  BY <1>4, <1>7 DEF Admitted
<1>9. Fits(z)
  <2>1. ScopeOf(z) = s
    BY <1>7 DEF ScopeOf, s
  <2>. QED
    BY <1>4, <1>6, <1>7, <2>1 DEF Fits, p
<1>10. call' \in [Callers -> CallSet] /\ CallsFit'
  BY <1>2, <1>7, <1>8, <1>9, CallsKept DEF GatewayInv
<1>11. InFlightCounts' /\ inFlight' \in [BackendNames -> Nat]
  BY <1>2, <1>7, CountKept DEF GatewayInv
<1>12. IdsFit' /\ LedgerFits'
  <2>1. Busy(x) /\ Busy(z) /\ ~Recorded(x) /\ ~Recorded(z)
    BY <1>2, <1>7 DEF Busy, Recorded
  <2>. QED
    BY <1>2, <1>7, <2>1, LedgerKept DEF GatewayInv
<1>13. Typed' /\ CacheFits'
  <2>1. /\ bucket' \in [Scopes -> SUBSET EntrySet] /\ nextId' \in Nat /\ now' \in Nat
        /\ CacheFits'
    BY <1>2, <1>4, GetKeeps DEF GatewayInv
  <2>. QED
    BY <1>2, <1>10, <1>11, <2>1 DEF GatewayInv, Typed
<1>. QED
  BY <1>10, <1>11, <1>12, <1>13 DEF GatewayInv

\* A call enters its backend and is counted.
LEMMA EntersStep ==
    ASSUME GatewayInv, NEW c \in Callers, Enters(c)
    PROVE  GatewayInv'
<1>1. PICK z : z = [call[c] EXCEPT !.pc = "stream"]
  OBVIOUS
<1>2. call[c] \in CallSet /\ Admitted(call[c]) /\ call[c].pc = "enter"
  BY OneCall DEF Enters
<1>3. /\ z \in CallSet /\ z.pc = "stream" /\ z.id = call[c].id /\ z.ask = call[c].ask
      /\ z.tenant = call[c].tenant /\ z.backend = call[c].backend
  BY <1>1, <1>2 DEF CallSet, Steps
<1>4. /\ call' = [call EXCEPT ![c] = z]
      /\ inFlight' = [inFlight EXCEPT ![z.backend.name] = @ + 1]
      /\ ledger' = ledger /\ asked' = asked /\ UNCHANGED cacheVars
  BY <1>1, <1>3 DEF Enters, Goto
<1>5. Admitted(z) /\ Fits(z)
  BY <1>2, <1>3 DEF Admitted, Fits
<1>6. call' \in [Callers -> CallSet] /\ CallsFit'
  BY <1>3, <1>4, <1>5, CallsKept DEF GatewayInv
<1>7. z.backend.name \in BackendNames
  BY <1>3, <1>5, PoolFacts DEF Admitted
<1>8. InFlightCounts' /\ inFlight' \in [BackendNames -> Nat]
  BY <1>2, <1>3, <1>4, <1>7, CountEntered DEF GatewayInv
<1>9. IdsFit' /\ LedgerFits'
  <2>1. Busy(call[c]) /\ Busy(z) /\ ~Recorded(call[c]) /\ ~Recorded(z)
    BY <1>2, <1>3 DEF Busy, Recorded
  <2>. QED
    BY <1>3, <1>4, <2>1, LedgerKept DEF GatewayInv
<1>10. Typed' /\ CacheFits'
  BY <1>4, <1>6, <1>8, CacheKept DEF GatewayInv, Typed
<1>. QED
  BY <1>6, <1>8, <1>9, <1>10 DEF GatewayInv
\* A call leaves its backend with what it has read, whole or not.
LEMMA StreamEndsStep ==
    ASSUME GatewayInv, NEW c \in Callers, NEW whole \in BOOLEAN, StreamEnds(c, whole)
    PROVE  GatewayInv'
<1> DEFINE x == call[c]
           y == [x EXCEPT !.answer = AnswerTo(x, whole), !.pc = "record"]
<1>1. PICK z : z = y
  OBVIOUS
<1>2. x \in CallSet /\ Admitted(x) /\ x.pc = "stream"
  BY OneCall DEF StreamEnds
<1>3. /\ x.ask \in Asks /\ x.tenant \in Tenants /\ x.backend \in PoolBackends
      /\ x.backend.ceiling >= x.ask.class /\ x.ask.prompt \in Prompts
      /\ x.backend.name \in BackendNames
      /\ ScopeOf(x) \in Scopes /\ ScopeOf(x).class = x.ask.class
  BY <1>2, AsksAssumption, ScopeOfAdmitted, PoolFacts DEF Admitted
<1>4. AnswerTo(x, whole) \in AnswerSet
  BY <1>3 DEF AnswerTo, AnswerSet
<1>5. /\ z \in CallSet /\ z.pc = "record" /\ z.id = x.id /\ z.ask = x.ask
      /\ z.tenant = x.tenant /\ z.backend = x.backend /\ z.answer = AnswerTo(x, whole)
  BY <1>1, <1>2, <1>4 DEF CallSet, Steps
<1>6. /\ call' = [call EXCEPT ![c] = z] /\ Leave(x.backend.name)
      /\ ledger' = ledger /\ asked' = asked /\ UNCHANGED cacheVars
  BY <1>1 DEF StreamEnds
<1>7. Admitted(z)
  BY <1>3, <1>5 DEF Admitted
<1>8. Fits(z)
  <2>1. ScopeOf(z) = ScopeOf(x)
    BY <1>5 DEF ScopeOf
  <2>2. /\ z.answer.scope = ScopeOf(x) /\ z.answer.prompt = x.ask.prompt
        /\ z.answer.backend = x.backend.name
    BY <1>5 DEF AnswerTo
  <2>3. Allowed(z.answer, z.ask.class)
    BY <1>3, <1>5, <2>2 DEF Allowed
  <2>. QED
    BY <1>4, <1>5, <2>1, <2>2, <2>3 DEF Fits
<1>9. call' \in [Callers -> CallSet] /\ CallsFit'
  BY <1>5, <1>6, <1>7, <1>8, CallsKept DEF GatewayInv
<1>10. InFlightCounts' /\ inFlight' \in [BackendNames -> Nat]
  BY <1>2, <1>3, <1>5, <1>6, CountLeft DEF GatewayInv
<1>11. IdsFit' /\ LedgerFits'
  <2>1. Busy(x) /\ Busy(z) /\ ~Recorded(x) /\ ~Recorded(z)
    BY <1>2, <1>5 DEF Busy, Recorded
  <2>. QED
    BY <1>5, <1>6, <2>1, LedgerKept DEF GatewayInv
<1>12. Typed' /\ CacheFits'
  BY <1>6, <1>9, <1>10, CacheKept DEF GatewayInv, Typed
<1>. QED
  BY <1>9, <1>10, <1>11, <1>12 DEF GatewayInv

\* A call that fails leaves its backend all the same.
LEMMA StreamFailsStep ==
    ASSUME GatewayInv, NEW c \in Callers, StreamFails(c)
    PROVE  GatewayInv'
<1>1. PICK z : z = [call[c] EXCEPT !.pc = "failed"]
  OBVIOUS
<1>2. call[c] \in CallSet /\ Admitted(call[c]) /\ call[c].pc = "stream"
  BY OneCall DEF StreamFails
<1>3. z \in CallSet /\ z.pc = "failed" /\ z.id = call[c].id
  BY <1>1, <1>2 DEF CallSet, Steps
<1>4. /\ call' = [call EXCEPT ![c] = z] /\ Leave(call[c].backend.name)
      /\ ledger' = ledger /\ asked' = asked /\ UNCHANGED cacheVars
  BY <1>1 DEF StreamFails, Goto
<1>5. Admitted(z) /\ Fits(z)
  BY <1>3 DEF Admitted, Fits
<1>6. call' \in [Callers -> CallSet] /\ CallsFit'
  BY <1>3, <1>4, <1>5, CallsKept DEF GatewayInv
<1>7. call[c].backend.name \in BackendNames
  BY <1>2, PoolFacts DEF Admitted
<1>8. InFlightCounts' /\ inFlight' \in [BackendNames -> Nat]
  BY <1>2, <1>3, <1>4, <1>7, CountLeft DEF GatewayInv
<1>9. IdsFit' /\ LedgerFits'
  <2>1. Busy(call[c]) /\ Busy(z) /\ ~Recorded(call[c]) /\ ~Recorded(z)
    BY <1>2, <1>3 DEF Busy, Recorded
  <2>. QED
    BY <1>3, <1>4, <2>1, LedgerKept DEF GatewayInv
<1>10. Typed' /\ CacheFits'
  BY <1>4, <1>6, <1>8, CacheKept DEF GatewayInv, Typed
<1>. QED
  BY <1>6, <1>8, <1>9, <1>10 DEF GatewayInv

\* A call that has its answer is entered in the ledger, once.
LEMMA RecordStep ==
    ASSUME GatewayInv, NEW c \in Callers, Record(c)
    PROVE  GatewayInv'
<1> DEFINE x == call[c]
           y == [x EXCEPT !.pc = IF x.cached THEN "answered" ELSE "store"]
<1>1. PICK z : z = y
  OBVIOUS
<1>2. PICK r : r = CallRecord(x)
  OBVIOUS
<1>3. x \in CallSet /\ Admitted(x) /\ Fits(x) /\ x.pc = "record"
  BY OneCall DEF Record
<1>4. /\ z \in CallSet /\ z.id = x.id /\ z.ask = x.ask /\ z.tenant = x.tenant
      /\ z.backend = x.backend /\ z.answer = x.answer /\ z.cached = x.cached
      /\ z.pc \in {"answered", "store"} /\ (z.pc = "store" => ~z.cached)
  BY <1>1, <1>3 DEF CallSet, Steps
<1>5. /\ call' = [call EXCEPT ![c] = z] /\ ledger' = Append(ledger, r)
      /\ inFlight' = inFlight /\ asked' = asked /\ UNCHANGED cacheVars
  BY <1>1, <1>2 DEF Record, Goto
<1>6. Admitted(z)
  BY <1>3, <1>4 DEF Admitted
<1>7. Fits(z)
  <2>1. ScopeOf(z) = ScopeOf(x)
    BY <1>4 DEF ScopeOf
  <2>. QED
    BY <1>3, <1>4, <2>1 DEF Fits
<1>8. call' \in [Callers -> CallSet] /\ CallsFit'
  BY <1>4, <1>5, <1>6, <1>7, CallsKept DEF GatewayInv
<1>9. InFlightCounts' /\ inFlight' \in [BackendNames -> Nat]
  BY <1>3, <1>4, <1>5, CountKept DEF GatewayInv
<1>10. /\ x.id \in 1..asked /\ asked \in Nat
       /\ \A d \in Callers : Busy(call[d]) /\ d # c => call[d].id # x.id
  BY <1>3 DEF GatewayInv, Typed, IdsFit, Busy
<1>11. /\ r.id = x.id /\ r.tenant = x.tenant /\ r.cached = x.cached /\ r \in RecordSet
  BY <1>2, <1>3, <1>10, PoolFacts DEF CallRecord, RecordSet, Admitted, CallSet
<1>12. /\ ledger \in Seq(RecordSet) /\ ledger' \in Seq(RecordSet)
       /\ Len(ledger) \in Nat /\ DOMAIN ledger = 1..Len(ledger)
       /\ DOMAIN ledger' = 1..(Len(ledger) + 1)
       /\ ledger'[Len(ledger) + 1] = r
       /\ \A i \in DOMAIN ledger : ledger'[i] = ledger[i]
  BY <1>5, <1>11 DEF GatewayInv, Typed
<1>13. call'[c] = z /\ \A d \in Callers : d # c => call'[d] = call[d]
  BY <1>5, CallMoves DEF GatewayInv, Typed
<1>14. IdsFit'
  <2>1. \A i \in DOMAIN ledger' : ledger'[i].id \in 1..asked'
    <3> TAKE i \in DOMAIN ledger'
    <3>1. CASE i = Len(ledger) + 1
      BY <1>5, <1>10, <1>11, <1>12, <3>1
    <3>2. CASE i # Len(ledger) + 1
      <4>1. i \in DOMAIN ledger
        BY <1>12, <3>2
      <4>. QED
        BY <1>5, <1>12, <4>1 DEF GatewayInv, IdsFit
    <3>. QED
      BY <3>1, <3>2
  <2>2. \A d \in Callers : (Busy(call'[d]) <=> Busy(call[d])) /\ call'[d].id = call[d].id
    BY <1>3, <1>4, <1>13 DEF Busy
  <2>. QED
    BY <1>5, <2>1, <2>2 DEF GatewayInv, IdsFit, Busy
<1>15. LedgerFits'
  <2>1. RecordsOf(x.id) = {}
    BY <1>3 DEF GatewayInv, LedgerFits, Busy, Recorded
  <2>2. \A n : {i \in DOMAIN ledger' : ledger'[i].id = n} =
               RecordsOf(n) \cup (IF n = r.id THEN {Len(ledger) + 1} ELSE {})
    <3> TAKE n
    <3>1. \A i : i \in DOMAIN ledger' <=> i \in DOMAIN ledger \/ i = Len(ledger) + 1
      BY <1>12
    <3>. QED
      BY <1>12, <3>1 DEF RecordsOf
  <2> SUFFICES ASSUME NEW d \in Callers
               PROVE  LET n == call'[d].id
                          R == {i \in DOMAIN ledger' : ledger'[i].id = n}
                      IN /\ Recorded(call'[d]) => \E i \in DOMAIN ledger' :
                                /\ R = {i} /\ ledger'[i].tenant = call'[d].tenant
                                /\ ledger'[i].cached = call'[d].cached
                         /\ Busy(call'[d]) /\ ~Recorded(call'[d]) => R = {}
    BY DEF LedgerFits, RecordsOf, Recorded, Busy
  <2>3. CASE d = c
    <3>1. {i \in DOMAIN ledger' : ledger'[i].id = z.id} = {Len(ledger) + 1}
      BY <1>4, <1>11, <2>1, <2>2
    <3>2. Len(ledger) + 1 \in DOMAIN ledger'
      BY <1>12
    <3>3. Recorded(z)
      BY <1>4 DEF Recorded
    <3>. QED
      BY <1>4, <1>11, <1>12, <1>13, <2>3, <3>1, <3>2, <3>3
  <2>4. CASE d # c
    <3>1. call'[d] = call[d]
      BY <1>13, <2>4
    <3>2. Busy(call[d]) =>
             {i \in DOMAIN ledger' : ledger'[i].id = call[d].id} = RecordsOf(call[d].id)
      BY <1>10, <1>11, <2>2, <2>4
    <3>3. Recorded(call[d]) => Busy(call[d])
      BY DEF Recorded, Busy
    <3>4. /\ Recorded(call[d]) => \E i \in DOMAIN ledger :
                /\ RecordsOf(call[d].id) = {i} /\ ledger[i].tenant = call[d].tenant
                /\ ledger[i].cached = call[d].cached
          /\ Busy(call[d]) /\ ~Recorded(call[d]) => RecordsOf(call[d].id) = {}
      BY DEF GatewayInv, LedgerFits
    <3>. QED
      BY <1>12, <3>1, <3>2, <3>3, <3>4
  <2>. QED
    BY <2>3, <2>4
<1>16. Typed' /\ CacheFits'
  BY <1>5, <1>8, <1>9, <1>12, CacheKept DEF GatewayInv, Typed
<1>. QED
  BY <1>8, <1>9, <1>14, <1>15, <1>16 DEF GatewayInv
\* A fresh answer is stored in the scope it was made for.
LEMMA StoreStep ==
    ASSUME GatewayInv, NEW c \in Callers, Store(c)
    PROVE  GatewayInv'
<1> DEFINE x == call[c]
<1>1. PICK z : z = [x EXCEPT !.pc = "answered"]
  OBVIOUS
<1>2. x \in CallSet /\ Admitted(x) /\ Fits(x) /\ x.pc = "store"
  BY OneCall DEF Store
<1>3. /\ z \in CallSet /\ z.pc = "answered" /\ z.id = x.id /\ z.ask = x.ask
      /\ z.tenant = x.tenant /\ z.backend = x.backend /\ z.answer = x.answer
      /\ z.cached = x.cached
  BY <1>1, <1>2 DEF CallSet, Steps
<1>4. /\ call' = [call EXCEPT ![c] = z] /\ Put(x.ask.prompt, x.answer, ScopeOf(x))
      /\ inFlight' = inFlight /\ ledger' = ledger /\ asked' = asked
  BY <1>1 DEF Store, Goto, CacheScope
<1>5. Admitted(z)
  BY <1>2, <1>3 DEF Admitted
<1>6. Fits(z)
  <2>1. ScopeOf(z) = ScopeOf(x)
    BY <1>3 DEF ScopeOf
  <2>. QED
    BY <1>2, <1>3, <2>1 DEF Fits
<1>7. call' \in [Callers -> CallSet] /\ CallsFit'
  BY <1>3, <1>4, <1>5, <1>6, CallsKept DEF GatewayInv
<1>8. InFlightCounts' /\ inFlight' \in [BackendNames -> Nat]
  BY <1>2, <1>3, <1>4, CountKept DEF GatewayInv
<1>9. IdsFit' /\ LedgerFits'
  <2>1. Busy(x) /\ Busy(z) /\ Recorded(x) /\ Recorded(z)
    BY <1>2, <1>3 DEF Busy, Recorded
  <2>. QED
    BY <1>3, <1>4, <2>1, LedgerKept DEF GatewayInv
<1>10. /\ bucket' \in [Scopes -> SUBSET EntrySet] /\ nextId' \in Nat /\ now' \in Nat
       /\ CacheFits'
  <2>1. /\ x.ask \in Asks /\ x.tenant \in Tenants /\ x.backend \in PoolBackends
        /\ x.ask.prompt \in Prompts
    BY <1>2, AsksAssumption DEF Admitted
  <2>2. ScopeOf(x) \in Scopes /\ ScopeOf(x).class = x.ask.class
    BY <2>1, ScopeOfAdmitted
  <2>3. /\ x.answer \in AnswerSet /\ x.answer.scope = ScopeOf(x)
        /\ x.answer.prompt = x.ask.prompt /\ Allowed(x.answer, ScopeOf(x).class)
    BY <1>2, <2>2 DEF Fits
  <2>. QED
    BY <1>4, <2>1, <2>2, <2>3, PutKeeps DEF GatewayInv
<1>11. Typed' /\ CacheFits'
  BY <1>4, <1>7, <1>8, <1>10 DEF GatewayInv, Typed
<1>. QED
  BY <1>7, <1>8, <1>9, <1>11 DEF GatewayInv

\* A call that is over gives up its number.
LEMMA ReturnStep ==
    ASSUME GatewayInv, NEW c \in Callers, Return(c)
    PROVE  GatewayInv'
<1>1. PICK z : z = Idle
  OBVIOUS
<1>2. /\ call' = [call EXCEPT ![c] = z] /\ call[c].pc \in {"refused", "failed", "answered"}
      /\ inFlight' = inFlight /\ ledger' = ledger /\ asked' = asked /\ UNCHANGED cacheVars
  BY <1>1 DEF Return
<1>3. z \in CallSet /\ z.pc = "idle"
  BY <1>1, CallersAssumption DEF Idle, CallSet, Steps
<1>4. Admitted(z) /\ Fits(z)
  BY <1>3 DEF Admitted, Fits
<1>5. call' \in [Callers -> CallSet] /\ CallsFit'
  BY <1>2, <1>3, <1>4, CallsKept DEF GatewayInv
<1>6. InFlightCounts' /\ inFlight' \in [BackendNames -> Nat]
  BY <1>2, <1>3, CountKept DEF GatewayInv
<1>7. call'[c] = z /\ \A d \in Callers : d # c => call'[d] = call[d]
  BY <1>2, CallMoves DEF GatewayInv, Typed
<1>8. IdsFit'
  <2>1. ~Busy(z)
    BY <1>3 DEF Busy
  <2>. QED
    BY <1>2, <1>7, <2>1 DEF GatewayInv, IdsFit, Busy
<1>9. LedgerFits'
  <2>1. ~Busy(z) /\ ~Recorded(z)
    BY <1>3 DEF Busy, Recorded
  <2>. QED
    BY <1>2, <1>7, <2>1 DEF GatewayInv, LedgerFits, Busy, Recorded, RecordsOf
<1>10. Typed' /\ CacheFits'
  BY <1>2, <1>5, <1>6, CacheKept DEF GatewayInv, Typed
<1>. QED
  BY <1>5, <1>6, <1>8, <1>9, <1>10 DEF GatewayInv
-----------------------------------------------------------------------------
\* Nothing is under way in a new gateway.
LEMMA InitGatewayInv == Init => GatewayInv
<1> SUFFICES ASSUME Init PROVE GatewayInv
  OBVIOUS
<1>1. /\ call = [c \in Callers |-> Idle] /\ inFlight = [b \in BackendNames |-> 0]
      /\ ledger = <<>> /\ asked = 0 /\ bucket = [s \in Scopes |-> {}]
      /\ nextId = 0 /\ now = 0
  BY DEF Init, CacheInit
<1>2. Idle \in CallSet /\ Idle.pc = "idle"
  BY CallersAssumption DEF Idle, CallSet, Steps
<1>3. Typed
  BY <1>1, <1>2, CallersAssumption DEF Typed
<1>4. \A c \in Callers : call[c].pc = "idle"
  BY <1>1, <1>2
<1>5. CallsFit /\ CacheFits
  BY <1>1, <1>4 DEF CallsFit, Admitted, Fits, CacheFits
<1>6. IdsFit /\ LedgerFits
  BY <1>1, <1>4 DEF IdsFit, LedgerFits, Busy, Recorded
<1>7. InFlightCounts
  <2>1. \A b : With(b) = {}
    BY <1>4 DEF With
  <2>. QED
    BY <1>1, <2>1, FS_EmptySet DEF InFlightCounts, With
<1>. QED
  BY <1>3, <1>5, <1>6, <1>7 DEF GatewayInv

\* Every step of every caller keeps the invariant.
LEMMA NextGatewayInv == GatewayInv /\ [Next]_vars => GatewayInv'
<1> SUFFICES ASSUME GatewayInv, [Next]_vars PROVE GatewayInv'
  OBVIOUS
<1>1. CASE UNCHANGED vars
  BY <1>1 DEF vars, GatewayInv, Typed, CallsFit, Admitted, Fits, Allowed, ScopeOf, CacheFits,
              IdsFit, LedgerFits, Busy, Recorded, RecordsOf, InFlightCounts
<1>2. CASE Next
  <2>1. PICK c \in Callers :
           \/ Step(c)
           \/ \E ask \in Asks, tenant \in Tenants \cup {NoTenant} : Handle(c, ask, tenant)
    BY <1>2 DEF Next
  <2>2. CASE \E ask \in Asks, tenant \in Tenants \cup {NoTenant} : Handle(c, ask, tenant)
    BY <2>2, HandleStep
  <2>3. CASE Lookup(c)
    BY <2>3, LookupStep
  <2>4. CASE Enters(c)
    BY <2>4, EntersStep
  <2>5. CASE \E whole \in BOOLEAN : StreamEnds(c, whole)
    BY <2>5, StreamEndsStep
  <2>6. CASE StreamFails(c)
    BY <2>6, StreamFailsStep
  <2>7. CASE Record(c)
    BY <2>7, RecordStep
  <2>8. CASE Store(c)
    BY <2>8, StoreStep
  <2>9. CASE Return(c)
    BY <2>9, ReturnStep
  <2>. QED
    BY <2>1, <2>2, <2>3, <2>4, <2>5, <2>6, <2>7, <2>8, <2>9 DEF Step
<1>. QED
  BY <1>1, <1>2

\* The inductive invariant holds in every reachable state.
LEMMA GatewayInvariant == Spec => []GatewayInv
BY InitGatewayInv, NextGatewayInv, PTL DEF Spec

\* Calls, counts and records are well typed: no backend has more calls in
\* flight than there are callers, and no record lacks its tenant.
THEOREM GatewayTypeCorrect == Spec => []TypeOK
<1>1. GatewayInv => TypeOK
  <2> SUFFICES ASSUME GatewayInv PROVE TypeOK
    OBVIOUS
  <2>1. ASSUME NEW c \in Callers
        PROVE  /\ call[c].pc \in Steps /\ call[c].id \in 0..MaxCalls
               /\ call[c].backend \in PoolBackends \cup {Refused}
               /\ call[c].pc \in {"record", "store", "answered"} => call[c].answer # NoAnswer
    <3>1. call[c] \in CallSet /\ Fits(call[c])
      BY OneCall
    <3>2. NoAnswer \notin AnswerSet
      BY DEF NoAnswer, AnswerSet
    <3>. QED
      BY <3>1, <3>2 DEF CallSet, Fits
  <2>2. inFlight \in [BackendNames -> 0..Cardinality(Callers)]
    <3>1. \A b \in BackendNames : inFlight[b] = Cardinality(With(b))
      BY DEF GatewayInv, InFlightCounts, With
    <3>2. \A b \in BackendNames : inFlight[b] \in 0..Cardinality(Callers)
      BY <3>1, WithFinite
    <3>. QED
      BY <3>2 DEF GatewayInv, Typed
  <2>3. \A i \in DOMAIN ledger : ledger[i].tenant \in Tenants
    <3>1. \A i \in DOMAIN ledger : ledger[i] \in RecordSet
      BY DEF GatewayInv, Typed
    <3>. QED
      BY <3>1 DEF RecordSet
  <2>4. asked \in 0..MaxCalls
    BY DEF GatewayInv, Typed
  <2>. QED
    BY <2>1, <2>2, <2>3, <2>4 DEF TypeOK
<1>. QED
  BY <1>1, GatewayInvariant, PTL

\* ADR-0010 and ADR-0006, with the cache shared by all callers: an answer
\* that is handed out stays in its tenant, class, model and settings.
THEOREM AnswersKeepTheirScope == Spec => []AnswersStayInTheirScope
<1>1. GatewayInv => AnswersStayInTheirScope
  <2> SUFFICES ASSUME GatewayInv, NEW c \in Callers, Answered(c)
               PROVE  LET a == call[c].answer
                      IN /\ a.scope.tenant = call[c].tenant
                         /\ a.scope.class = call[c].ask.class
                         /\ a.scope.settings = call[c].ask.settings
                         /\ a.scope.model = call[c].backend.model
                         /\ BackendNamed(a.backend).ceiling >= call[c].ask.class
                         /\ Numbers[a.prompt] = Numbers[call[c].ask.prompt]
    BY DEF AnswersStayInTheirScope
  <2>1. Admitted(call[c]) /\ Fits(call[c]) /\ call[c].pc = "answered"
    BY OneCall DEF Answered
  <2>2. /\ ScopeOf(call[c]).tenant = call[c].tenant
        /\ ScopeOf(call[c]).class = call[c].ask.class
        /\ ScopeOf(call[c]).settings = call[c].ask.settings
        /\ ScopeOf(call[c]).model = call[c].backend.model
    BY DEF ScopeOf
  <2>3. PICK b \in PoolBackends :
           b.name = call[c].answer.backend /\ b.ceiling >= call[c].ask.class
    BY <2>1 DEF Fits, Allowed
  <2>4. BackendNamed(call[c].answer.backend) = b
    BY <2>3, PoolFacts DEF BackendNamed
  <2>. QED
    BY <2>1, <2>2, <2>3, <2>4 DEF Fits
<1>. QED
  BY <1>1, GatewayInvariant, PTL

\* The in-flight counts are exact at every step of every call, whichever way
\* calls end: the two counts a call's cost is divided by were true when read.
THEOREM CountsAreExact == Spec => []InFlightCounts
<1>1. GatewayInv => InFlightCounts
  BY DEF GatewayInv
<1>. QED
  BY <1>1, GatewayInvariant, PTL

\* Every answer has exactly one record, its tenant's; no other call has one.
THEOREM LedgerIsExact == Spec => []LedgerMatchesAnswers
<1>1. GatewayInv => LedgerMatchesAnswers
  <2> SUFFICES ASSUME GatewayInv PROVE LedgerMatchesAnswers
    OBVIOUS
  <2>1. ASSUME NEW c \in Callers, call[c].pc \in {"answered", "store"}
        PROVE  /\ Cardinality(RecordsOf(call[c].id)) = 1
               /\ \A i \in RecordsOf(call[c].id) :
                     /\ ledger[i].tenant = call[c].tenant
                     /\ ledger[i].cached = call[c].cached
    <3>1. PICK i \in DOMAIN ledger :
             /\ RecordsOf(call[c].id) = {i} /\ ledger[i].tenant = call[c].tenant
             /\ ledger[i].cached = call[c].cached
      BY <2>1 DEF GatewayInv, LedgerFits, Recorded
    <3>. QED
      BY <3>1, FS_Singleton
  <2>2. ASSUME NEW c \in Callers,
               call[c].pc \in {"refused", "lookup", "enter", "stream", "record", "failed"}
        PROVE  RecordsOf(call[c].id) = {}
    BY <2>2 DEF GatewayInv, LedgerFits, Recorded, Busy
  <2>. QED
    BY <2>1, <2>2 DEF LedgerMatchesAnswers
<1>. QED
  BY <1>1, GatewayInvariant, PTL
=============================================================================
