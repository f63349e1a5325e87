--------------------------- MODULE SemanticCache ---------------------------
(***************************************************************************)
(* The gateway's answer cache (gateway/app/cache.py).  Each scope has a    *)
(* bucket of entries by id, and ids grow, so a scan in the order of        *)
(* insertion is one in the order of ids; one list across all scopes keeps  *)
(* the keys <<scope, id>> from least to most recently used.  get and put   *)
(* are one step each: what a caller sees that has the cache to itself for  *)
(* the length of a call.                                                   *)
(*                                                                         *)
(* A prompt is a model value; Similarity is the cosine of two prompts'     *)
(* vectors in hundredths and Numbers what _NUM finds in a prompt.  A       *)
(* prompt with none of the embedder's words has the empty vector, which is *)
(* near nothing, itself included.                                          *)
(***************************************************************************)
EXTENDS OrderedDict, FiniteSets

CONSTANTS Prompts, Scopes,
          Similarity,  \* [Prompts -> [Prompts -> 0..100]]
          Numbers,     \* [Prompts -> set of numerals]
          Threshold, MaxEntries,
          TTL          \* 0 keeps an entry until it is evicted

ASSUME SimilarityAssumption ==
    /\ Similarity \in [Prompts -> [Prompts -> 0..100]]
    /\ \A p, q \in Prompts : Similarity[p][q] = Similarity[q][p]
    /\ \A p \in Prompts : \/ Similarity[p][p] = 100
                          \/ \A q \in Prompts : Similarity[p][q] = 0
ASSUME NumbersAssumption == DOMAIN Numbers = Prompts
ASSUME CacheSizeAssumption == Threshold \in 1..100 /\ MaxEntries \in Nat \ {0} /\ TTL \in Nat

VARIABLES
    bucket,   \* _scopes: a set of entries; {} where the scope has no bucket
    order,    \* _order: <<scope, id>>, least recently used first
    nextId,   \* _next_id
    stats,    \* hits, misses, false_hits_blocked, expired, evicted
    now       \* the cache's clock

cacheVars == <<bucket, order, nextId, stats, now>>

NoStats == [hits |-> 0, misses |-> 0, blocked |-> 0, expired |-> 0, evicted |-> 0]

CacheInit ==
    /\ bucket = [s \in Scopes |-> {}]
    /\ order = <<>>
    /\ nextId = 0
    /\ stats = NoStats
    /\ now = 0

\* The comparison one second off: an entry is served at TTL + 1.
ExpiredLate(e) == TTL > 0 /\ now - e.at > TTL + 1

Expired(e) == TTL > 0 /\ now - e.at > TTL
Live(s) == {e \in bucket[s] : ~Expired(e)}

\* The entries get() considers: not expired, and nearer than 0.0.
Near(p, s) == {e \in Live(s) : Similarity[p][e.prompt] > 0}

\* A scan that stops at the first entry above the threshold.
FirstNearEnough(p, s) ==
    CHOOSE e \in Near(p, s) : \A f \in Near(p, s) :
        \/ Similarity[p][f.prompt] < Threshold
        \/ Similarity[p][e.prompt] >= Threshold /\ e.id <= f.id

\* Of two entries equally near, the scan keeps the one stored first.
Nearest(p, s) ==
    CHOOSE e \in Near(p, s) : \A f \in Near(p, s) :
        \/ Similarity[p][f.prompt] < Similarity[p][e.prompt]
        \/ Similarity[p][f.prompt] = Similarity[p][e.prompt] /\ e.id <= f.id

\* An entry is near enough to serve.
Found(p, s) == Near(p, s) # {} /\ Similarity[p][Nearest(p, s).prompt] >= Threshold

\* The numeral check left out.
AnyNumbers(p, e) == TRUE

\* "account 118" and "account 811": near enough, and not the same question.
SameNumbers(p, e) == Numbers[e.prompt] = Numbers[p]

\* get returns an answer; Nearest(p, s).response is it.
Hit(p, s) == Found(p, s) /\ SameNumbers(p, Nearest(p, s))

\* A lookup in a bucket whose live entries leave kept of the order.
Search(p, s, kept) ==
    /\ bucket' = [bucket EXCEPT ![s] = Live(s)]
    /\ order' = IF Hit(p, s) THEN MovedToEnd(kept, <<s, Nearest(p, s).id>>) ELSE kept
    /\ stats' = [stats EXCEPT !.expired = @ + Cardinality(bucket[s] \ Live(s)),
                              !.hits = IF Hit(p, s) THEN @ + 1 ELSE @,
                              !.misses = IF Hit(p, s) THEN @ ELSE @ + 1,
                              !.blocked = IF Found(p, s) /\ ~Hit(p, s) THEN @ + 1 ELSE @]
    /\ UNCHANGED <<nextId, now>>

\* An expired entry leaves its bucket and stays in the order.
GetLeavingOrder(p, s) == Search(p, s, order)

\* The expired entries of the searched scope are dropped whatever the
\* outcome; a hit makes its entry the most recently used.
Get(p, s) ==
    LET gone == {<<s, e.id>> : e \in bucket[s] \ Live(s)}
    IN Search(p, s, Without(order, gone))

\* An entry enters its bucket under id and the order under key; the least
\* recently used leave until the bound holds again.
Enter(p, response, s, id, key) ==
    LET entry == [id |-> id, prompt |-> p, response |-> response, at |-> now]
        filled == [bucket EXCEPT ![s] = @ \cup {entry}]
        longer == Append(order, key)
        over == IF Len(longer) > MaxEntries THEN Len(longer) - MaxEntries ELSE 0
        out == Range(SubSeq(longer, 1, over))
    IN /\ nextId' = nextId + 1
       /\ order' = SubSeq(longer, over + 1, Len(longer))
       /\ bucket' = [t \in Scopes |-> {e \in filled[t] : <<t, e.id>> \notin out}]
       /\ stats' = [stats EXCEPT !.evicted = @ + over]
       /\ UNCHANGED now

\* An id that is the number of entries held, and so comes back.
PutReusingId(p, response, s) == Enter(p, response, s, Len(order), <<s, Len(order)>>)

\* The key's parts the wrong way round.
PutSwapped(p, response, s) == Enter(p, response, s, nextId, <<nextId, s>>)

Put(p, response, s) == Enter(p, response, s, nextId, <<s, nextId>>)

\* The embedder is called after the id is taken.  One that raises costs a
\* put its id, and a get nothing.
PutFails == nextId' = nextId + 1 /\ UNCHANGED <<bucket, order, stats, now>>

Tick == now' = now + 1 /\ UNCHANGED <<bucket, order, nextId, stats>>
=============================================================================
