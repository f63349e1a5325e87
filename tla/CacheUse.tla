------------------------------ MODULE CacheUse ------------------------------
(***************************************************************************)
(* The semantic cache under every order of lookups, stores, failing        *)
(* embedders and the passing of time, with two history variables: what the *)
(* last lookup returned and when each entry was last of use.               *)
(***************************************************************************)
EXTENDS SemanticCache

CONSTANTS MaxPuts, MaxGets, MaxTime   \* bounds of the runs

ASSUME BoundsAssumption == MaxPuts \in Nat /\ MaxGets \in Nat /\ MaxTime \in Nat

VARIABLES
    lookup,   \* the last lookup: [prompt, scope, answer], answer None if it missed
    uses      \* the keys <<scope, id>> stored or served, in that order

vars == <<bucket, order, nextId, stats, now, lookup, uses>>

None == [prompt |-> "none"]
NoLookup == [prompt |-> "none", scope |-> "none", answer |-> None]

\* The response a caller stores says what it is an answer to.
Response(p, s) == [prompt |-> p, scope |-> s, at |-> now]

Entries == UNION {{<<s, e>> : e \in bucket[s]} : s \in Scopes}

Init == CacheInit /\ lookup = NoLookup /\ uses = <<>>

Lookup(p, s) ==
    /\ stats.hits + stats.misses < MaxGets
    /\ Get(p, s)
    /\ lookup' = [prompt |-> p, scope |-> s,
                  answer |-> IF Hit(p, s) THEN Nearest(p, s).response ELSE None]
    /\ uses' = IF Hit(p, s) THEN Append(uses, <<s, Nearest(p, s).id>>) ELSE uses

Store(p, s) ==
    /\ nextId < MaxPuts
    /\ Put(p, Response(p, s), s)
    /\ lookup' = NoLookup
    /\ uses' = Append(uses, <<s, nextId>>)

EmbedderRaises ==
    /\ nextId < MaxPuts
    /\ PutFails
    /\ lookup' = NoLookup
    /\ UNCHANGED uses

TimePasses ==
    /\ TTL > 0 /\ now < MaxTime
    /\ Tick
    /\ lookup' = NoLookup
    /\ UNCHANGED uses

Next ==
    \/ \E p \in Prompts, s \in Scopes : Lookup(p, s) \/ Store(p, s)
    \/ EmbedderRaises
    \/ TimePasses

Spec == Init /\ [][Next]_vars
-----------------------------------------------------------------------------
TypeOK ==
    /\ DOMAIN bucket = Scopes
    /\ \A k \in Entries :
          /\ k[2].id \in 0..(MaxPuts - 1) /\ k[2].prompt \in Prompts
          /\ k[2].at \in 0..MaxTime /\ k[2].response.prompt \in Prompts
    /\ order \in Seq(Scopes \X (0..(MaxPuts - 1)))
    /\ nextId \in 0..MaxPuts
    /\ stats \in [{"hits", "misses", "blocked", "expired", "evicted"} -> 0..(MaxPuts + MaxGets)]
    /\ now \in 0..MaxTime

\* The two indexes list the same entries, each once: a key that only the
\* order had would count against the bound for ever, and an entry that only
\* a bucket had would be served for ever.
IndexesAgree ==
    /\ IsInjective(order)
    /\ Range(order) = {<<k[1], k[2].id>> : k \in Entries}
    /\ \A k, l \in Entries : k[2].id = l[2].id => k = l

\* max_entries bounds all scopes together, and every entry that was ever
\* stored is held, expired or evicted: none is counted twice.
EntriesAccountedFor ==
    /\ Len(order) <= MaxEntries
    /\ Len(order) + stats.expired + stats.evicted <= nextId
    /\ stats.blocked <= stats.misses

\* ADR-0006: "A lookup searches only entries in its own scope", an entry is
\* not served past its time to live, and a "hit whose prompt carries
\* different numbers is refused", whatever was stored, evicted and expired
\* before.
ServedAnswersFit ==
    lookup.answer # None =>
        LET a == lookup.answer
        IN /\ a.scope = lookup.scope
           /\ Numbers[a.prompt] = Numbers[lookup.prompt]
           /\ Similarity[lookup.prompt][a.prompt] >= Threshold
           /\ TTL > 0 => now - a.at <= TTL

\* l has been of use after k last was.
UsedSince(k, l) ==
    \E j \in DOMAIN uses : uses[j] = l /\ \A i \in DOMAIN uses : uses[i] = k => i < j

\* "The least recently used entry goes first": an entry that leaves before
\* its time has been of use to nobody for longer than every entry that
\* stays.
LeastRecentlyUsedGoesFirst ==
    [][\A k \in Range(order) \ Range(order') :
          \/ \E e \in bucket[k[1]] : e.id = k[2] /\ Expired(e)
          \/ \A l \in Range(order') : UsedSince(k, l) \/ l[2] = nextId]_vars

\* A repeat of a prompt whose own answer is held is served from the cache
\* (test_a_repeat_from_the_same_tenant_is_served_from_cache_at_no_cost,
\* gateway/tests/test_gateway.py:54), with two exceptions the code has: a
\* prompt whose vector is empty, and one behind an earlier entry that reads
\* exactly as near and has other numerals.
RepeatsMissOnlyATwin ==
    \A s \in Scopes : \A e \in Live(s) :
        \/ Hit(e.prompt, s)
        \/ Similarity[e.prompt][e.prompt] = 0
        \/ \E f \in Live(s) :
              /\ f.id < e.id
              /\ Similarity[e.prompt][f.prompt] = Similarity[e.prompt][e.prompt]
              /\ Numbers[f.prompt] # Numbers[e.prompt]
=============================================================================
