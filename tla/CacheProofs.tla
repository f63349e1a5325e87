---------------------------- MODULE CacheProofs -----------------------------
(***************************************************************************)
(* Proofs for CacheUse: the safety properties the cache run checks, for    *)
(* every set of prompts and scopes, every similarity the embedder can      *)
(* give, and every bound, threshold and time to live.                      *)
(***************************************************************************)
EXTENDS CacheUse, GatewayLemmas

Keys == Scopes \X Nat
Answer == [prompt : Prompts, scope : Scopes, at : Nat]
Entry == [id : Nat, prompt : Prompts, response : Answer, at : Nat]
Counters == [hits : Nat, misses : Nat, blocked : Nat, expired : Nat, evicted : Nat]

\* Every entry has the id of a put that was made, is no younger than the
\* clock, and is the answer to the prompt and the scope it is kept under.
Stored ==
    /\ bucket \in [Scopes -> SUBSET Entry]
    /\ nextId \in 0..MaxPuts /\ now \in 0..MaxTime
    /\ \A s \in Scopes : \A e \in bucket[s] :
          /\ e.id < nextId /\ e.at <= now
          /\ e.response = [prompt |-> e.prompt, scope |-> s, at |-> e.at]

\* The order has the key of each entry once, and no other key.
Indexed ==
    /\ order \in Seq(Keys) /\ IsInjective(order)
    /\ \A k \in Range(order) : \E e \in bucket[k[1]] : e.id = k[2]
    /\ \A s \in Scopes : \A e \in bucket[s] : <<s, e.id>> \in Range(order)
    /\ \A s, t \in Scopes : \A e \in bucket[s], f \in bucket[t] : e.id = f.id => s = t /\ e = f

\* Of every id at most one thing was made: a key, an expiry, an eviction.
Counted ==
    /\ stats \in Counters
    /\ stats.hits + stats.misses <= MaxGets /\ stats.blocked <= stats.misses
    /\ Len(order) <= MaxEntries
    /\ Len(order) + stats.expired + stats.evicted <= nextId

\* In u, l comes after the last of k.
After(u, k, l) ==
    \E j \in DOMAIN u : u[j] = l /\ \A i \in DOMAIN u : u[i] = k => i < j

\* The keys are in the order in which u has the last of each.
ByLastUse(u, keys) == \A i, j \in DOMAIN keys : i < j => After(u, keys[i], keys[j])

\* The order is that of the last use, and no id comes back.
Used ==
    /\ uses \in Seq(Keys)
    /\ \A i \in DOMAIN uses : uses[i][2] < nextId
    /\ Range(order) \subseteq Range(uses)
    /\ ByLastUse(uses, order)

CacheInv == Stored /\ Indexed /\ Counted /\ Used
-----------------------------------------------------------------------------
(* Orders of use *)

\* A use of another key leaves k before l, and puts k before that key.
LEMMA AppendedUse ==
    ASSUME NEW S, NEW u \in Seq(S), NEW k, NEW x \in S, k # x
    PROVE  /\ \A l : After(u, k, l) => After(Append(u, x), k, l)
           /\ After(Append(u, x), k, x)
<1>1. PICK m \in Nat : m = Len(u)
  OBVIOUS
<1>2. PICK v : v = Append(u, x)
  OBVIOUS
<1>3. /\ DOMAIN u = 1..m /\ DOMAIN v = 1..(m + 1)
      /\ v[m + 1] = x /\ \A i \in 1..m : v[i] = u[i]
  BY <1>1, <1>2, AppendProperties
<1>4. \A i \in DOMAIN v : v[i] = k => i \in DOMAIN u /\ u[i] = k /\ i < m + 1
  BY ONLY <1>3, k # x, m \in Nat
<1>5. ASSUME NEW l, After(u, k, l) PROVE After(v, k, l)
  <2>1. PICK j \in DOMAIN u : u[j] = l /\ \A i \in DOMAIN u : u[i] = k => i < j
    BY <1>5 DEF After
  <2>2. j \in DOMAIN v /\ v[j] = l
    BY ONLY <1>3, <2>1, m \in Nat
  <2>. QED
    BY ONLY <1>4, <2>1, <2>2 DEF After
<1>6. After(v, k, x)
  <2>1. m + 1 \in DOMAIN v
    BY ONLY <1>3, m \in Nat
  <2>. QED
    BY ONLY <1>3, <1>4, <2>1 DEF After
<1>. QED
  BY <1>2, <1>5, <1>6

\* A key that is used and goes to the end is where its use puts it.
LEMMA AppendedLast ==
    ASSUME NEW S, NEW u \in Seq(S), NEW keys \in Seq(S), NEW k \in S,
           ByLastUse(u, keys), k \notin Range(keys)
    PROVE  ByLastUse(Append(u, k), Append(keys, k))
<1>1. PICK m \in Nat : m = Len(keys)
  OBVIOUS
<1>2. PICK longer : longer = Append(keys, k)
  OBVIOUS
<1>3. /\ DOMAIN keys = 1..m /\ DOMAIN longer = 1..(m + 1)
      /\ longer[m + 1] = k /\ \A i \in 1..m : longer[i] = keys[i] /\ keys[i] # k
  BY <1>1, <1>2, AppendProperties DEF Range
<1>4. ASSUME NEW i \in DOMAIN longer, NEW j \in DOMAIN longer, i < j
      PROVE  After(Append(u, k), longer[i], longer[j])
  <2>1. i \in 1..m /\ (j \in 1..m \/ j = m + 1)
    BY ONLY <1>3, <1>4, m \in Nat
  <2>2. longer[i] = keys[i] /\ keys[i] # k
    BY <1>3, <2>1
  <2>3. CASE j = m + 1
    BY <1>3, <2>2, <2>3, AppendedUse
  <2>4. CASE j \in 1..m
    <3>1. After(u, keys[i], keys[j])
      BY <1>3, <1>4, <2>1, <2>4 DEF ByLastUse
    <3>2. longer[j] = keys[j]
      BY <1>3, <2>4
    <3>. QED
      BY <2>2, <3>1, <3>2, AppendedUse
  <2>. QED
    BY <2>1, <2>3, <2>4
<1>. QED
  BY <1>2, <1>4 DEF ByLastUse

\* Popping keys leaves the others in the order of their last use.
LEMMA WithoutByLastUse ==
    ASSUME NEW S, NEW u, NEW keys \in Seq(S), NEW gone, ByLastUse(u, keys)
    PROVE  ByLastUse(u, Without(keys, gone))
<1>0. PICK left \in Seq(S) : left = Without(keys, gone)
  BY WithoutRemains
<1>1. PICK place : Remains(left, keys, Len(keys), gone, place)
  BY <1>0, WithoutRemains
<1>2. /\ place \in [1..Len(left) -> 1..Len(keys)]
      /\ \A i \in 1..Len(left) : left[i] = keys[place[i]]
      /\ \A i, j \in 1..Len(left) : i < j => place[i] < place[j]
  BY <1>1 DEF Remains
<1>3. DOMAIN keys = 1..Len(keys) /\ DOMAIN left = 1..Len(left)
  OBVIOUS
<1>4. ASSUME NEW i \in DOMAIN left, NEW j \in DOMAIN left, i < j
      PROVE  After(u, left[i], left[j])
  <2>1. place[i] \in DOMAIN keys /\ place[j] \in DOMAIN keys /\ place[i] < place[j]
    BY <1>2, <1>3, <1>4
  <2>2. After(u, keys[place[i]], keys[place[j]])
    BY ONLY <2>1, ByLastUse(u, keys) DEF ByLastUse
  <2>. QED
    BY ONLY <1>2, <1>3, <2>2
<1>. QED
  BY <1>0, <1>4 DEF ByLastUse
-----------------------------------------------------------------------------
(* What a lookup finds and drops *)

\* The clock and the ids are numbers.
LEMMA StoredBounds ==
    ASSUME Stored
    PROVE  /\ nextId \in Nat /\ now \in Nat
           /\ \A s \in Scopes : \A e \in bucket[s] : e \in Entry /\ e.id < nextId /\ e.at <= now
<1>1. nextId \in 0..MaxPuts /\ now \in 0..MaxTime
  BY DEF Stored
<1>2. nextId \in Nat /\ now \in Nat
  BY ONLY <1>1, BoundsAssumption
<1>3. \A s \in Scopes : \A e \in bucket[s] : e \in Entry /\ e.id < nextId /\ e.at <= now
  BY DEF Stored
<1>. QED
  BY <1>2, <1>3

\* The scan keeps an entry to which none of the others is nearer, and of
\* those the one stored first.
LEMMA NearestIsBest ==
    ASSUME Stored, NEW p \in Prompts, NEW s \in Scopes, Near(p, s) # {}
    PROVE  /\ Nearest(p, s) \in Near(p, s)
           /\ \A f \in Near(p, s) :
                 \/ Similarity[p][f.prompt] < Similarity[p][Nearest(p, s).prompt]
                 \/ /\ Similarity[p][f.prompt] = Similarity[p][Nearest(p, s).prompt]
                    /\ Nearest(p, s).id <= f.id
<1> DEFINE score == [e \in Near(p, s) |-> Similarity[p][e.prompt]]
           rank == [e \in Near(p, s) |-> e.id]
<1>1. \A e \in Near(p, s) : e \in Entry
  BY DEF Stored, Near, Live
<1>2. score \in [Near(p, s) -> 0..100] /\ rank \in [Near(p, s) -> Nat]
  BY <1>1, SimilarityAssumption DEF Entry
<1>3. \E e \in Near(p, s) : \A f \in Near(p, s) :
         \/ score[f] < score[e]
         \/ score[f] = score[e] /\ rank[e] <= rank[f]
  <2> HIDE DEF score, rank
  <2>. QED
    BY <1>2, BestExists
<1>4. \E e \in Near(p, s) : \A f \in Near(p, s) :
         \/ Similarity[p][f.prompt] < Similarity[p][e.prompt]
         \/ Similarity[p][f.prompt] = Similarity[p][e.prompt] /\ e.id <= f.id
  BY <1>3
<1>. QED
  BY <1>4 DEF Nearest

\* An answer is served from a live entry of the scope that is near enough
\* and has the prompt's numerals.
LEMMA HitIsLive ==
    ASSUME Stored, NEW p \in Prompts, NEW s \in Scopes, Hit(p, s)
    PROVE  LET e == Nearest(p, s)
           IN  /\ e \in Live(s) /\ e.prompt \in Prompts
               /\ Similarity[p][e.prompt] >= Threshold
               /\ Numbers[e.prompt] = Numbers[p]
BY NearestIsBest DEF Hit, Found, SameNumbers, Near, Live, Stored, Entry

\* The keys of the entries a lookup drops.
Gone(s) == {<<s, e.id>> : e \in bucket[s] \ Live(s)}

\* They are popped from the order, one for each entry dropped.
LEMMA GoneLeaves ==
    ASSUME Stored, Indexed, NEW s \in Scopes
    PROVE  /\ Without(order, Gone(s)) \in Seq(Keys)
           /\ IsInjective(Without(order, Gone(s)))
           /\ Range(Without(order, Gone(s))) = Range(order) \ Gone(s)
           /\ Cardinality(bucket[s] \ Live(s)) \in Nat
           /\ Len(Without(order, Gone(s))) + Cardinality(bucket[s] \ Live(s)) = Len(order)
<1>1. PICK kept : kept = Without(order, Gone(s))
  OBVIOUS
<1>2. kept \in Seq(Keys) /\ IsInjective(kept) /\ Range(kept) = Range(order) \ Gone(s)
  BY <1>1, WithoutKeys DEF Indexed
<1>3. PICK removed : removed = bucket[s] \ Live(s)
  OBVIOUS
<1>4. Gone(s) = {<<s, e.id>> : e \in removed}
  BY <1>3 DEF Gone
<1>5. Gone(s) \subseteq Range(order)
  BY <1>3, <1>4 DEF Indexed
<1>6. IsFiniteSet(Range(order)) /\ Cardinality(Range(order)) = Len(order)
  BY LengthIsSize DEF Indexed
<1>7. Cardinality(Range(kept)) = Len(kept)
  BY <1>2, LengthIsSize
<1>8. IsFiniteSet(Gone(s))
  BY <1>5, <1>6, FS_Subset
<1>9. Range(order) \cap Gone(s) = Gone(s)
  BY <1>5
<1>10. Cardinality(Range(kept)) = Cardinality(Range(order)) - Cardinality(Gone(s))
  BY <1>2, <1>6, <1>9, FS_Difference
<1>11. Cardinality(removed) = Cardinality(Gone(s))
  <2> DEFINE key == [e \in removed |-> <<s, e.id>>]
  <2>1. \A e, f \in removed : e.id = f.id => e = f
    BY <1>3 DEF Indexed
  <2>2. key \in Injection(removed, Gone(s))
    BY <1>4, <2>1 DEF Injection, IsInjective
  <2>3. key \in Surjection(removed, Gone(s))
    BY <1>4 DEF Surjection
  <2> HIDE DEF key
  <2>. QED
    BY <1>8, <2>2, <2>3, FS_Injection
<1>12. Cardinality(Gone(s)) \in Nat /\ Len(order) \in Nat
  BY <1>8, FS_CardinalityType DEF Indexed
<1>. QED
  BY <1>1, <1>2, <1>3, <1>6, <1>7, <1>10, <1>11, <1>12

\* The key of the entry that is served is among those that are left.
LEMMA ServedIsKept ==
    ASSUME Stored, Indexed, NEW p \in Prompts, NEW s \in Scopes, Hit(p, s)
    PROVE  <<s, Nearest(p, s).id>> \in Range(order) \ Gone(s)
<1>1. Nearest(p, s) \in Live(s)
  BY HitIsLive
<1>2. <<s, Nearest(p, s).id>> \in Range(order)
  BY <1>1 DEF Indexed, Live
<1>3. ASSUME NEW e \in bucket[s] \ Live(s) PROVE e.id # Nearest(p, s).id
  BY <1>1 DEF Indexed, Live
<1>. QED
  BY <1>2, <1>3 DEF Gone

\* What a lookup does to the order: the keys of the expired entries go, the
\* one that is served moves to the end.
LEMMA OrderAfterGet ==
    ASSUME Stored, Indexed, NEW p \in Prompts, NEW s \in Scopes, Get(p, s)
    PROVE  /\ order' \in Seq(Keys) /\ IsInjective(order')
           /\ Range(order') = Range(order) \ Gone(s)
           /\ Len(order') = Len(Without(order, Gone(s)))
<1>1. order' = IF Hit(p, s)
               THEN MovedToEnd(Without(order, Gone(s)), <<s, Nearest(p, s).id>>)
               ELSE Without(order, Gone(s))
  BY DEF Get, Search, Gone
<1>2. PICK kept : kept = Without(order, Gone(s))
  OBVIOUS
<1>3. kept \in Seq(Keys) /\ IsInjective(kept) /\ Range(kept) = Range(order) \ Gone(s)
  BY <1>2, GoneLeaves
<1>4. CASE ~Hit(p, s)
  BY <1>1, <1>2, <1>3, <1>4
<1>5. CASE Hit(p, s)
  <2>1. PICK k : k = <<s, Nearest(p, s).id>>
    OBVIOUS
  <2>2. k \in Range(kept)
    BY <1>3, <1>5, <2>1, ServedIsKept
  <2>3. order' = MovedToEnd(kept, k)
    BY <1>1, <1>2, <1>5, <2>1
  <2>. QED
    BY <1>2, <1>3, <2>2, <2>3, MovedKeys
<1>. QED
  BY <1>4, <1>5
-----------------------------------------------------------------------------
(* What a put adds and drops *)

\* The entry a put makes.
NewEntry(p, s) == [id |-> nextId, prompt |-> p, response |-> Response(p, s), at |-> now]

\* The order with the new entry's key is longer; its first n keys, out, are
\* evicted.
Evicts(p, s, longer, n, out) ==
    /\ longer = Append(order, <<s, nextId>>)
    /\ longer \in Seq(Keys) /\ Len(longer) = Len(order) + 1
    /\ Range(longer) = Range(order) \cup {<<s, nextId>>}
    /\ n \in 0..Len(longer) /\ out = Range(SubSeq(longer, 1, n))
    /\ order' \in Seq(Keys) /\ IsInjective(order')
    /\ Len(order') = Len(longer) - n /\ Len(order') <= MaxEntries
    /\ \A i \in 1..Len(order') : order'[i] = longer[n + i]
    /\ Range(order') = Range(longer) \ out
    /\ bucket' = [t \in Scopes |-> bucket'[t]]
    /\ \A t \in Scopes : \A e : e \in bucket'[t] <=>
          (e \in bucket[t] \/ (t = s /\ e = NewEntry(p, s))) /\ <<t, e.id>> \notin out
    /\ stats' = [stats EXCEPT !.evicted = @ + n]
    /\ nextId' = nextId + 1 /\ now' = now

LEMMA PutEvicts ==
    ASSUME Stored, Indexed, Len(order) <= MaxEntries, NEW p \in Prompts, NEW s \in Scopes,
           Put(p, Response(p, s), s)
    PROVE  \E longer, n, out : Evicts(p, s, longer, n, out)
<1>1. PICK k : k = <<s, nextId>>
  OBVIOUS
<1>2. PICK longer : longer = Append(order, k)
  OBVIOUS
<1>3. order \in Seq(Keys) /\ IsInjective(order) /\ k \in Keys /\ k \notin Range(order)
  <2>1. order \in Seq(Keys) /\ IsInjective(order) /\ k \in Keys
    BY <1>1, BoundsAssumption DEF Indexed, Stored, Keys
  <2>2. ASSUME k \in Range(order) PROVE FALSE
    <3>1. PICK e \in bucket[s] : e.id = nextId
      BY <1>1, <2>2 DEF Indexed
    <3>2. nextId \in Nat /\ e.id < nextId
      BY StoredBounds
    <3>. QED
      BY ONLY <3>1, <3>2
  <2>. QED
    BY <2>1, <2>2
<1>4. /\ longer \in Seq(Keys) /\ Len(longer) = Len(order) + 1 /\ IsInjective(longer)
      /\ Range(longer) = Range(order) \cup {k}
  BY <1>2, <1>3, AppendedKeys
<1>5. PICK m \in Nat : m = Len(longer)
  BY <1>4
<1>6. PICK n : n = IF m > MaxEntries THEN m - MaxEntries ELSE 0
  OBVIOUS
<1>7. n \in 0..m /\ m - n <= MaxEntries
  BY <1>5, <1>6, CacheSizeAssumption
<1>8. PICK out : out = Range(SubSeq(longer, 1, n))
  OBVIOUS
<1>9. /\ order' = SubSeq(longer, n + 1, m)
      /\ bucket' = [t \in Scopes |->
                      {e \in [bucket EXCEPT ![s] = @ \cup {NewEntry(p, s)}][t] :
                          <<t, e.id>> \notin out}]
      /\ stats' = [stats EXCEPT !.evicted = @ + n]
      /\ nextId' = nextId + 1 /\ now' = now
  BY <1>1, <1>2, <1>5, <1>6, <1>8 DEF Put, Enter, NewEntry
<1>10. /\ order' \in Seq(Keys) /\ Len(order') = m - n
       /\ \A i \in 1..(m - n) : order'[i] = longer[n + i]
       /\ Range(order') = Range(longer) \ out
       /\ IsInjective(order')
  BY ONLY <1>4, <1>5, <1>7, <1>8, <1>9, DroppedKeys
<1>11. ASSUME NEW t \in Scopes, NEW e
       PROVE  e \in bucket'[t] <=>
                 (e \in bucket[t] \/ (t = s /\ e = NewEntry(p, s))) /\ <<t, e.id>> \notin out
  <2>1. PICK new : new = NewEntry(p, s)
    OBVIOUS
  <2>2. PICK filled : filled = [bucket EXCEPT ![s] = @ \cup {new}]
    OBVIOUS
  <2>3. bucket' = [r \in Scopes |-> {f \in filled[r] : <<r, f.id>> \notin out}]
    BY <1>9, <2>1, <2>2
  <2>4. bucket'[t] = {f \in filled[t] : <<t, f.id>> \notin out}
    BY ONLY <2>3, t \in Scopes
  <2>5. filled[t] = IF t = s THEN bucket[t] \cup {new} ELSE bucket[t]
    BY <2>2 DEF Stored
  <2>. QED
    BY ONLY <2>1, <2>4, <2>5
<1>12. bucket' = [t \in Scopes |-> bucket'[t]]
  BY <1>9
<1>13. Evicts(p, s, longer, n, out)
  BY ONLY <1>1, <1>2, <1>4, <1>5, <1>7, <1>8, <1>9, <1>10, <1>11, <1>12 DEF Evicts
<1>. QED
  BY <1>13
-----------------------------------------------------------------------------
(* The invariant *)

\* A lookup drops entries and changes none.
LEMMA BucketAfterGet ==
    ASSUME Stored, NEW p \in Prompts, NEW s \in Scopes, Get(p, s)
    PROVE  /\ bucket' \in [Scopes -> SUBSET Entry]
           /\ \A t \in Scopes : bucket'[t] = IF t = s THEN Live(t) ELSE bucket[t]
           /\ nextId' = nextId /\ now' = now
BY DEF Get, Search, Stored, Live

LEMMA GetKeepsStored ==
    ASSUME Stored, NEW p \in Prompts, NEW s \in Scopes, Get(p, s)
    PROVE  Stored'
BY BucketAfterGet DEF Stored, Live

LEMMA GetKeepsIndexed ==
    ASSUME Stored, Indexed, NEW p \in Prompts, NEW s \in Scopes, Get(p, s)
    PROVE  Indexed'
<1>1. /\ order' \in Seq(Keys) /\ IsInjective(order')
      /\ Range(order') = Range(order) \ Gone(s)
  BY OrderAfterGet
<1>2. \A t \in Scopes : bucket'[t] = IF t = s THEN Live(t) ELSE bucket[t]
  BY BucketAfterGet
<1>3. ASSUME NEW k \in Range(order') PROVE \E e \in bucket'[k[1]] : e.id = k[2]
  <2>1. k \in Keys /\ k \in Range(order) /\ k \notin Gone(s)
    BY <1>1, RangeOfSeq DEF Indexed
  <2>2. PICK e \in bucket[k[1]] : e.id = k[2]
    BY <2>1 DEF Indexed
  <2>3. k[1] \in Scopes /\ k = <<k[1], k[2]>>
    BY <2>1 DEF Keys
  <2>4. k[1] = s => e \in Live(s)
    BY <2>1, <2>2, <2>3 DEF Gone
  <2>. QED
    BY <1>2, <2>2, <2>3, <2>4
<1>4. ASSUME NEW t \in Scopes, NEW e \in bucket'[t] PROVE <<t, e.id>> \in Range(order')
  <2>1. e \in bucket[t] /\ (t = s => e \in Live(s))
    BY <1>2 DEF Live
  <2>2. <<t, e.id>> \in Range(order)
    BY <2>1 DEF Indexed
  <2>3. ASSUME NEW f \in bucket[s] \ Live(s), <<t, e.id>> = <<s, f.id>> PROVE FALSE
    BY <2>1, <2>3 DEF Indexed
  <2>. QED
    BY <1>1, <2>2, <2>3 DEF Gone
<1>5. \A t, r \in Scopes : \A e \in bucket'[t], f \in bucket'[r] : e.id = f.id => t = r /\ e = f
  <2>1. \A t \in Scopes : bucket'[t] \subseteq bucket[t]
    BY <1>2 DEF Live
  <2>. QED
    BY <2>1 DEF Indexed
<1>. QED
  BY <1>1, <1>3, <1>4, <1>5 DEF Indexed

LEMMA GetKeepsCounted ==
    ASSUME Stored, Indexed, Counted, NEW p \in Prompts, NEW s \in Scopes,
           stats.hits + stats.misses < MaxGets, Get(p, s)
    PROVE  Counted'
<1>1. PICK c : c = Cardinality(bucket[s] \ Live(s))
  OBVIOUS
<1>2. c \in Nat /\ Len(order') + c = Len(order) /\ Len(order') \in Nat
  BY <1>1, GoneLeaves, OrderAfterGet
<1>3. PICK hit \in BOOLEAN, found \in BOOLEAN : hit = Hit(p, s) /\ found = Found(p, s)
  BY DEF Hit, Found, SameNumbers
<1>4. stats' = [stats EXCEPT !.expired = @ + c,
                             !.hits = IF hit THEN @ + 1 ELSE @,
                             !.misses = IF hit THEN @ ELSE @ + 1,
                             !.blocked = IF found /\ ~hit THEN @ + 1 ELSE @]
  BY <1>1, <1>3 DEF Get, Search
<1>5. /\ stats \in Counters
      /\ stats.hits + stats.misses < MaxGets /\ stats.blocked <= stats.misses
      /\ Len(order) <= MaxEntries /\ Len(order) + stats.expired + stats.evicted <= nextId
  BY DEF Counted
<1>6. /\ stats'.expired = stats.expired + c /\ stats'.evicted = stats.evicted
      /\ stats'.hits = (IF hit THEN stats.hits + 1 ELSE stats.hits)
      /\ stats'.misses = (IF hit THEN stats.misses ELSE stats.misses + 1)
      /\ stats'.blocked = (IF found /\ ~hit THEN stats.blocked + 1 ELSE stats.blocked)
      /\ stats' \in Counters
  <2>1. /\ stats.hits \in Nat /\ stats.misses \in Nat /\ stats.blocked \in Nat
        /\ stats.expired \in Nat /\ stats.evicted \in Nat
    BY ONLY <1>5 DEF Counters
  <2>2. stats' = [hits |-> IF hit THEN stats.hits + 1 ELSE stats.hits,
                  misses |-> IF hit THEN stats.misses ELSE stats.misses + 1,
                  blocked |-> IF found /\ ~hit THEN stats.blocked + 1 ELSE stats.blocked,
                  expired |-> stats.expired + c, evicted |-> stats.evicted]
    BY ONLY <1>4, <1>5 DEF Counters
  <2>. QED
    BY ONLY <1>2, <2>1, <2>2, hit \in BOOLEAN, found \in BOOLEAN DEF Counters
<1>7. nextId' = nextId /\ nextId \in Nat
  BY BucketAfterGet, StoredBounds
<1>8. /\ stats.hits \in Nat /\ stats.misses \in Nat /\ stats.blocked \in Nat
      /\ stats.expired \in Nat /\ stats.evicted \in Nat /\ Len(order) \in Nat
  BY <1>5 DEF Counters, Indexed
<1>9. stats'.hits + stats'.misses <= MaxGets /\ stats'.blocked <= stats'.misses
  BY ONLY <1>5, <1>6, <1>8, BoundsAssumption, hit \in BOOLEAN, found \in BOOLEAN
<1>10. Len(order') <= MaxEntries /\ Len(order') + stats'.expired + stats'.evicted <= nextId'
  BY ONLY <1>2, <1>5, <1>6, <1>7, <1>8, CacheSizeAssumption
<1>. QED
  BY <1>6, <1>9, <1>10 DEF Counted

LEMMA PutKeepsStored ==
    ASSUME Stored, NEW p \in Prompts, NEW s \in Scopes, NEW longer, NEW n, NEW out,
           Evicts(p, s, longer, n, out), nextId < MaxPuts
    PROVE  Stored'
<1>1. PICK new : new = NewEntry(p, s)
  OBVIOUS
<1>2. /\ new \in Entry /\ new.id = nextId /\ new.at = now
      /\ new.response = [prompt |-> new.prompt, scope |-> s, at |-> new.at]
  BY <1>1, StoredBounds DEF NewEntry, Response, Entry, Answer
<1>3. nextId' \in 0..MaxPuts /\ nextId' = nextId + 1 /\ now' = now /\ now \in 0..MaxTime
  <2>1. nextId' = nextId + 1 /\ now' = now /\ nextId \in Nat /\ now \in 0..MaxTime
    BY StoredBounds DEF Evicts, Stored
  <2>. QED
    BY ONLY <2>1, nextId < MaxPuts, BoundsAssumption
<1>4. /\ bucket' = [t \in Scopes |-> bucket'[t]]
      /\ \A t \in Scopes : \A e \in bucket'[t] : e \in bucket[t] \/ (t = s /\ e = new)
  BY <1>1 DEF Evicts
<1>5. ASSUME NEW t \in Scopes, NEW e \in bucket'[t]
      PROVE  /\ e \in Entry /\ e.id < nextId' /\ e.at <= now'
             /\ e.response = [prompt |-> e.prompt, scope |-> t, at |-> e.at]
  <2>1. CASE e \in bucket[t]
    <3>1. /\ e \in Entry /\ e.id < nextId /\ e.at <= now /\ e.id \in Nat
          /\ e.response = [prompt |-> e.prompt, scope |-> t, at |-> e.at]
      BY <2>1, StoredBounds DEF Stored, Entry
    <3>2. nextId \in Nat
      BY StoredBounds
    <3>. QED
      BY ONLY <1>3, <3>1, <3>2
  <2>2. CASE t = s /\ e = new
    <3>1. nextId \in Nat /\ now \in Nat
      BY StoredBounds
    <3>. QED
      BY ONLY <1>2, <1>3, <2>2, <3>1
  <2>. QED
    BY <1>4, <2>1, <2>2
<1>6. bucket' \in [Scopes -> SUBSET Entry]
  BY <1>4, <1>5
<1>. QED
  BY <1>3, <1>5, <1>6 DEF Stored

LEMMA PutKeepsIndexed ==
    ASSUME Stored, Indexed, NEW p \in Prompts, NEW s \in Scopes, NEW longer, NEW n, NEW out,
           Evicts(p, s, longer, n, out)
    PROVE  Indexed'
<1>1. PICK new : new = NewEntry(p, s)
  OBVIOUS
<1>2. /\ new.id = nextId
      /\ \A t \in Scopes : \A e \in bucket[t] : e.id \in Nat /\ e.id < nextId /\ e.id # nextId
  <2>1. new.id = nextId
    BY <1>1 DEF NewEntry
  <2>2. nextId \in Nat /\ \A t \in Scopes : \A e \in bucket[t] : e.id \in Nat /\ e.id < nextId
    BY StoredBounds DEF Entry
  <2>. QED
    BY ONLY <2>1, <2>2
<1>3. /\ order' \in Seq(Keys) /\ IsInjective(order')
      /\ Range(order') = (Range(order) \cup {<<s, nextId>>}) \ out
      /\ \A t \in Scopes : \A e : e \in bucket'[t] <=>
            (e \in bucket[t] \/ (t = s /\ e = new)) /\ <<t, e.id>> \notin out
  BY <1>1 DEF Evicts
<1>4. ASSUME NEW k \in Range(order') PROVE \E e \in bucket'[k[1]] : e.id = k[2]
  <2>1. k \notin out /\ (k \in Range(order) \/ k = <<s, nextId>>)
    BY <1>3
  <2>2. CASE k = <<s, nextId>>
    <3>1. k[1] = s /\ k[2] = nextId /\ <<s, new.id>> = k
      BY <1>2, <2>2
    <3>2. new \in bucket'[s]
      BY ONLY <1>3, <2>1, <3>1, s \in Scopes
    <3>. QED
      BY ONLY <1>2, <3>1, <3>2
  <2>3. CASE k \in Range(order)
    <3>1. PICK e \in bucket[k[1]] : e.id = k[2]
      BY <2>3 DEF Indexed
    <3>2. k[1] \in Scopes /\ k = <<k[1], k[2]>>
      BY <2>3, RangeOfSeq DEF Indexed, Keys
    <3>3. e \in bucket'[k[1]]
      BY ONLY <1>3, <2>1, <3>1, <3>2
    <3>. QED
      BY <3>1, <3>3
  <2>. QED
    BY <2>1, <2>2, <2>3
<1>5. ASSUME NEW t \in Scopes, NEW e \in bucket'[t] PROVE <<t, e.id>> \in Range(order')
  <2>1. <<t, e.id>> \notin out /\ (e \in bucket[t] \/ (t = s /\ e = new))
    BY <1>3
  <2>2. <<t, e.id>> \in Range(order) \/ <<t, e.id>> = <<s, nextId>>
    BY <1>2, <2>1 DEF Indexed
  <2>. QED
    BY <1>3, <2>1, <2>2
<1>6. ASSUME NEW t \in Scopes, NEW r \in Scopes, NEW e \in bucket'[t], NEW f \in bucket'[r],
             e.id = f.id
      PROVE  t = r /\ e = f
  <2>1. /\ e \in bucket[t] \/ (t = s /\ e = new)
        /\ f \in bucket[r] \/ (r = s /\ f = new)
    BY <1>3
  <2>2. CASE e \in bucket[t] /\ f \in bucket[r]
    BY <1>6, <2>2 DEF Indexed
  <2>3. CASE e \notin bucket[t] \/ f \notin bucket[r]
    BY ONLY <1>2, <1>6, <2>1, <2>3
  <2>. QED
    BY <2>2, <2>3
<1>. QED
  BY <1>3, <1>4, <1>5, <1>6 DEF Indexed

LEMMA PutKeepsCounted ==
    ASSUME Stored, Indexed, Counted, NEW p \in Prompts, NEW s \in Scopes,
           NEW longer, NEW n, NEW out, Evicts(p, s, longer, n, out)
    PROVE  Counted'
<1>1. /\ Len(longer) = Len(order) + 1 /\ n \in 0..Len(longer)
      /\ Len(order') = Len(longer) - n /\ Len(order') <= MaxEntries
      /\ stats' = [stats EXCEPT !.evicted = @ + n] /\ nextId' = nextId + 1
  BY DEF Evicts
<1>2. /\ stats \in Counters
      /\ stats.hits + stats.misses <= MaxGets /\ stats.blocked <= stats.misses
      /\ Len(order) + stats.expired + stats.evicted <= nextId
  BY DEF Counted
<1>3. Len(order) \in Nat /\ nextId \in Nat
  BY StoredBounds DEF Indexed
<1>4. n \in Nat
  BY ONLY <1>1, <1>3
<1>5. stats.expired \in Nat /\ stats.evicted \in Nat /\ stats.evicted + n \in Nat
  <2>1. stats.expired \in Nat /\ stats.evicted \in Nat
    BY <1>2 DEF Counters
  <2>. QED
    BY ONLY <1>4, <2>1
<1>6. /\ stats'.hits = stats.hits /\ stats'.misses = stats.misses
      /\ stats'.blocked = stats.blocked /\ stats'.expired = stats.expired
      /\ stats'.evicted = stats.evicted + n /\ stats' \in Counters
  <2>1. stats \in Counters /\ stats' = [stats EXCEPT !.evicted = @ + n]
    BY <1>1, <1>2
  <2>. QED
    BY ONLY <1>5, <2>1 DEF Counters
<1>7. Len(order') + stats'.expired + stats'.evicted <= nextId'
  <2>1. /\ Len(order') = Len(order) + 1 - n /\ nextId' = nextId + 1
        /\ stats'.expired = stats.expired /\ stats'.evicted = stats.evicted + n
        /\ Len(order) + stats.expired + stats.evicted <= nextId
    BY <1>1, <1>2, <1>6
  <2>. QED
    BY ONLY <1>3, <1>4, <1>5, <2>1
<1>. QED
  BY <1>1, <1>2, <1>6, <1>7 DEF Counted

\* After an append to the uses, each key of the old order is still used.
LEMMA LongerUses ==
    ASSUME NEW u \in Seq(Keys), NEW k \in Keys, NEW N \in Nat, k[2] < N,
           \A i \in DOMAIN u : u[i][2] < N
    PROVE  /\ Append(u, k) \in Seq(Keys)
           /\ \A i \in DOMAIN Append(u, k) : Append(u, k)[i][2] < N
           /\ Range(Append(u, k)) = Range(u) \cup {k}
<1>1. PICK v : v = Append(u, k)
  OBVIOUS
<1>2. PICK m \in Nat : m = Len(u)
  OBVIOUS
<1>3. /\ v \in Seq(Keys) /\ DOMAIN u = 1..m /\ DOMAIN v = 1..(m + 1)
      /\ v[m + 1] = k /\ \A i \in 1..m : v[i] = u[i]
  BY <1>1, <1>2, AppendProperties
<1>4. /\ \A i \in DOMAIN v : i \in DOMAIN u \/ i = m + 1
      /\ \A i \in DOMAIN u : i \in DOMAIN v
      /\ m + 1 \in DOMAIN v
  BY ONLY <1>3, m \in Nat
<1>5. \A i \in DOMAIN v : v[i][2] < N
  BY <1>3, <1>4
<1>6. Range(v) = Range(u) \cup {k}
  BY ONLY <1>3, <1>4 DEF Range
<1>. QED
  BY <1>1, <1>3, <1>5, <1>6

LEMMA GetKeepsUsed ==
    ASSUME Stored, Indexed, Used, NEW p \in Prompts, NEW s \in Scopes, Lookup(p, s)
    PROVE  Used'
<1>1. Get(p, s)
  BY DEF Lookup
<1>2. /\ nextId' = nextId /\ nextId \in Nat
      /\ Range(order') \subseteq Range(order)
  BY <1>1, BucketAfterGet, OrderAfterGet, StoredBounds
<1>3. PICK kept : kept = Without(order, Gone(s))
  OBVIOUS
<1>4. /\ kept \in Seq(Keys) /\ Range(kept) = Range(order) \ Gone(s) /\ ByLastUse(uses, kept)
  BY <1>3, GoneLeaves, WithoutByLastUse DEF Indexed, Used
<1>5. CASE ~Hit(p, s)
  <2>1. uses' = uses /\ order' = kept
    BY <1>1, <1>3, <1>5 DEF Lookup, Get, Search, Gone
  <2>. QED
    BY <1>2, <1>4, <2>1 DEF Used
<1>6. CASE Hit(p, s)
  <2>1. PICK k : k = <<s, Nearest(p, s).id>>
    OBVIOUS
  <2>2. uses' = Append(uses, k) /\ order' = MovedToEnd(kept, k)
    BY <1>1, <1>3, <1>6, <2>1 DEF Lookup, Get, Search, Gone
  <2>3. k \in Range(kept) /\ k \in Range(order)
    BY <1>4, <1>6, <2>1, ServedIsKept
  <2>4. k \in Keys /\ k[2] < nextId
    <3>1. k \in Keys
      BY <2>3, RangeOfSeq DEF Indexed
    <3>2. PICK e \in bucket[k[1]] : e.id = k[2]
      BY <2>3 DEF Indexed
    <3>. QED
      BY <3>1, <3>2, StoredBounds DEF Keys
  <2>5. /\ uses' \in Seq(Keys) /\ \A i \in DOMAIN uses' : uses'[i][2] < nextId
        /\ Range(uses') = Range(uses) \cup {k}
    BY <1>2, <2>2, <2>4, LongerUses DEF Used
  <2>6. ByLastUse(uses', order')
    <3>1. PICK left : left = Without(kept, {k})
      OBVIOUS
    <3>2. /\ left \in Seq(Keys) /\ Range(left) = Range(kept) \ {k}
          /\ ByLastUse(uses, left)
      BY <1>4, <3>1, WithoutKeys, WithoutByLastUse
    <3>3. order' = Append(left, k)
      BY <2>2, <3>1 DEF MovedToEnd
    <3>4. uses \in Seq(Keys)
      BY DEF Used
    <3>. QED
      BY <2>2, <2>4, <3>2, <3>3, <3>4, AppendedLast
  <2>. QED
    BY <1>2, <2>5, <2>6 DEF Used
<1>. QED
  BY <1>5, <1>6

\* What a put leaves of the order is a tail of it.
LEMMA PutKeepsUsed ==
    ASSUME Stored, Indexed, Used, NEW p \in Prompts, NEW s \in Scopes, Store(p, s),
           NEW longer, NEW n, NEW out, Evicts(p, s, longer, n, out)
    PROVE  Used'
<1>1. PICK k : k = <<s, nextId>>
  OBVIOUS
<1>2. uses' = Append(uses, k) /\ nextId' = nextId + 1 /\ nextId \in Nat /\ k \in Keys /\ k[2] = nextId
  BY <1>1, StoredBounds DEF Store, Evicts, Keys
<1>3. /\ uses \in Seq(Keys) /\ \A i \in DOMAIN uses : uses[i][2] < nextId
      /\ Range(order) \subseteq Range(uses) /\ ByLastUse(uses, order)
  BY DEF Used
<1>4. k \notin Range(uses)
  <2>1. ASSUME k \in Range(uses) PROVE FALSE
    <3>1. PICK i \in DOMAIN uses : uses[i] = k
      BY <2>1 DEF Range
    <3>2. nextId < nextId
      BY ONLY <1>2, <1>3, <3>1
    <3>. QED
      BY ONLY <1>2, <3>2
  <2>. QED
    BY <2>1
<1>5. \A i \in DOMAIN uses : uses[i][2] < nextId + 1
  <2>1. \A i \in DOMAIN uses : uses[i][2] \in Nat
    BY <1>3 DEF Keys
  <2>. QED
    BY ONLY <1>2, <1>3, <2>1
<1>6. /\ uses' \in Seq(Keys) /\ \A i \in DOMAIN uses' : uses'[i][2] < nextId'
      /\ Range(uses') = Range(uses) \cup {k}
  BY ONLY <1>2, <1>3, <1>5, LongerUses
<1>7. /\ longer = Append(order, k) /\ longer \in Seq(Keys) /\ n \in 0..Len(longer)
      /\ Range(longer) = Range(order) \cup {k}
      /\ order' \in Seq(Keys) /\ Len(order') = Len(longer) - n
      /\ \A i \in 1..Len(order') : order'[i] = longer[n + i]
      /\ Range(order') = Range(longer) \ out
  BY <1>1 DEF Evicts
<1>8. ByLastUse(uses', longer)
  <2>1. order \in Seq(Keys) /\ k \notin Range(order)
    BY <1>3, <1>4 DEF Indexed
  <2>. QED
    BY <1>2, <1>3, <1>7, <2>1, AppendedLast
<1>9. ASSUME NEW i \in DOMAIN order', NEW j \in DOMAIN order', i < j
      PROVE  After(uses', order'[i], order'[j])
  <2>1. PICK m \in Nat : m = Len(longer)
    BY <1>7
  <2>2. DOMAIN order' = 1..(m - n) /\ DOMAIN longer = 1..m /\ n \in 0..m
    BY <1>7, <2>1
  <2>3. n + i \in DOMAIN longer /\ n + j \in DOMAIN longer /\ n + i < n + j
    BY ONLY <1>9, <2>2, m \in Nat
  <2>4. order'[i] = longer[n + i] /\ order'[j] = longer[n + j]
    BY ONLY <1>7, <2>1, <2>2, i \in DOMAIN order', j \in DOMAIN order'
  <2>. QED
    BY ONLY <1>8, <2>3, <2>4 DEF ByLastUse
<1>10. Range(order') \subseteq Range(uses')
  BY <1>3, <1>6, <1>7
<1>. QED
  BY <1>6, <1>9, <1>10 DEF Used, ByLastUse

\* A put that fails takes an id, and no id comes back.
LEMMA FailedPutKeepsInv ==
    ASSUME CacheInv, EmbedderRaises
    PROVE  CacheInv'
<1>1. /\ nextId < MaxPuts /\ nextId' = nextId + 1
      /\ bucket' = bucket /\ order' = order /\ stats' = stats /\ now' = now /\ uses' = uses
  BY DEF EmbedderRaises, PutFails
<1>2. nextId \in Nat /\ nextId' \in 0..MaxPuts
  <2>1. nextId \in Nat
    BY StoredBounds DEF CacheInv
  <2>. QED
    BY ONLY <1>1, <2>1, BoundsAssumption
<1>3. \A n \in Nat : n < nextId => n < nextId'
  BY ONLY <1>1, <1>2
<1>4. Stored'
  <2>1. \A s \in Scopes : \A e \in bucket[s] : e.id < nextId'
    BY <1>3, StoredBounds DEF CacheInv, Entry
  <2>. QED
    BY <1>1, <1>2, <2>1 DEF CacheInv, Stored
<1>5. Indexed'
  BY <1>1 DEF CacheInv, Indexed
<1>6. Counted'
  <2>1. /\ Len(order) \in Nat /\ stats.expired \in Nat /\ stats.evicted \in Nat
        /\ Len(order) + stats.expired + stats.evicted <= nextId
    BY DEF CacheInv, Counted, Counters, Indexed
  <2>2. Len(order) + stats.expired + stats.evicted <= nextId'
    BY ONLY <1>1, <1>2, <2>1
  <2>. QED
    BY <1>1, <2>2 DEF CacheInv, Counted
<1>7. Used'
  <2>1. \A i \in DOMAIN uses : uses[i][2] \in Nat
    BY DEF CacheInv, Used, Keys
  <2>2. \A i \in DOMAIN uses : uses[i][2] < nextId'
    BY <1>3, <2>1 DEF CacheInv, Used
  <2>. QED
    BY <1>1, <2>2 DEF CacheInv, Used
<1>. QED
  BY <1>4, <1>5, <1>6, <1>7 DEF CacheInv

\* Time passes and the cache does nothing.
LEMMA TickKeepsInv ==
    ASSUME CacheInv, TimePasses
    PROVE  CacheInv'
<1>1. /\ now < MaxTime /\ now' = now + 1
      /\ bucket' = bucket /\ order' = order /\ stats' = stats /\ nextId' = nextId /\ uses' = uses
  BY DEF TimePasses, Tick
<1>2. Stored'
  <2>1. now \in Nat
    BY StoredBounds DEF CacheInv
  <2>2. now' \in 0..MaxTime /\ \A n \in Nat : n <= now => n <= now'
    BY ONLY <1>1, <2>1, BoundsAssumption
  <2>3. \A s \in Scopes : \A e \in bucket[s] : e.at <= now'
    BY <2>2, StoredBounds DEF CacheInv, Entry
  <2>. QED
    BY <1>1, <2>2, <2>3 DEF CacheInv, Stored
<1>3. Indexed' /\ Counted' /\ Used'
  BY <1>1 DEF CacheInv, Indexed, Counted, Used
<1>. QED
  BY <1>2, <1>3 DEF CacheInv

LEMMA InitHasInv == Init => CacheInv
<1> SUFFICES ASSUME Init PROVE CacheInv
  OBVIOUS
<1>1. /\ bucket = [s \in Scopes |-> {}] /\ order = <<>> /\ uses = <<>>
      /\ nextId = 0 /\ now = 0 /\ stats = NoStats
  BY DEF Init, CacheInit
<1>2. Stored
  BY <1>1, BoundsAssumption DEF Stored
<1>3. Range(order) = {}
  BY <1>1 DEF Range
<1>4. Indexed
  BY <1>1, <1>3 DEF Indexed, IsInjective
<1>5. Counted
  BY <1>1, BoundsAssumption, CacheSizeAssumption DEF Counted, Counters, NoStats
<1>6. Used
  BY <1>1, <1>3 DEF Used, ByLastUse
<1>. QED
  BY <1>2, <1>4, <1>5, <1>6 DEF CacheInv

LEMMA StepKeepsInv == CacheInv /\ [Next]_vars => CacheInv'
<1> SUFFICES ASSUME CacheInv, [Next]_vars PROVE CacheInv'
  OBVIOUS
<1>1. ASSUME NEW p \in Prompts, NEW s \in Scopes, Lookup(p, s) PROVE CacheInv'
  <2>1. Get(p, s) /\ stats.hits + stats.misses < MaxGets
    BY <1>1 DEF Lookup
  <2>2. Stored' /\ Indexed' /\ Counted'
    BY <2>1, GetKeepsStored, GetKeepsIndexed, GetKeepsCounted DEF CacheInv
  <2>3. Used'
    BY <1>1, GetKeepsUsed DEF CacheInv
  <2>. QED
    BY <2>2, <2>3 DEF CacheInv
<1>2. ASSUME NEW p \in Prompts, NEW s \in Scopes, Store(p, s) PROVE CacheInv'
  <2>1. PICK longer, n, out : Evicts(p, s, longer, n, out)
    BY <1>2, PutEvicts DEF Store, CacheInv, Counted
  <2>2. nextId < MaxPuts
    BY <1>2 DEF Store
  <2>3. Stored' /\ Indexed' /\ Counted'
    BY <2>1, <2>2, PutKeepsStored, PutKeepsIndexed, PutKeepsCounted DEF CacheInv
  <2>4. Used'
    BY <1>2, <2>1, PutKeepsUsed DEF CacheInv
  <2>. QED
    BY <2>3, <2>4 DEF CacheInv
<1>3. CASE EmbedderRaises
  BY <1>3, FailedPutKeepsInv
<1>4. CASE TimePasses
  BY <1>4, TickKeepsInv
<1>5. CASE UNCHANGED vars
  BY <1>5 DEF vars, CacheInv, Stored, Indexed, Counted, Used
<1>. QED
  BY <1>1, <1>2, <1>3, <1>4, <1>5 DEF Next

\* The two indexes, the counters and the order of use agree in every
\* reachable state of cache.py.
THEOREM CacheInvariant == Spec => []CacheInv
<1>1. Init => CacheInv
  BY InitHasInv
<1>2. CacheInv /\ [Next]_vars => CacheInv'
  BY StepKeepsInv
<1>. QED
  BY <1>1, <1>2, PTL DEF Spec
-----------------------------------------------------------------------------
(* The properties the run checks *)

\* Every variable of the cache keeps its type, the counters within what the
\* calls made can count.
THEOREM CacheTypeCorrect == Spec => []TypeOK
<1>1. CacheInv => TypeOK
  <2> SUFFICES ASSUME CacheInv PROVE TypeOK
    OBVIOUS
  <2>1. \A n \in Nat : n < nextId => n \in 0..(MaxPuts - 1)
    <3>1. nextId \in 0..MaxPuts
      BY DEF CacheInv, Stored
    <3>. QED
      BY ONLY <3>1, BoundsAssumption
  <2>2. \A n \in Nat : n <= now => n \in 0..MaxTime
    <3>1. now \in 0..MaxTime
      BY DEF CacheInv, Stored
    <3>. QED
      BY ONLY <3>1, BoundsAssumption
  <2>3. ASSUME NEW k \in Entries
        PROVE  /\ k[2].id \in 0..(MaxPuts - 1) /\ k[2].prompt \in Prompts
               /\ k[2].at \in 0..MaxTime /\ k[2].response.prompt \in Prompts
    <3>1. PICK s \in Scopes : \E e \in bucket[s] : k = <<s, e>>
      BY <2>3 DEF Entries
    <3>2. PICK e \in bucket[s] : k[2] = e
      BY <3>1
    <3>3. e \in Entry /\ e.id < nextId /\ e.at <= now
      BY StoredBounds DEF CacheInv
    <3>4. /\ e.id \in Nat /\ e.at \in Nat /\ e.prompt \in Prompts
          /\ e.response.prompt \in Prompts
      BY ONLY <3>3 DEF Entry, Answer
    <3>. QED
      BY ONLY <2>1, <2>2, <3>2, <3>3, <3>4
  <2>4. order \in Seq(Scopes \X (0..(MaxPuts - 1)))
    <3>1. order \in Seq(Keys) /\ Len(order) \in Nat /\ order = [i \in 1..Len(order) |-> order[i]]
      BY DEF CacheInv, Indexed
    <3>2. ASSUME NEW i \in 1..Len(order) PROVE order[i] \in Scopes \X (0..(MaxPuts - 1))
      <4>1. order[i] \in Keys /\ order[i] \in Range(order)
        BY <3>1 DEF Range
      <4>2. PICK e \in bucket[order[i][1]] : e.id = order[i][2]
        BY <4>1 DEF CacheInv, Indexed
      <4>3. order[i][2] < nextId
        BY <4>1, <4>2, StoredBounds DEF CacheInv, Keys
      <4>. QED
        BY <2>1, <4>1, <4>3 DEF Keys
    <3>. QED
      BY ONLY <3>1, <3>2
  <2>5. stats \in [{"hits", "misses", "blocked", "expired", "evicted"} -> 0..(MaxPuts + MaxGets)]
    <3>1. /\ stats \in Counters
          /\ stats.hits + stats.misses <= MaxGets /\ stats.blocked <= stats.misses
          /\ Len(order) + stats.expired + stats.evicted <= nextId
          /\ Len(order) \in Nat /\ nextId \in 0..MaxPuts
      BY DEF CacheInv, Counted, Indexed, Stored
    <3>2. /\ stats.hits \in Nat /\ stats.misses \in Nat /\ stats.blocked \in Nat
          /\ stats.expired \in Nat /\ stats.evicted \in Nat
      BY ONLY <3>1 DEF Counters
    <3>3. PICK limit : limit = MaxPuts + MaxGets
      OBVIOUS
    <3>4. /\ stats.hits \in 0..limit /\ stats.misses \in 0..limit /\ stats.blocked \in 0..limit
          /\ stats.expired \in 0..limit /\ stats.evicted \in 0..limit
      BY ONLY <3>1, <3>2, <3>3, BoundsAssumption
    <3>5. stats = [i \in {"hits", "misses", "blocked", "expired", "evicted"} |-> stats[i]]
      BY ONLY <3>1 DEF Counters
    <3>. QED
      BY ONLY <3>3, <3>4, <3>5
  <2>6. DOMAIN bucket = Scopes /\ nextId \in 0..MaxPuts /\ now \in 0..MaxTime
    BY DEF CacheInv, Stored
  <2>. QED
    BY <2>3, <2>4, <2>5, <2>6 DEF TypeOK
<1>. QED
  BY <1>1, CacheInvariant, PTL

\* The order has the key of every entry once and no other: nothing counts
\* against max_entries that no bucket holds, and nothing a bucket holds
\* escapes it.
THEOREM IndexesAlwaysAgree == Spec => []IndexesAgree
<1>1. CacheInv => IndexesAgree
  <2> SUFFICES ASSUME CacheInv PROVE IndexesAgree
    OBVIOUS
  <2>1. \A k : k \in Entries <=> \E s \in Scopes : \E e \in bucket[s] : k = <<s, e>>
    BY DEF Entries
  <2>2. ASSUME NEW k \in Range(order) PROVE \E l \in Entries : k = <<l[1], l[2].id>>
    <3>1. k[1] \in Scopes /\ k = <<k[1], k[2]>>
      BY RangeOfSeq DEF CacheInv, Indexed, Keys
    <3>2. PICK e \in bucket[k[1]] : e.id = k[2]
      BY DEF CacheInv, Indexed
    <3>3. <<k[1], e>> \in Entries
      BY <2>1, <3>1, <3>2
    <3>. QED
      BY <3>1, <3>2, <3>3
  <2>3. ASSUME NEW l \in Entries PROVE <<l[1], l[2].id>> \in Range(order)
    BY <2>1 DEF CacheInv, Indexed
  <2>4. ASSUME NEW k \in Entries, NEW l \in Entries, k[2].id = l[2].id PROVE k = l
    <3>1. PICK s \in Scopes : \E e \in bucket[s] : k = <<s, e>>
      BY <2>1
    <3>2. PICK e \in bucket[s] : k = <<s, e>>
      BY <3>1
    <3>3. PICK t \in Scopes : \E f \in bucket[t] : l = <<t, f>>
      BY <2>1
    <3>4. PICK f \in bucket[t] : l = <<t, f>>
      BY <3>3
    <3>5. e.id = f.id
      BY <2>4, <3>2, <3>4
    <3>6. s = t /\ e = f
      BY <3>5 DEF CacheInv, Indexed
    <3>. QED
      BY <3>2, <3>4, <3>6
  <2>5. Range(order) = {<<k[1], k[2].id>> : k \in Entries}
    BY <2>2, <2>3
  <2>6. IsInjective(order)
    BY DEF CacheInv, Indexed
  <2>. QED
    BY <2>4, <2>5, <2>6 DEF IndexesAgree
<1>. QED
  BY <1>1, CacheInvariant, PTL

\* max_entries bounds all scopes together, and no entry is counted twice
\* among those held, expired and evicted.
THEOREM EntriesAlwaysAccountedFor == Spec => []EntriesAccountedFor
<1>1. CacheInv => EntriesAccountedFor
  BY DEF CacheInv, Counted, EntriesAccountedFor
<1>. QED
  BY <1>1, CacheInvariant, PTL

\* What a lookup returns was stored for its scope, has its prompt's numerals
\* and no more than the time to live behind it.
LEMMA AnswerFits ==
    ASSUME Stored, NEW p \in Prompts, NEW s \in Scopes, Lookup(p, s)
    PROVE  ServedAnswersFit'
<1>1. CASE ~Hit(p, s)
  <2>1. lookup'.answer = None
    BY <1>1 DEF Lookup
  <2>. QED
    BY <2>1 DEF ServedAnswersFit
<1>2. CASE Hit(p, s)
  <2>1. PICK e : e = Nearest(p, s)
    OBVIOUS
  <2>2. /\ e \in bucket[s] /\ ~Expired(e) /\ Similarity[p][e.prompt] >= Threshold
        /\ Numbers[e.prompt] = Numbers[p]
    BY <1>2, <2>1, HitIsLive DEF Live
  <2>3. e.response = [prompt |-> e.prompt, scope |-> s, at |-> e.at]
    BY <2>2 DEF Stored
  <2>4. /\ lookup'.answer = e.response /\ lookup'.prompt = p /\ lookup'.scope = s
        /\ now' = now
    BY <1>2, <2>1, BucketAfterGet DEF Lookup
  <2>5. TTL > 0 => now - e.at <= TTL
    <3>1. now \in Nat /\ e.at \in Nat
      BY <2>2, StoredBounds DEF Entry
    <3>. QED
      BY ONLY <2>2, <3>1, CacheSizeAssumption DEF Expired
  <2>. QED
    BY <2>2, <2>3, <2>4, <2>5 DEF ServedAnswersFit
<1>. QED
  BY <1>1, <1>2

\* Only an answer of the scope that was asked, near enough, with the same
\* numerals and within its time to live is served.
THEOREM ServedAnswersAlwaysFit == Spec => []ServedAnswersFit
<1>1. Init => ServedAnswersFit
  BY DEF Init, ServedAnswersFit, NoLookup
<1>2. CacheInv /\ ServedAnswersFit /\ [Next]_vars => ServedAnswersFit'
  <2> SUFFICES ASSUME CacheInv, ServedAnswersFit, [Next]_vars PROVE ServedAnswersFit'
    OBVIOUS
  <2>1. ASSUME NEW p \in Prompts, NEW s \in Scopes, Lookup(p, s) PROVE ServedAnswersFit'
    BY <2>1, AnswerFits DEF CacheInv
  <2>2. CASE lookup' = NoLookup
    BY <2>2 DEF ServedAnswersFit, NoLookup
  <2>3. CASE UNCHANGED vars
    BY <2>3 DEF vars, ServedAnswersFit
  <2>. QED
    BY <2>1, <2>2, <2>3 DEF Next, Store, EmbedderRaises, TimePasses
<1>. QED
  BY <1>1, <1>2, CacheInvariant, PTL DEF Spec

\* A repeat of a prompt whose answer is held misses only if the prompt's
\* vector is empty or an earlier entry reads the same and has other
\* numerals.
THEOREM RepeatsAlwaysMissOnlyATwin == Spec => []RepeatsMissOnlyATwin
<1>1. CacheInv => RepeatsMissOnlyATwin
  <2> SUFFICES ASSUME CacheInv, NEW s \in Scopes, NEW e \in Live(s),
                      Similarity[e.prompt][e.prompt] # 0, ~Hit(e.prompt, s)
               PROVE  \E f \in Live(s) :
                         /\ f.id < e.id
                         /\ Similarity[e.prompt][f.prompt] = Similarity[e.prompt][e.prompt]
                         /\ Numbers[f.prompt] # Numbers[e.prompt]
    BY DEF RepeatsMissOnlyATwin
  <2>1. PICK p : p = e.prompt
    OBVIOUS
  <2>2. \A f \in Live(s) : f \in bucket[s] /\ f \in Entry /\ f.id \in Nat /\ f.prompt \in Prompts
    BY DEF CacheInv, Stored, Live, Entry
  <2>3. p \in Prompts /\ Similarity[p][p] = 100
    BY <2>1, <2>2, SimilarityAssumption
  <2>4. e \in Near(p, s)
    BY <2>1, <2>3 DEF Near
  <2>5. PICK f : f = Nearest(p, s)
    OBVIOUS
  <2>6. /\ f \in Live(s)
        /\ \/ Similarity[p][e.prompt] < Similarity[p][f.prompt]
           \/ Similarity[p][e.prompt] = Similarity[p][f.prompt] /\ f.id <= e.id
    BY <2>3, <2>4, <2>5, NearestIsBest DEF CacheInv, Near
  <2>7. Similarity[p][f.prompt] \in 0..100
    BY <2>2, <2>3, <2>6, SimilarityAssumption
  <2>8. Similarity[p][f.prompt] = 100 /\ f.id <= e.id
    BY ONLY <2>1, <2>3, <2>6, <2>7
  <2>9. Numbers[f.prompt] # Numbers[p]
    <3>1. Found(p, s)
      BY <2>4, <2>5, <2>8, CacheSizeAssumption DEF Found
    <3>. QED
      BY <2>1, <2>5, <3>1 DEF Hit, SameNumbers
  <2>10. f.id # e.id
    BY <2>1, <2>2, <2>6, <2>9 DEF CacheInv, Indexed
  <2>11. f.id < e.id
    BY <2>2, <2>6, <2>8, <2>10
  <2>. QED
    BY <2>1, <2>3, <2>6, <2>8, <2>9, <2>11
<1>. QED
  BY <1>1, CacheInvariant, PTL

\* An entry that leaves before its time has been of no use for longer than
\* every entry that stays.
THEOREM LeastRecentlyUsedAlwaysGoesFirst == Spec => LeastRecentlyUsedGoesFirst
<1> DEFINE Leaves(k) ==
       \/ \E e \in bucket[k[1]] : e.id = k[2] /\ Expired(e)
       \/ \A l \in Range(order') : UsedSince(k, l) \/ l[2] = nextId
<1>1. CacheInv /\ [Next]_vars => \A k \in Range(order) \ Range(order') : Leaves(k)
  <2> SUFFICES ASSUME CacheInv, [Next]_vars, NEW k \in Range(order) \ Range(order')
               PROVE  Leaves(k)
    OBVIOUS
  <2>1. ASSUME NEW p \in Prompts, NEW s \in Scopes, Lookup(p, s) PROVE Leaves(k)
    <3>1. Range(order') = Range(order) \ Gone(s)
      BY <2>1, OrderAfterGet DEF Lookup, CacheInv
    <3>2. PICK e \in bucket[s] \ Live(s) : k = <<s, e.id>>
      BY <3>1 DEF Gone
    <3>3. e \in bucket[k[1]] /\ e.id = k[2] /\ Expired(e)
      BY <3>2 DEF Live
    <3>. QED
      BY <3>3
  <2>2. ASSUME NEW p \in Prompts, NEW s \in Scopes, Store(p, s) PROVE Leaves(k)
    <3>1. PICK longer, n, out : Evicts(p, s, longer, n, out)
      BY <2>2, PutEvicts DEF Store, CacheInv, Counted
    <3>2. /\ longer = Append(order, <<s, nextId>>) /\ longer \in Seq(Keys)
          /\ Len(longer) = Len(order) + 1
          /\ n \in 0..Len(longer) /\ out = Range(SubSeq(longer, 1, n))
          /\ order' \in Seq(Keys) /\ Len(order') = Len(longer) - n
          /\ \A i \in 1..Len(order') : order'[i] = longer[n + i]
          /\ Range(order') = Range(longer) \ out
          /\ Range(longer) = Range(order) \cup {<<s, nextId>>}
      BY ONLY <3>1 DEF Evicts
    <3>3. PICK m \in Nat : m = Len(longer)
      BY ONLY <3>2
    <3>4. /\ DOMAIN order = 1..(m - 1) /\ \A i \in 1..(m - 1) : longer[i] = order[i]
          /\ longer[m] = <<s, nextId>>
      <4>1. order \in Seq(Keys) /\ <<s, nextId>> \in Keys
        BY StoredBounds DEF CacheInv, Indexed, Keys
      <4>2. m - 1 = Len(order)
        BY ONLY <3>2, <3>3, <4>1
      <4>. QED
        BY ONLY <3>2, <3>3, <4>1, <4>2, AppendProperties
    <3>5. PICK a \in 1..n : k = longer[a]
      <4>1. k \in out
        BY <3>2
      <4>2. PICK first : first = SubSeq(longer, 1, n)
        OBVIOUS
      <4>3. DOMAIN first \subseteq 1..n /\ \A i \in 1..n : first[i] = longer[i]
        <5>1. \A i \in 1..n : longer[i] \in Keys
          BY ONLY <3>2, <3>3
        <5>2. n \in Nat
          BY ONLY <3>2, <3>3
        <5>3. /\ first \in Seq(Keys)
              /\ Len(first) = IF 1 <= n THEN n - 1 + 1 ELSE 0
              /\ \A i \in 1..(n - 1 + 1) : first[i] = longer[1 + i - 1]
          BY <4>2, <5>1, <5>2, SubSeqProperties
        <5>4. n - 1 + 1 = n /\ (~(1 <= n) => n = 0) /\ \A i \in 1..n : 1 + i - 1 = i
          BY ONLY <5>2
        <5>5. DOMAIN first = 1..n
          BY ONLY <5>3, <5>4
        <5>. QED
          BY ONLY <5>3, <5>4, <5>5
      <4>. QED
        BY <3>2, <4>1, <4>2, <4>3 DEF Range
    <3>6. ASSUME NEW l \in Range(order') PROVE UsedSince(k, l) \/ l[2] = nextId
      <4>1. PICK i \in DOMAIN order' : l = order'[i]
        BY DEF Range
      <4>2. DOMAIN order' = 1..(m - n)
        BY <3>2, <3>3
      <4>3. PICK b : b = n + i
        OBVIOUS
      <4>4. b \in 1..m /\ a \in Nat /\ a > 0 /\ a < b /\ l = longer[b]
        BY ONLY <3>2, <3>3, <4>1, <4>2, <4>3, a \in 1..n
      <4>5. CASE b = m
        BY <3>4, <4>4, <4>5
      <4>6. CASE b # m
        <5>1. a \in DOMAIN order /\ b \in DOMAIN order
          <6>1. DOMAIN order = 1..(m - 1)
            BY <3>4
          <6>. QED
            BY ONLY <4>4, <4>6, <6>1, m \in Nat
        <5>2. k = order[a] /\ l = order[b]
          BY <3>4, <3>5, <4>4, <5>1
        <5>3. After(uses, k, l)
          BY <4>4, <5>1, <5>2 DEF CacheInv, Used, ByLastUse
        <5>. QED
          BY <5>3 DEF After, UsedSince
      <4>. QED
        BY <4>5, <4>6
    <3>. QED
      BY <3>6
  <2>3. CASE order' = order
    BY <2>3
  <2>. QED
    BY <2>1, <2>2, <2>3 DEF Next, EmbedderRaises, PutFails, TimePasses, Tick, vars
<1>. QED
  BY <1>1, CacheInvariant, PTL DEF Spec, LeastRecentlyUsedGoesFirst
=============================================================================
