---------------------------- MODULE GatewayLemmas ---------------------------
(***************************************************************************)
(* What the gateway's parts compute, for every input: the best of a set of *)
(* scored entries, what an OrderedDict holds after keys were popped, and   *)
(* what route() returns: _cost_key orders backends without cycles, so      *)
(* among those that pass the filters there is a first of the cheapest.     *)
(***************************************************************************)
EXTENDS Router, OrderedDict, SequenceTheorems, FiniteSetTheorems, TLAPS

\* A set of natural numbers has a least one.
LEMMA LeastNumber ==
    ASSUME NEW T \in SUBSET Nat, T # {}
    PROVE  \E m \in T : \A k \in T : m <= k
<1> DEFINE Less == {p \in Nat \X Nat : p[1] < p[2]}
<1>1. IsWellFoundedOn(Less, Nat)
  BY NatLessThanWellFounded DEF OpToRel
<1> HIDE DEF Less
<1>2. \E m \in T : \A k \in T : ~(<<k, m>> \in Less)
  BY <1>1, WFMin
<1>3. \A k, m \in T : <<k, m>> \notin Less => m <= k
  BY DEF Less
<1>. QED
  BY <1>2, <1>3

\* Among entries with a score and a rank there is one of the highest score
\* that has the lowest rank of those.
LEMMA BestExists ==
    ASSUME NEW N, N # {}, NEW score \in [N -> 0..100], NEW rank \in [N -> Nat]
    PROVE  \E e \in N : \A f \in N : \/ score[f] < score[e]
                                     \/ score[f] = score[e] /\ rank[e] <= rank[f]
<1> DEFINE Fars == {100 - score[e] : e \in N}
<1>1. Fars \in SUBSET Nat /\ Fars # {}
  OBVIOUS
<1>2. PICK m \in Fars : \A k \in Fars : m <= k
  <2> HIDE DEF Fars
  <2>. QED
    BY <1>1, LeastNumber
<1> DEFINE Ranks == {rank[e] : e \in {f \in N : 100 - score[f] = m}}
<1>3. Ranks \in SUBSET Nat /\ Ranks # {}
  BY <1>2
<1>4. PICK n \in Ranks : \A k \in Ranks : n <= k
  <2> HIDE DEF Ranks
  <2>. QED
    BY <1>3, LeastNumber
<1>5. PICK e \in N : 100 - score[e] = m /\ rank[e] = n
  BY <1>4
<1>6. ASSUME NEW f \in N
      PROVE  \/ score[f] < score[e]
             \/ score[f] = score[e] /\ rank[e] <= rank[f]
  <2>1. 100 - score[e] <= 100 - score[f]
    BY <1>2, <1>5
  <2>2. score[e] \in 0..100 /\ score[f] \in 0..100
    OBVIOUS
  <2>3. CASE score[f] = score[e]
    <3>1. rank[f] \in Ranks
      BY <1>5, <2>3
    <3>. QED
      BY <1>4, <1>5, <2>3, <3>1
  <2>. QED
    BY <2>1, <2>2, <2>3
<1>. QED
  BY <1>6

-----------------------------------------------------------------------------
(* The keys of an OrderedDict *)

\* left is what remains of the first n keys without those in gone: place
\* says where each of it comes from.
Remains(left, keys, n, gone, place) ==
    /\ place \in [1..Len(left) -> 1..n]
    /\ \A i \in 1..Len(left) : left[i] = keys[place[i]] /\ left[i] \notin gone
    /\ \A i, j \in 1..Len(left) : i < j => place[i] < place[j]
    /\ \A j \in 1..n : keys[j] \notin gone => \E i \in 1..Len(left) : place[i] = j

\* The recursion in Without, as an equation on functions.
PopsUpTo(f, keys, gone, n) ==
    f = [i \in 0..n |-> IF i = 0 THEN <<>>
                        ELSE IF keys[i] \in gone THEN f[i - 1]
                        ELSE Append(f[i - 1], keys[i])]

\* The recursion has a solution up to every place.
LEMMA PopsExist ==
    ASSUME NEW keys, NEW gone, NEW n \in Nat
    PROVE  \E f : PopsUpTo(f, keys, gone, n)
<1> DEFINE Bad == {m \in Nat : ~\E f : PopsUpTo(f, keys, gone, m)}
<1>1. SUFFICES ASSUME Bad # {} PROVE FALSE
  OBVIOUS
<1>2. PICK m \in Bad : \A k \in Bad : m <= k
  <2>1. Bad \in SUBSET Nat
    OBVIOUS
  <2> HIDE DEF Bad
  <2>. QED
    BY <1>1, <2>1, LeastNumber
<1>3. m \in Nat
  OBVIOUS
<1>4. CASE m = 0
  <2> DEFINE f == [i \in 0..0 |-> <<>>]
  <2>1. PopsUpTo(f, keys, gone, 0)
    BY DEF PopsUpTo
  <2>. QED
    BY <1>4, <2>1
<1>5. CASE m > 0
  <2>1. m - 1 \in Nat /\ m - 1 \notin Bad
    BY <1>2, <1>3, <1>5
  <2>2. PICK g : PopsUpTo(g, keys, gone, m - 1)
    BY <2>1
  <2> DEFINE f == [i \in 0..m |-> IF i = m
                                  THEN IF keys[m] \in gone THEN g[m - 1]
                                       ELSE Append(g[m - 1], keys[m])
                                  ELSE g[i]]
  <2>3. ASSUME NEW i \in 0..m
        PROVE  f[i] = IF i = 0 THEN <<>>
                      ELSE IF keys[i] \in gone THEN f[i - 1]
                      ELSE Append(f[i - 1], keys[i])
    <3>1. CASE i = m
      <4>1. i - 1 \in 0..m /\ i - 1 # m /\ i # 0
        BY <1>3, <1>5, <3>1
      <4>. QED
        BY <3>1, <4>1
    <3>2. CASE i # m
      <4>1. i \in 0..(m - 1) /\ (i # 0 => i - 1 \in 0..m /\ i - 1 # m)
        BY <1>3, <1>5, <3>2
      <4>2. g[i] = IF i = 0 THEN <<>>
                   ELSE IF keys[i] \in gone THEN g[i - 1]
                   ELSE Append(g[i - 1], keys[i])
        BY <2>2, <4>1 DEF PopsUpTo
      <4>. QED
        BY <3>2, <4>1, <4>2
    <3>. QED
      BY <3>1, <3>2
  <2>4. f = [i \in 0..m |-> f[i]]
    OBVIOUS
  <2> HIDE DEF f
  <2>5. PopsUpTo(f, keys, gone, m)
    BY <2>3, <2>4 DEF PopsUpTo
  <2>. QED
    BY <2>5
<1>. QED
  BY <1>3, <1>4, <1>5

\* What pop leaves: the other keys, in the order they were in.
LEMMA WithoutRemains ==
    ASSUME NEW S, NEW keys \in Seq(S), NEW gone
    PROVE  /\ Without(keys, gone) \in Seq(S)
           /\ \E place : Remains(Without(keys, gone), keys, Len(keys), gone, place)
<1>0. Len(keys) \in Nat /\ \A i \in 1..Len(keys) : keys[i] \in S
  OBVIOUS
<1>1. PICK f : /\ PopsUpTo(f, keys, gone, Len(keys))
               /\ Without(keys, gone) = f[Len(keys)]
  <2> DEFINE f == CHOOSE f : PopsUpTo(f, keys, gone, Len(keys))
  <2>1. PopsUpTo(f, keys, gone, Len(keys))
    BY <1>0, PopsExist
  <2>2. Without(keys, gone) = f[Len(keys)]
    BY DEF Without, PopsUpTo
  <2> HIDE DEF f
  <2>. QED
    BY <2>1, <2>2
<1> DEFINE Good(m) == f[m] \in Seq(S) /\ \E place : Remains(f[m], keys, m, gone, place)
           Bad == {m \in 0..Len(keys) : ~Good(m)}
<1>2. SUFFICES Bad = {}
  BY <1>0, <1>1
<1>3. SUFFICES ASSUME Bad # {} PROVE FALSE
  OBVIOUS
<1>4. PICK m \in Bad : \A k \in Bad : m <= k
  <2>1. Bad \in SUBSET Nat
    BY <1>0
  <2> HIDE DEF Bad
  <2>. QED
    BY <1>3, <2>1, LeastNumber
<1>5. m \in 0..Len(keys) /\ ~Good(m)
  OBVIOUS
<1>6. f[m] = IF m = 0 THEN <<>>
             ELSE IF keys[m] \in gone THEN f[m - 1]
             ELSE Append(f[m - 1], keys[m])
  BY <1>1, <1>5 DEF PopsUpTo
<1>7. CASE m = 0
  <2> DEFINE none == [i \in 1..0 |-> 1]
  <2>1. f[m] = <<>>
    BY <1>6, <1>7
  <2>2. Remains(<<>>, keys, 0, gone, none)
    BY DEF Remains
  <2> HIDE DEF none
  <2>. QED
    BY <1>5, <1>7, <2>1, <2>2
<1>8. CASE m > 0
  <2>1. m - 1 \in 0..Len(keys) /\ m \in 1..Len(keys) /\ m \in Nat
    BY <1>0, <1>5, <1>8
  <2>2. Good(m - 1)
    <3>1. m - 1 \notin Bad
      BY <1>4, <1>5, <2>1
    <3>. QED
      BY <2>1, <3>1
  <2>3. PICK place : Remains(f[m - 1], keys, m - 1, gone, place)
    BY <2>2
  <2>4. PICK left \in Seq(S) : left = f[m - 1]
    BY <2>2
  <2>5. Len(left) \in Nat
    OBVIOUS
  <2>6. CASE keys[m] \in gone
    <3>1. f[m] = left
      BY <1>6, <1>8, <2>4, <2>6
    <3>2. Remains(left, keys, m, gone, place)
      BY <2>1, <2>3, <2>4, <2>6 DEF Remains
    <3>. QED
      BY <1>5, <2>4, <3>1, <3>2
  <2>7. CASE keys[m] \notin gone
    <3> DEFINE longer == Append(left, keys[m])
               further == [i \in 1..(Len(left) + 1) |-> IF i = Len(left) + 1 THEN m ELSE place[i]]
    <3>1. f[m] = longer
      BY <1>6, <1>8, <2>4, <2>7
    <3>2. /\ longer \in Seq(S) /\ Len(longer) = Len(left) + 1
          /\ longer[Len(left) + 1] = keys[m]
          /\ \A i \in 1..Len(left) : longer[i] = left[i]
      BY <1>0, <2>1, AppendProperties
    <3> HIDE DEF longer
    <3>3. /\ place \in [1..Len(left) -> 1..(m - 1)]
          /\ \A i \in 1..Len(left) : left[i] = keys[place[i]] /\ left[i] \notin gone
          /\ \A i, j \in 1..Len(left) : i < j => place[i] < place[j]
          /\ \A j \in 1..(m - 1) : keys[j] \notin gone => \E i \in 1..Len(left) : place[i] = j
      BY <2>3, <2>4 DEF Remains
    <3>4. /\ further \in [1..Len(longer) -> 1..m]
          /\ further[Len(left) + 1] = m
          /\ \A i \in 1..Len(left) : further[i] = place[i]
      BY <2>1, <2>5, <3>2, <3>3
    <3> HIDE DEF further
    <3>5. \A i \in 1..Len(longer) : i \in 1..Len(left) \/ i = Len(left) + 1
      BY <2>5, <3>2
    <3>6. \A i \in 1..Len(longer) : longer[i] = keys[further[i]] /\ longer[i] \notin gone
      BY <2>7, <3>2, <3>3, <3>4, <3>5
    <3>7. ASSUME NEW i \in 1..Len(longer), NEW j \in 1..Len(longer), i < j
          PROVE  further[i] < further[j]
      <4>1. i \in 1..Len(left)
        BY <2>5, <3>2, <3>7
      <4>2. place[i] \in 1..(m - 1)
        BY <3>3, <4>1
      <4>3. CASE j = Len(left) + 1
        BY <2>1, <3>4, <4>1, <4>2, <4>3
      <4>4. CASE j \in 1..Len(left)
        BY <3>3, <3>4, <3>7, <4>1, <4>4
      <4>. QED
        BY <3>5, <4>3, <4>4
    <3>8. ASSUME NEW j \in 1..m, keys[j] \notin gone
          PROVE  \E i \in 1..Len(longer) : further[i] = j
      <4>1. CASE j = m
        BY <2>5, <3>2, <3>4, <4>1
      <4>2. CASE j \in 1..(m - 1)
        <5>1. PICK i \in 1..Len(left) : place[i] = j
          BY <3>3, <3>8, <4>2
        <5>2. i \in 1..Len(longer)
          BY <2>5, <3>2
        <5>. QED
          BY <3>4, <5>1, <5>2
      <4>. QED
        BY <2>1, <4>1, <4>2
    <3>9. Remains(longer, keys, m, gone, further)
      BY <3>4, <3>6, <3>7, <3>8 DEF Remains
    <3>. QED
      BY <1>5, <3>1, <3>2, <3>9
  <2>. QED
    BY <2>6, <2>7
<1>. QED
  BY <1>5, <1>7, <1>8

\* Popping keys leaves each other key once.
LEMMA WithoutKeys ==
    ASSUME NEW S, NEW keys \in Seq(S), NEW gone
    PROVE  /\ Without(keys, gone) \in Seq(S)
           /\ Range(Without(keys, gone)) = Range(keys) \ gone
           /\ IsInjective(keys) => IsInjective(Without(keys, gone))
<1>0. PICK left \in Seq(S) : left = Without(keys, gone)
  BY WithoutRemains
<1>1. PICK place : Remains(left, keys, Len(keys), gone, place)
  BY <1>0, WithoutRemains
<1>2. /\ place \in [1..Len(left) -> 1..Len(keys)]
      /\ \A i \in 1..Len(left) : left[i] = keys[place[i]] /\ left[i] \notin gone
      /\ \A i, j \in 1..Len(left) : i < j => place[i] < place[j]
      /\ \A j \in 1..Len(keys) : keys[j] \notin gone => \E i \in 1..Len(left) : place[i] = j
  BY <1>1 DEF Remains
<1>3. DOMAIN keys = 1..Len(keys) /\ DOMAIN left = 1..Len(left)
  OBVIOUS
<1>4. Range(left) = Range(keys) \ gone
  BY <1>2, <1>3 DEF Range
<1>5. ASSUME IsInjective(keys), NEW i \in 1..Len(left), NEW j \in 1..Len(left),
             left[i] = left[j]
      PROVE  i = j
  <2>1. place[i] = place[j] /\ place[i] \in 1..Len(keys)
    BY <1>2, <1>3, <1>5 DEF IsInjective
  <2>2. ~(place[i] < place[j]) /\ ~(place[j] < place[i])
    BY <2>1
  <2>. QED
    BY <1>2, <2>2
<1>. QED
  BY <1>0, <1>3, <1>4, <1>5 DEF IsInjective

\* As many keys as places.
LEMMA LengthIsSize ==
    ASSUME NEW S, NEW keys \in Seq(S), IsInjective(keys)
    PROVE  IsFiniteSet(Range(keys)) /\ Cardinality(Range(keys)) = Len(keys)
<1>1. Len(keys) \in Nat /\ DOMAIN keys = 1..Len(keys)
  OBVIOUS
<1>2. keys \in [1..Len(keys) -> Range(keys)]
  BY <1>1 DEF Range
<1>3. keys \in Bijection(1..Len(keys), Range(keys))
  BY <1>1, <1>2 DEF Bijection, Injection, Surjection, Range
<1>4. ExistsBijection(1..Len(keys), Range(keys))
  BY <1>3 DEF ExistsBijection
<1>. QED
  BY <1>1, <1>4, FS_CountingElements, FS_NatBijection

\* A new key at the end.
LEMMA AppendedKeys ==
    ASSUME NEW S, NEW keys \in Seq(S), NEW k \in S, k \notin Range(keys)
    PROVE  /\ Append(keys, k) \in Seq(S)
           /\ Len(Append(keys, k)) = Len(keys) + 1
           /\ Range(Append(keys, k)) = Range(keys) \cup {k}
           /\ IsInjective(keys) => IsInjective(Append(keys, k))
<1> DEFINE longer == Append(keys, k)
<1>1. /\ longer \in Seq(S) /\ Len(longer) = Len(keys) + 1
      /\ longer[Len(keys) + 1] = k
      /\ \A i \in 1..Len(keys) : longer[i] = keys[i]
  BY AppendProperties
<1> HIDE DEF longer
<1>2. /\ DOMAIN keys = 1..Len(keys) /\ Len(keys) \in Nat
      /\ DOMAIN longer = 1..(Len(keys) + 1)
  BY <1>1
<1>3. \A i \in DOMAIN longer : i \in DOMAIN keys \/ i = Len(keys) + 1
  BY <1>2
<1>4. \A i \in DOMAIN keys : i \in DOMAIN longer /\ longer[i] = keys[i] /\ keys[i] \in Range(keys)
  BY <1>1, <1>2 DEF Range
<1>5. Len(keys) + 1 \in DOMAIN longer
  BY <1>2
<1>6. Range(longer) = Range(keys) \cup {k}
  BY <1>1, <1>3, <1>4, <1>5 DEF Range
<1>7. IsInjective(keys) => IsInjective(longer)
  BY <1>1, <1>3, <1>4 DEF IsInjective
<1>. QED
  BY <1>1, <1>6, <1>7 DEF longer

\* Moving a key to the end keeps all of them.
LEMMA MovedKeys ==
    ASSUME NEW S, NEW keys \in Seq(S), NEW k \in Range(keys), IsInjective(keys)
    PROVE  /\ MovedToEnd(keys, k) \in Seq(S)
           /\ Range(MovedToEnd(keys, k)) = Range(keys)
           /\ IsInjective(MovedToEnd(keys, k))
           /\ Len(MovedToEnd(keys, k)) = Len(keys)
<1>1. k \in S
  BY RangeOfSeq
<1>2. /\ Without(keys, {k}) \in Seq(S)
      /\ Range(Without(keys, {k})) = Range(keys) \ {k}
      /\ IsInjective(Without(keys, {k}))
  BY WithoutKeys
<1>3. PICK left \in Seq(S) : left = Without(keys, {k})
  BY <1>2
<1>4. k \notin Range(left) /\ IsInjective(left) /\ Range(left) \cup {k} = Range(keys)
  BY <1>2, <1>3
<1>5. MovedToEnd(keys, k) = Append(left, k)
  BY <1>3 DEF MovedToEnd
<1>6. /\ Append(left, k) \in Seq(S)
      /\ Range(Append(left, k)) = Range(left) \cup {k}
      /\ IsInjective(Append(left, k))
  BY <1>1, <1>4, AppendedKeys
<1>7. /\ MovedToEnd(keys, k) \in Seq(S)
      /\ Range(MovedToEnd(keys, k)) = Range(keys)
      /\ IsInjective(MovedToEnd(keys, k))
  BY ONLY <1>4, <1>5, <1>6
<1>. QED
  BY <1>7, LengthIsSize

\* Dropping the first n keys.
LEMMA DroppedKeys ==
    ASSUME NEW S, NEW keys \in Seq(S), NEW n \in 0..Len(keys), IsInjective(keys)
    PROVE  LET rest == SubSeq(keys, n + 1, Len(keys))
           IN  /\ rest \in Seq(S) /\ Len(rest) = Len(keys) - n
               /\ \A i \in 1..(Len(keys) - n) : rest[i] = keys[n + i]
               /\ Range(rest) = Range(keys) \ Range(SubSeq(keys, 1, n))
               /\ IsInjective(rest)
<1>1. PICK m \in Nat : m = Len(keys)
  OBVIOUS
<1>2. n \in Nat /\ n <= m
  BY <1>1
<1>3. DOMAIN keys = 1..m /\ \A i \in 1..m : keys[i] \in S
  BY <1>1
<1>4. PICK rest : rest = SubSeq(keys, n + 1, m)
  OBVIOUS
<1>5. PICK first : first = SubSeq(keys, 1, n)
  OBVIOUS
<1>6. /\ rest \in Seq(S) /\ Len(rest) = m - n
      /\ \A i \in 1..(m - n) : rest[i] = keys[n + i]
  <2>1. \A i \in (n + 1)..m : keys[i] \in S
    BY <1>2, <1>3
  <2>2. /\ rest \in Seq(S)
        /\ Len(rest) = IF n + 1 <= m THEN m - (n + 1) + 1 ELSE 0
        /\ \A i \in 1..(m - (n + 1) + 1) : rest[i] = keys[n + 1 + i - 1]
    BY <1>2, <1>4, <2>1, SubSeqProperties
  <2>3. m - (n + 1) + 1 = m - n /\ (~(n + 1 <= m) => m - n = 0)
    BY ONLY <1>2, m \in Nat
  <2>4. \A i \in 1..(m - n) : n + 1 + i - 1 = n + i
    BY ONLY <1>2, m \in Nat
  <2>. QED
    BY ONLY <2>2, <2>3, <2>4
<1>7. /\ first \in Seq(S) /\ Len(first) = n
      /\ \A i \in 1..n : first[i] = keys[i]
  <2>1. \A i \in 1..n : keys[i] \in S
    BY <1>2, <1>3
  <2>2. /\ first \in Seq(S)
        /\ Len(first) = IF 1 <= n THEN n - 1 + 1 ELSE 0
        /\ \A i \in 1..(n - 1 + 1) : first[i] = keys[1 + i - 1]
    BY <1>2, <1>5, <2>1, SubSeqProperties
  <2>3. n - 1 + 1 = n /\ (~(1 <= n) => n = 0)
    BY ONLY <1>2
  <2>4. \A i \in 1..n : 1 + i - 1 = i
    BY ONLY <1>2
  <2>. QED
    BY ONLY <2>2, <2>3, <2>4
<1>8. DOMAIN rest = 1..(m - n) /\ DOMAIN first = 1..n
  BY <1>6, <1>7
<1>9. /\ Range(rest) = {rest[i] : i \in 1..(m - n)}
      /\ Range(first) = {first[j] : j \in 1..n}
      /\ Range(keys) = {keys[j] : j \in 1..m}
  BY <1>3, <1>8 DEF Range
<1>10. \A i, j \in 1..m : keys[i] = keys[j] => i = j
  BY <1>3 DEF IsInjective
<1>11. /\ \A i \in 1..(m - n) : n + i \in 1..m /\ n + i \notin 1..n
       /\ \A j \in 1..m : j \in 1..n \/ (j - n \in 1..(m - n) /\ n + (j - n) = j)
       /\ \A j \in 1..n : j \in 1..m
       /\ \A i, j \in 1..(m - n) : n + i = n + j => i = j
  BY ONLY <1>2, m \in Nat
<1>12. Range(rest) = Range(keys) \ Range(first)
  <2>1. ASSUME NEW x \in Range(rest) PROVE x \in Range(keys) /\ x \notin Range(first)
    <3>1. PICK i \in 1..(m - n) : x = keys[n + i]
      BY ONLY <1>6, <1>9, <2>1
    <3>2. ASSUME NEW j \in 1..n, x = first[j] PROVE FALSE
      <4>1. keys[n + i] = keys[j] /\ n + i \in 1..m /\ j \in 1..m /\ n + i # j
        BY ONLY <1>7, <1>11, <3>1, <3>2
      <4>. QED
        BY ONLY <1>10, <4>1
    <3>. QED
      BY ONLY <1>9, <1>11, <3>1, <3>2
  <2>2. ASSUME NEW x \in Range(keys), x \notin Range(first) PROVE x \in Range(rest)
    <3>1. PICK j \in 1..m : x = keys[j]
      BY ONLY <1>9, <2>2
    <3>2. j \notin 1..n
      BY ONLY <1>7, <1>9, <2>2, <3>1
    <3>3. j - n \in 1..(m - n) /\ n + (j - n) = j
      BY ONLY <1>11, <3>2
    <3>4. rest[j - n] = keys[j]
      BY ONLY <1>6, <3>3
    <3>. QED
      BY ONLY <1>9, <3>1, <3>3, <3>4
  <2>. QED
    BY <2>1, <2>2
<1>13. IsInjective(rest)
  BY ONLY <1>6, <1>8, <1>10, <1>11 DEF IsInjective
<1>. QED
  BY ONLY <1>1, <1>4, <1>5, <1>6, <1>12, <1>13
-----------------------------------------------------------------------------
(* The router *)

\* Fractions with positive denominators.
Fraction == Nat \X (Nat \ {0})

\* A backend's rate is one of them.
LEMMA RateIsFraction ==
    ASSUME NEW b \in Backend
    PROVE  Rate(b) \in Fraction
BY DEF Rate, Fraction, Priced, Local, Backend

\* "Not dearer" is transitive: f <= g and g <= h give f <= h.
LEMMA CheaperTransitive ==
    ASSUME NEW f \in Fraction, NEW g \in Fraction, NEW h \in Fraction,
           ~Cheaper(g, f), ~Cheaper(h, g)
    PROVE  ~Cheaper(h, f)
<1> DEFINE a == f[1]  b == f[2]  c == g[1]  d == g[2]  p == h[1]  q == h[2]
<1>0. /\ a \in Nat /\ b \in Nat /\ b > 0
      /\ c \in Nat /\ d \in Nat /\ d > 0
      /\ p \in Nat /\ q \in Nat /\ q > 0
  BY DEF Fraction
<1>1. a * d <= c * b
  BY <1>0 DEF Cheaper
<1>2. c * q <= p * d
  BY <1>0 DEF Cheaper
<1> HIDE DEF a, b, c, d, p, q
<1>3. (a * d) * q <= (c * b) * q
  BY <1>0, <1>1
<1>4. (c * q) * b <= (p * d) * b
  BY <1>0, <1>2
<1>5. d * (a * q) <= d * (p * b)
  BY <1>0, <1>3, <1>4
<1>6. a * q <= p * b
  BY <1>0, <1>5
<1>. QED
  BY <1>0, <1>6 DEF Cheaper, a, b, p, q

\* Of two different rates one is the cheaper, and never both.
LEMMA CheaperAsymmetric ==
    ASSUME NEW f \in Fraction, NEW g \in Fraction, Cheaper(f, g)
    PROVE  ~Cheaper(g, f)
BY DEF Cheaper, Fraction

\* _cost_key ranks backends: no two are each before the other.
LEMMA KeyLessAsymmetric ==
    ASSUME NEW a \in Backend, NEW b \in Backend, KeyLess(a, b)
    PROVE  ~KeyLess(b, a)
BY RateIsFraction, CheaperAsymmetric DEF KeyLess, Backend, Priced, Local

\* And it ranks them without cycles: a backend not behind b, which is not
\* behind c, is not behind c.
LEMMA KeyLessTransitive ==
    ASSUME NEW a \in Backend, NEW b \in Backend, NEW c \in Backend,
           ~KeyLess(b, a), ~KeyLess(c, b)
    PROVE  ~KeyLess(c, a)
<1>1. /\ Rate(a) \in Fraction /\ Rate(b) \in Fraction /\ Rate(c) \in Fraction
      /\ a.ttft \in Nat /\ b.ttft \in Nat /\ c.ttft \in Nat
  BY RateIsFraction DEF Backend
<1>2. Cheaper(Rate(c), Rate(a)) => Cheaper(Rate(c), Rate(b)) \/ Cheaper(Rate(b), Rate(a))
  BY <1>1, CheaperTransitive
<1>3. /\ Cheaper(Rate(b), Rate(c)) => Cheaper(Rate(b), Rate(a)) \/ Cheaper(Rate(a), Rate(c))
      /\ Cheaper(Rate(a), Rate(b)) => Cheaper(Rate(a), Rate(c)) \/ Cheaper(Rate(c), Rate(b))
  BY <1>1, CheaperTransitive
<1>. QED
  BY <1>1, <1>2, <1>3, CheaperAsymmetric DEF KeyLess, Priced, Local
-----------------------------------------------------------------------------
\* Place i is what min() returns over the places I of the pool.
First(pool, i, I) ==
    \A j \in I : IF j < i THEN KeyLess(pool[i], pool[j]) ELSE ~KeyLess(pool[j], pool[i])

\* min() has a first of the cheapest to return: the last place of I either
\* goes before the first of the others or leaves it where it is.
LEMMA CheapestExists ==
    ASSUME NEW pool \in Seq(Backend), NEW I \in SUBSET DOMAIN pool, I # {}
    PROVE  \E i \in I : First(pool, i, I)
<1> DEFINE HasNone(J) == J # {} /\ \A i \in J : ~First(pool, i, J)
           Bad == {n \in Nat : \E J \in SUBSET DOMAIN pool : J \subseteq 1..n /\ HasNone(J)}
<1>1. DOMAIN pool = 1..Len(pool) /\ Len(pool) \in Nat /\ \A i \in DOMAIN pool : pool[i] \in Backend
  OBVIOUS
<1>2. Bad = {}
  <2>1. SUFFICES ASSUME Bad # {} PROVE FALSE
    OBVIOUS
  <2>2. PICK n \in Bad : \A k \in Bad : n <= k
    <3>1. Bad \in SUBSET Nat
      OBVIOUS
    <3> HIDE DEF Bad
    <3>. QED
      BY <2>1, <3>1, LeastNumber
  <2>3. n \in Nat
    OBVIOUS
  <2>4. PICK J \in SUBSET DOMAIN pool : J \subseteq 1..n /\ HasNone(J)
    OBVIOUS
  <2>5. n > 0 /\ n \in J
    <3>1. n > 0
      BY <2>3, <2>4
    <3>2. CASE n \notin J
      <4>1. J \subseteq 1..(n - 1)
        BY <2>3, <2>4, <3>2
      <4>2. n - 1 \in Bad
        BY <2>3, <2>4, <3>1, <4>1
      <4>. QED
        BY <2>2, <2>3, <4>2
    <3>. QED
      BY <3>1, <3>2
  <2> DEFINE K == J \ {n}
  <2>6. K \subseteq 1..(n - 1) /\ K \in SUBSET DOMAIN pool
    BY <2>3, <2>4
  <2>7. CASE K = {}
    <3>1. J = {n}
      BY <2>5, <2>7
    <3>2. ~KeyLess(pool[n], pool[n])
      BY <1>1, <2>4, <2>5, KeyLessAsymmetric
    <3>3. First(pool, n, J)
      BY <2>3, <3>1, <3>2 DEF First
    <3>. QED
      BY <2>4, <2>5, <3>3
  <2>8. CASE K # {}
    <3>1. PICK m \in K : First(pool, m, K)
      <4>1. ~HasNone(K)
        <5>1. n - 1 \in Nat
          BY <2>3, <2>5
        <5>2. n - 1 \notin Bad
          BY <2>2, <2>3, <5>1
        <5>. QED
          BY <2>6, <5>1, <5>2
      <4>. QED
        BY <2>8, <4>1
    <3>2. /\ \A j \in K : j \in Nat /\ j < n /\ pool[j] \in Backend
          /\ pool[n] \in Backend
      BY <1>1, <2>3, <2>4, <2>5, <2>6
    <3>3. \A j \in K : ~KeyLess(pool[j], pool[m])
      BY <3>1, <3>2, KeyLessAsymmetric DEF First
    <3>4. CASE KeyLess(pool[n], pool[m])
      <4>1. \A j \in K : KeyLess(pool[n], pool[j])
        BY <3>2, <3>3, <3>4, KeyLessTransitive
      <4>2. ~KeyLess(pool[n], pool[n])
        BY <3>2, KeyLessAsymmetric
      <4>3. First(pool, n, J)
        BY <2>3, <3>2, <4>1, <4>2 DEF First
      <4>. QED
        BY <2>4, <2>5, <4>3
    <3>5. CASE ~KeyLess(pool[n], pool[m])
      <4>1. First(pool, m, J)
        BY <2>3, <3>1, <3>2, <3>5 DEF First
      <4>. QED
        BY <2>4, <4>1
    <3>. QED
      BY <3>4, <3>5
  <2>. QED
    BY <2>7, <2>8
<1>3. I \subseteq 1..Len(pool)
  BY <1>1
<1>4. ~HasNone(I)
  BY <1>1, <1>2, <1>3
<1>. QED
  BY <1>4

\* What route() returns: a backend that passes every filter and that no
\* other such backend ranks before; it refuses only if there is none.
LEMMA RouteChooses ==
    ASSUME NEW pool \in Seq(Backend), NEW r
    PROVE  /\ Route(r, pool) = Refused <=> Eligible(r, pool) = {}
           /\ Eligible(r, pool) # {} =>
                 \E i \in Eligible(r, pool) :
                    /\ Route(r, pool) = pool[i]
                    /\ First(pool, i, Eligible(r, pool))
                    /\ \A j \in Eligible(r, pool) : ~KeyLess(pool[j], pool[i])
<1>1. /\ Eligible(r, pool) \in SUBSET DOMAIN pool
      /\ \A i \in DOMAIN pool : i \in Nat /\ pool[i] \in Backend
  BY DEF Eligible
<1>2. CASE Eligible(r, pool) = {}
  BY <1>2 DEF Route
<1>3. CASE Eligible(r, pool) # {}
  <2> DEFINE i == CHOOSE i \in Eligible(r, pool) : First(pool, i, Eligible(r, pool))
  <2>1. i \in Eligible(r, pool) /\ First(pool, i, Eligible(r, pool))
    BY <1>1, <1>3, CheapestExists
  <2>2. Route(r, pool) = pool[i]
    BY <1>3 DEF Route, Cheapest, First
  <2> HIDE DEF i
  <2>3. \A j \in Eligible(r, pool) : ~KeyLess(pool[j], pool[i])
    BY <1>1, <2>1, KeyLessAsymmetric DEF First
  <2>4. pool[i] # Refused
    BY <1>1, <2>1 DEF Refused, Backend
  <2>. QED
    BY <1>3, <2>1, <2>2, <2>3, <2>4
<1>. QED
  BY <1>2, <1>3

\* There is one first place.
LEMMA OneFirst ==
    ASSUME NEW pool, NEW I \in SUBSET Nat, NEW i \in I, NEW k \in I,
           First(pool, i, I), First(pool, k, I)
    PROVE  i = k
<1>1. ~(i < k)
  BY DEF First
<1>2. ~(k < i)
  BY DEF First
<1>. QED
  BY <1>1, <1>2

\* A pool that has lost other backends than the one chosen gives the same
\* choice: the place of the first of the cheapest moves with the places
\* before it.
LEMMA RouteIgnoresLosers ==
    ASSUME NEW pool \in Seq(Backend), NEW r, NEW losers,
           Route(r, pool) # Refused, Route(r, pool) \notin losers
    PROVE  Route(r, Without(pool, losers)) = Route(r, pool)
<1>0. PICK left \in Seq(Backend) : left = Without(pool, losers)
  BY WithoutRemains
<1>1. PICK place : Remains(left, pool, Len(pool), losers, place)
  BY <1>0, WithoutRemains
<1>2. PICK m \in Nat, n \in Nat : m = Len(pool) /\ n = Len(left)
  OBVIOUS
<1>3. /\ DOMAIN pool = 1..m /\ DOMAIN left = 1..n
      /\ place \in [1..n -> 1..m]
      /\ \A a \in 1..n : left[a] = pool[place[a]]
      /\ \A a, b \in 1..n : a < b => place[a] < place[b]
      /\ \A j \in 1..m : pool[j] \notin losers => \E a \in 1..n : place[a] = j
  BY <1>1, <1>2 DEF Remains
<1>4. PICK E, F : E = Eligible(r, pool) /\ F = Eligible(r, left)
  OBVIOUS
<1>5. /\ E \in SUBSET (1..m) /\ F \in SUBSET (1..n)
      /\ \A a \in 1..n : a \in F <=> place[a] \in E
  BY <1>3, <1>4 DEF Eligible
<1>6. PICK i \in E : Route(r, pool) = pool[i] /\ First(pool, i, E)
  BY <1>4, RouteChooses
<1>7. PICK a \in 1..n : place[a] = i
  BY <1>3, <1>5, <1>6
<1>8. a \in F
  BY <1>5, <1>7
<1>9. First(left, a, F)
  <2>1. ASSUME NEW b \in F
        PROVE  IF b < a THEN KeyLess(left[a], left[b]) ELSE ~KeyLess(left[b], left[a])
    <3>1. /\ b \in 1..n /\ place[b] \in E /\ place[b] \in 1..m
          /\ left[a] = pool[i] /\ left[b] = pool[place[b]]
      BY <1>3, <1>5, <1>7
    <3>2. CASE b < a
      <4>1. place[b] < i
        BY <1>3, <1>7, <3>1, <3>2
      <4>. QED
        BY <1>6, <3>1, <3>2, <4>1 DEF First
    <3>3. CASE ~(b < a)
      <4>1. ~(place[b] < i)
        BY <1>3, <1>7, <3>1, <3>3
      <4>. QED
        BY <1>6, <3>1, <3>3, <4>1 DEF First
    <3>. QED
      BY <3>2, <3>3
  <2>. QED
    BY <2>1 DEF First
<1>10. PICK k \in F : Route(r, left) = left[k] /\ First(left, k, F)
  BY <1>4, <1>8, RouteChooses
<1>11. k = a
  <2>1. F \in SUBSET Nat
    BY <1>5
  <2>. QED
    BY <1>8, <1>9, <1>10, <2>1, OneFirst
<1>. QED
  BY <1>0, <1>3, <1>6, <1>7, <1>10, <1>11
=============================================================================
