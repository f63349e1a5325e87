------------------------------- MODULE Router -------------------------------
(***************************************************************************)
(* Backend selection in the model gateway (gateway/app/router.py): three   *)
(* filters in a fixed order, then the cheapest of what is left.  Pure      *)
(* operators; RouterFeed and Gateway run them.                             *)
(*                                                                         *)
(* A backend is a record [name, model, ceiling, context, price, ttft,      *)
(* caps, tps]; a pool is a sequence of backends with different names.      *)
(* Prices and throughputs are whole numbers, so that a cost per token is   *)
(* a fraction and two of them compare by cross-multiplication, which is    *)
(* what the code's floats give for figures of this size.                   *)
(***************************************************************************)
EXTENDS Integers, Sequences

\* The backends a gateway may be configured with, and what of a request the
\* router looks at.
Backend == [name : STRING, model : STRING, ceiling : Nat, context : Nat, price : Nat,
            ttft : Nat, caps : SUBSET STRING, tps : Nat]
IsRequest(r) == r.class \in Nat /\ r.caps \subseteq STRING /\ r.budget \in Nat /\ r.tokens \in Nat

\* What route() chooses when it raises NoEligibleBackend.
Refused == [name |-> "refused"]

\* A request's input needs 1.3 times its estimated tokens of context,
\* rounded down: int(est_input_tokens * 1.3).
NeededContext(r) == (13 * r.tokens) \div 10

\* A slip in the second filter: only a backend with exactly the requested
\* capabilities will do.
RejectionUnlessExact(b, r) ==
    IF b.ceiling < r.class THEN "classification"
    ELSE IF r.caps # b.caps THEN "capabilities"
    ELSE IF b.context < NeededContext(r) THEN "context"
    ELSE IF b.ttft > r.budget THEN "latency"
    ELSE "none"

\* The first filter that drops b, in the order of ADR-0005; "none" if b is
\* eligible.
Rejection(b, r) ==
    IF b.ceiling < r.class THEN "classification"
    ELSE IF ~(r.caps \subseteq b.caps) THEN "capabilities"
    ELSE IF b.context < NeededContext(r) THEN "context"
    ELSE IF b.ttft > r.budget THEN "latency"
    ELSE "none"

\* The places in the pool of the backends that pass every filter.
Eligible(r, pool) == {i \in DOMAIN pool : Rejection(pool[i], r) = "none"}

\* A local backend is one that costs nothing by the hour.
Local(b) == b.price = 0

\* cost_per_mtok_milli_usd is not None.
Priced(b) == Local(b) \/ b.tps > 0

\* What _cost_key ranks b by within its tier, as a fraction: the price per
\* generated token where it is known, the price of an hour where it is not.
Rate(b) == IF Priced(b) /\ ~Local(b) THEN <<b.price, b.tps>> ELSE <<b.price, 1>>

Cheaper(f, g) == f[1] * g[2] < g[1] * f[2]

\* Ranking by the hourly price, as the first version did.
KeyLessByHour(a, b) == a.price < b.price \/ (a.price = b.price /\ a.ttft < b.ttft)

\* The order of _cost_key's tuples.
KeyLess(a, b) ==
    \/ Priced(a) /\ ~Priced(b)
    \/ Priced(a) = Priced(b) /\ Cheaper(Rate(a), Rate(b))
    \/ /\ Priced(a) = Priced(b)
       /\ ~Cheaper(Rate(a), Rate(b)) /\ ~Cheaper(Rate(b), Rate(a))
       /\ a.ttft < b.ttft

\* min(in_budget, key=_cost_key) of the places I: the first of the cheapest.
Cheapest(pool, I) ==
    pool[CHOOSE i \in I : \A j \in I : IF j < i THEN KeyLess(pool[i], pool[j])
                                                 ELSE ~KeyLess(pool[j], pool[i])]

\* The first version's rule: cheapest first, refused if that one will not do.
RouteCheapestFirst(r, pool) ==
    LET b == Cheapest(pool, DOMAIN pool)
    IN IF Rejection(b, r) = "none" THEN b ELSE Refused

\* The latency budget as an afterthought: when the cheapest is too slow, the
\* fastest that will do.
RouteFastestInstead(r, pool) ==
    LET able == {i \in DOMAIN pool : Rejection(pool[i], r) \in {"none", "latency"}}
    IN IF Eligible(r, pool) = {} THEN Refused
       ELSE IF Rejection(Cheapest(pool, able), r) = "none" THEN Cheapest(pool, able)
       ELSE pool[CHOOSE i \in Eligible(r, pool) :
                    \A j \in Eligible(r, pool) : pool[i].ttft <= pool[j].ttft]

\* route(req, backends).
Route(r, pool) ==
    IF Eligible(r, pool) = {} THEN Refused ELSE Cheapest(pool, Eligible(r, pool))

\* with_observed_ttft(backends): a backend whose model has a reading gets
\* it, whole milliseconds, and one without keeps what was configured.
\* reading[m] = NoReading when Prometheus has no sample for model m.
NoReading == -1
WithReadingZero(pool, reading) ==
    [i \in DOMAIN pool |-> [pool[i] EXCEPT !.ttft =
        IF reading[pool[i].model] = NoReading THEN 0 ELSE reading[pool[i].model]]]
WithObservedTTFT(pool, reading) ==
    [i \in DOMAIN pool |-> [pool[i] EXCEPT !.ttft =
        IF reading[pool[i].model] = NoReading THEN @ ELSE reading[pool[i].model]]]
=============================================================================
