--------------------------- MODULE BucketedWindow ---------------------------
(***************************************************************************)
(* The bucketed sliding window of one key: the window is cut into buckets, *)
(* and the entry counts the units admitted in each.                        *)
(***************************************************************************)
EXTENDS LimiterCalls

Limit == Rate

\* A bucket is a whole number of clock units, and never none.
BucketSize == IF Window \div BucketCount = 0 THEN 1 ELSE Window \div BucketCount
Indexes == 0 .. MaxTime \div BucketSize

VARIABLES
  buckets,  \* the state of the key; a bucket that is not in the map counts 0
  within    \* history: units admitted at times from s to t

vars == <<calls, buckets, within>>

Init ==
  /\ CallsInit
  /\ buckets = [b \in Indexes |-> 0]
  /\ within = [s \in Times |-> [t \in Times |-> 0]]

---------------------------------------------------------------------------

BucketIndex(t) == t \div BucketSize
BucketExpires(b) == b * BucketSize + Window

\* pruneBuckets deletes what is too old, and also what is newer than the
\* bucket of this call.
PrunesOneTooMany(b, current) == b > current - BucketCount + 1 /\ b <= current
Kept(b, current) == b >= current - BucketCount + 1 /\ b <= current
Prune(counts, now) ==
  [b \in Indexes |-> IF Kept(b, BucketIndex(now)) THEN counts[b] ELSE 0]

\* What the buckets count together, unit by unit.
Units(counts) == {u \in Indexes \X (1 .. Limit) : u[2] <= counts[u[1]]}
Total(counts) == Cardinality(Units(counts))

IgnoresSize(counts, now, n) == 0 < Limit - Total(Prune(counts, now))
Allows(counts, now, n) == n <= Limit - Total(Prune(counts, now))

\* RetryAfter of a refusal: until the oldest bucket expires.
RetriesTooSoon(counts, now) == BucketSize
RetryAfter(counts, now) ==
  LET left == Prune(counts, now)
      oldest == Min({BucketIndex(now)} \cup {b \in Indexes : left[b] > 0})
  IN Max({0, BucketExpires(oldest) - now})

\* allowN under the lock of the key's shard: a refusal prunes as well.
AllowN(c, n) ==
  LET now == stamp[c]
      left == Prune(buckets, now)
  IN /\ Apply(c)
     /\ \/ /\ Allows(buckets, now, n)
           /\ buckets' = [left EXCEPT ![BucketIndex(now)] = @ + n]
           /\ within' = [s \in Times |-> [t \in Times |->
                IF s <= now /\ now <= t THEN within[s][t] + n ELSE within[s][t]]]
        \/ /\ ~Allows(buckets, now, n)
           /\ buckets' = left
           /\ UNCHANGED within

\* At time t the entry is as good as a new one.
Settled(t) == Total(Prune(buckets, t)) = 0

Forget ==
  /\ Delete(\A t \in Coming : Settled(t))
  /\ buckets' = [b \in Indexes |-> 0]
  /\ UNCHANGED within

Next ==
  \/ Forget
  \/ \E c \in Callers, n \in Sizes : AllowN(c, n)
  \/ /\ (\E c \in Callers : ReadClock(c)) \/ Tick
     /\ UNCHANGED <<buckets, within>>

Spec == Init /\ [][Next]_vars

---------------------------------------------------------------------------
(* Properties.                                                             *)

TypeOK ==
  /\ CallsType
  /\ buckets \in [Indexes -> 0 .. Limit]
  /\ within \in [Times -> [Times -> Nat]]

\* What the approximation still promises, as long as calls are applied in the
\* order of their times and no entry is deleted too early: a span that reaches
\* over no more than BucketCount buckets wherever it starts, which is one bucket
\* less than the buckets cover, holds at most Rate units.
SpanBounded ==
  ordered /\ ~early => \A s, t \in Times :
    s <= t /\ t <= s + (BucketCount - 1) * BucketSize => within[s][t] <= Limit

\* RetryAfter is enough: a single unit that was refused passes after it, if
\* nobody else is admitted, also when the window is no multiple of the buckets.
\* It is about calls with a time from now on, not about one that was overtaken.
BucketRetrySuffices ==
  \A now \in time .. MaxTime : ~Allows(buckets, now, 1) =>
    Allows(buckets, now + RetryAfter(buckets, now), 1)

\* An entry that was not used for as long as its buckets last is as good as a new
\* one, if calls are applied in the order of their times.
BucketIdleSettled ==
  ordered /\ lastSeen # Unset /\ time - lastSeen >= BucketCount * BucketSize =>
    Settled(time)

=============================================================================
