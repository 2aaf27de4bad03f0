--------------------------- MODULE SlidingWindow ---------------------------
(***************************************************************************)
(* The exact sliding window of one key: the entry keeps the time of every  *)
(* unit admitted in the last window, in the order they were admitted.      *)
(***************************************************************************)
EXTENDS LimiterCalls, Sequences

Limit == Rate

VARIABLES
  records,  \* the state of the key
  within    \* history: units admitted at times from s to t

vars == <<calls, records, within>>

Init ==
  /\ CallsInit
  /\ records = <<>>
  /\ within = [s \in Times |-> [t \in Times |-> 0]]

---------------------------------------------------------------------------

\* prune drops records from the front, up to the first one in the window.
KeepsTheEdge(recs, now) ==
  LET kept == {i \in DOMAIN recs : recs[i] >= now - Window}
  IN IF kept = {} THEN <<>> ELSE SubSeq(recs, Min(kept), Len(recs))
DropsOneMore(recs, now) ==
  LET kept == {i \in DOMAIN recs : recs[i] > now - Window + 1}
  IN IF kept = {} THEN <<>> ELSE SubSeq(recs, Min(kept), Len(recs))
Prune(recs, now) ==
  LET kept == {i \in DOMAIN recs : recs[i] > now - Window}
  IN IF kept = {} THEN <<>> ELSE SubSeq(recs, Min(kept), Len(recs))

IgnoresSize(recs, now, n) == 0 < Limit - Len(Prune(recs, now))
Allows(recs, now, n) == n <= Limit - Len(Prune(recs, now))

\* RetryAfter of a refusal: until the first record leaves the window, however
\* many units were asked for.
RetryAfter(recs, now) ==
  LET kept == Prune(recs, now)
  IN IF kept = <<>> THEN 0 ELSE Max({0, kept[1] + Window - now})

\* allowN under the lock of the key's shard: a refusal prunes as well.
AllowN(c, n) ==
  LET now == stamp[c]
      kept == Prune(records, now)
  IN /\ Apply(c)
     /\ \/ /\ Allows(records, now, n)
           /\ records' = kept \o [i \in 1 .. n |-> now]
           /\ within' = [s \in Times |-> [t \in Times |->
                IF s <= now /\ now <= t THEN within[s][t] + n ELSE within[s][t]]]
        \/ /\ ~Allows(records, now, n)
           /\ records' = kept
           /\ UNCHANGED within

\* At time t the entry is as good as a new one.
Settled(t) == Prune(records, t) = <<>>

Forget ==
  /\ Delete(\A t \in Coming : Settled(t))
  /\ records' = <<>>
  /\ UNCHANGED within

Next ==
  \/ Forget
  \/ \E c \in Callers, n \in Sizes : AllowN(c, n)
  \/ /\ (\E c \in Callers : ReadClock(c)) \/ Tick
     /\ UNCHANGED <<records, within>>

Spec == Init /\ [][Next]_vars

---------------------------------------------------------------------------
(* Properties.                                                             *)

TypeOK ==
  /\ CallsType
  /\ records \in Seq(Times) /\ Len(records) <= Limit
  /\ within \in [Times -> [Times -> Nat]]

\* "Rate: the most requests allowed in a window."  No window holds more: not
\* one that ends now, and not one that ended earlier, whose records have been
\* pruned.
WindowStrict ==
  \A s, t \in Times : s <= t /\ t < s + Window => within[s][t] <= Limit

\* It is so as long as calls are applied in the order of their times and no entry
\* is deleted too early.
WindowExact == ordered /\ ~early => WindowStrict

\* RetryAfter is exact for a single unit: if nobody else is admitted, it passes
\* after that wait and at no time before, also when calls were applied out of the
\* order of their times.
WindowRetryExact ==
  \A now \in time .. MaxTime : ~Allows(records, now, 1) =>
    LET retry == now + RetryAfter(records, now)
    IN /\ Allows(records, retry, 1)
       /\ \A t \in now .. retry - 1 : ~Allows(records, t, 1)

\* An entry that was not used for a window is as good as a new one, if calls are
\* applied in the order of their times.
WindowIdleSettled ==
  ordered /\ lastSeen # Unset /\ time - lastSeen >= Window => Settled(time)

=============================================================================
