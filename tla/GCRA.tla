-------------------------------- MODULE GCRA --------------------------------
(***************************************************************************)
(* The generic cell rate algorithm of one key: the entry keeps only the    *)
(* theoretical arrival time tat.  It is created with a zero tat, which is  *)
(* never later than any time read.                                         *)
(***************************************************************************)
EXTENDS LimiterCalls

\* NewGCRA: the interval is a whole number of clock units, and never none.
Burst == IF BurstOpt = 0 THEN Rate ELSE BurstOpt
Interval == IF Window \div Rate = 0 THEN 1 ELSE Window \div Rate
Tolerance == (Burst - 1) * Interval

VARIABLES
  tat,    \* the state of the key
  within  \* history: units admitted at times from s to t

vars == <<calls, tat, within>>

Init ==
  /\ CallsInit
  /\ tat = 0
  /\ within = [s \in Times |-> [t \in Times |-> 0]]

---------------------------------------------------------------------------

Later(a, b) == IF a < b THEN b ELSE a

\* The earliest time at which n units conform.
OneTooEarly(a, t, n) == Later(a, t) + (n - 1) * Interval - Tolerance - Interval
AllowedAt(a, t, n) == Later(a, t) + (n - 1) * Interval - Tolerance

\* allowN's decision on n units at time t when the arrival time is a.
Allows(a, t, n) == n <= Burst /\ t >= AllowedAt(a, t, n)
StoresAllowedAt(a, t, n) == AllowedAt(a, t, n)
Booked(a, t, n) == Later(a, t) + n * Interval

\* RetryAfter of a refusal and Remaining of an admission that leaves a.
WaitsAnInterval(a, t, n) == Interval
RetryAfter(a, t, n) ==
  IF n > Burst THEN Interval ELSE AllowedAt(a, t, n) - t
RoundsUp(a, t) == Min({Max({((t + Tolerance - a) \div Interval) + 2, 0}), Burst})
Remaining(a, t) == Min({Max({((t + Tolerance - a) \div Interval) + 1, 0}), Burst})

\* allowN under the lock of the key's shard.
AllowN(c, n) ==
  LET now == stamp[c]
  IN /\ Apply(c)
     /\ \/ /\ Allows(tat, now, n)
           /\ tat' = Booked(tat, now, n)
           /\ within' = [s \in Times |-> [t \in Times |->
                IF s <= now /\ now <= t THEN within[s][t] + n ELSE within[s][t]]]
        \/ /\ ~Allows(tat, now, n)
           /\ UNCHANGED <<tat, within>>

\* At time t the entry is as good as a new one.
Settled(t) == tat <= t

Forget ==
  /\ Delete(\A t \in Coming : Settled(t))
  /\ tat' = 0
  /\ UNCHANGED within

Next ==
  \/ Forget
  \/ \E c \in Callers, n \in Sizes : AllowN(c, n)
  \/ ((\E c \in Callers : ReadClock(c)) \/ Tick) /\ UNCHANGED <<tat, within>>

Spec == Init /\ [][Next]_vars

---------------------------------------------------------------------------
(* Properties.                                                             *)

TypeOK ==
  /\ CallsType
  /\ tat \in Nat
  /\ within \in [Times -> [Times -> Nat]]

\* In every span of time the key is granted its burst and one unit for each
\* interval of the span, and no more, in whatever order goroutines apply the
\* times they have read and whenever its entry is deleted and created again,
\* unless that came too early.
GCRAConforms ==
  ~early => \A s, t \in Times : s <= t =>
    within[s][t] * Interval <= Burst * Interval + (t - s)

\* RetryAfter is exact: if nobody else is admitted, the same request passes
\* after that wait and at no time before.
GCRARetryExact ==
  \A now \in Times, n \in Sizes : n <= Burst /\ ~Allows(tat, now, n) =>
    LET retry == now + RetryAfter(tat, now, n)
    IN Allows(tat, retry, n) /\ \A t \in now .. retry - 1 : ~Allows(tat, t, n)

\* Remaining is exact: right after an admission that many units pass at once,
\* and one more does not.
GCRARemainingExact ==
  \A now \in Times, n \in Sizes : Allows(tat, now, n) =>
    LET a == Booked(tat, now, n)
        left == Remaining(a, now)
    IN /\ left > 0 => Allows(a, now, left)
       /\ ~Allows(a, now, left + 1)

\* An entry that was not used for as long as a burst takes to come back is as
\* good as a new one, if calls are applied in the order of their times: its
\* deletion is not early.
RefillTime == Burst * Interval
GCRAIdleSettled ==
  ordered /\ lastSeen # Unset /\ time - lastSeen >= RefillTime => Settled(time)

=============================================================================
