---------------------------- MODULE TokenBucket ----------------------------
(***************************************************************************)
(* The token bucket of one key.  The code keeps tokens as a float64; here  *)
(* they are exact, in units of 1/Window token, so that Rate of them arrive *)
(* in one unit of time.  The entry is created full by the first call.      *)
(***************************************************************************)
EXTENDS LimiterCalls

\* NewTokenBucket refuses a configuration without a burst.
Burst == BurstOpt
Capacity == Burst * Window

VARIABLES
  tokens,  \* the state of the key
  last,    \* when it was last refilled, or Unset before it exists
  birth,   \* history: the time the first entry was created with
  within   \* history: units admitted at times from s to t

bucket == <<tokens, last, birth, within>>
vars == <<calls, bucket>>

Init ==
  /\ CallsInit
  /\ tokens = Capacity
  /\ last = Unset
  /\ birth = Unset
  /\ within = [s \in Times |-> [t \in Times |-> 0]]

---------------------------------------------------------------------------

\* refill: a time that is not after the last one changes nothing, so the last
\* refill never moves back.
RefillsBackwards(have, since, now) ==
  [tokens |-> Min({Capacity, have + Rate * (IF now > since THEN now - since ELSE 0)}),
   last |-> now]
RefillsWithoutCap(have, since, now) ==
  [tokens |-> have + Rate * (IF now > since THEN now - since ELSE 0), last |-> now]
Refill(have, since, now) ==
  IF now > since
  THEN [tokens |-> Min({Capacity, have + Rate * (now - since)}), last |-> now]
  ELSE [tokens |-> have, last |-> since]

AllowsOnAFraction(have, n) == have > (n - 1) * Window
Allows(have, n) == have >= n * Window

\* RetryAfter of a refusal: the time until the missing tokens have arrived,
\* rounded up.
RoundsDown(have, n) == (n * Window - have) \div Rate
RetryAfter(have, n) == (n * Window - have + Rate - 1) \div Rate

\* allowN under the lock of the key's shard; the first call finds the entry
\* it has just created.
AllowN(c, n) ==
  LET now == stamp[c]
      fresh == last = Unset
      full == IF fresh THEN [tokens |-> Capacity, last |-> now]
              ELSE Refill(tokens, last, now)
  IN /\ Apply(c)
     /\ birth' = IF birth = Unset THEN now ELSE birth
     /\ last' = full.last
     /\ \/ /\ Allows(full.tokens, n)
           /\ tokens' = full.tokens - n * Window
           /\ within' = [s \in Times |-> [t \in Times |->
                IF s <= now /\ now <= t THEN within[s][t] + n ELSE within[s][t]]]
        \/ /\ ~Allows(full.tokens, n)
           /\ tokens' = full.tokens
           /\ UNCHANGED within

\* At time t the entry is as good as a new one.
Settled(t) ==
  last # Unset => last <= t /\ Refill(tokens, last, t).tokens = Capacity

Forget ==
  /\ Delete(\A t \in Coming : Settled(t))
  /\ tokens' = Capacity
  /\ last' = Unset
  /\ UNCHANGED <<birth, within>>

Next ==
  \/ Forget
  \/ \E c \in Callers, n \in Sizes : AllowN(c, n)
  \/ ((\E c \in Callers : ReadClock(c)) \/ Tick) /\ UNCHANGED bucket

Spec == Init /\ [][Next]_vars

---------------------------------------------------------------------------
(* Properties.                                                             *)

TypeOK ==
  /\ CallsType
  /\ tokens \in 0 .. Capacity
  /\ last \in Times \cup {Unset}
  /\ birth \in Times \cup {Unset}
  /\ within \in [Times -> [Times -> Nat]]

\* No token is spent that has not arrived: what was admitted and what is left
\* is covered by the first filling and Rate per Window since, in whatever order
\* goroutines apply the times they have read and however often a settled entry
\* is deleted and created again.
TokensConserved ==
  last # Unset /\ ~early =>
    within[0][MaxTime] * Window + tokens <= Capacity + Rate * (last - birth)

\* As long as calls are applied in the order of their times and no entry is
\* deleted too early, a key is granted in any span its burst and Rate per Window, and
\* no more.
TokenConforms ==
  ordered /\ ~early => \A s, t \in Times : s <= t =>
    within[s][t] * Window <= Capacity + Rate * (t - s)

\* RetryAfter is exact: if nobody else is admitted, the same request passes
\* after that wait and at no time before.  The wait counts from last, the time of
\* the refill that the answer is computed from; a caller that was overtaken has
\* read an earlier time than that.
TokenRetryExact ==
  last # Unset => \A n \in Sizes : n <= Burst /\ ~Allows(tokens, n) =>
    LET retry == RetryAfter(tokens, n)
        After(d) == Refill(tokens, last, last + d).tokens
    IN Allows(After(retry), n) /\ \A d \in 0 .. retry - 1 : ~Allows(After(d), n)

\* A bucket that was not used for as long as it takes to fill is as good as a new
\* one, if calls are applied in the order of their times.
RefillTime == (Capacity + Rate - 1) \div Rate
TokenIdleSettled ==
  ordered /\ lastSeen # Unset /\ time - lastSeen >= RefillTime => Settled(time)

=============================================================================
