---------------------------- MODULE RefillProofs ----------------------------
(***************************************************************************)
(* The two limiters that keep one number and refill it: GCRA and the token *)
(* bucket keep their rates, for every rate, window, burst and request size *)
(* and any number of goroutines, while their entries come and go.          *)
(*                                                                         *)
(* GCRAConforms is not inductive: it says nothing of tat.  The             *)
(* strengthening Ahead says that for each unit admitted in a span, the     *)
(* arrival time is one interval past the start of the span, or all calls   *)
(* that may still come are; so an entry whose arrival time no call can     *)
(* precede is not missed.  allowN keeps the arrival time within a burst of *)
(* the time it admits at, and both bounds together are the rate.           *)
(* RetryAfter and Remaining are exact whatever the arrival time is.        *)
(*                                                                         *)
(* Of the token bucket one fact carries both rates.  What was admitted     *)
(* since some time is covered: together with the tokens that are left it   *)
(* is no more than a full bucket and the tokens that have arrived from     *)
(* that time to the last refill.  A refill adds to both sides alike, an    *)
(* admission turns tokens into admitted units, and a full bucket that is   *)
(* deleted leaves what was admitted covered by arrivals alone, so a new    *)
(* full one may follow.  Tokens are exact here, as in TokenBucket.         *)
(***************************************************************************)
EXTENDS Limiters, TLAPS

---------------------------------------------------------------------------
(* Arithmetic.                                                             *)

\* What comes in one span comes in its parts.
LEMMA Distribute ==
  ASSUME NEW a \in Int, NEW b \in Int, NEW i \in Int
  PROVE  (a + b) * i = a * i + b * i /\ i * (a + b) = i * a + i * b
OBVIOUS

\* More time, more of it.
LEMMA Monotone ==
  ASSUME NEW i \in Nat, NEW a \in Int, NEW b \in Int, a <= b
  PROVE  i * a <= i * b
<1>1. b - a \in Nat /\ b = a + (b - a)
  OBVIOUS
<1>2. i * b = i * a + i * (b - a)
  BY <1>1, Distribute
<1>3. i * (b - a) \in Nat /\ i * a \in Int /\ i * b \in Int
  BY <1>1
<1> QED BY <1>2, <1>3

---------------------------------------------------------------------------
(* GCRA.                                                                   *)

Ahead ==
  ~early => \A x \in Coming : \A s, t \in Times :
    within[s][t] > 0 =>
      tat >= s + within[s][t] * Interval \/ x >= s + within[s][t] * Interval

GCRAInv == TypeOK /\ Ahead /\ GCRAConforms

\* NewGCRA makes the interval and the burst positive whatever it is given.
LEMMA GCRAConstants == Interval \in Nat \ {0} /\ Burst \in Nat \ {0}
<1>1. Window \div Rate \in Nat
  BY ConfigAssumption
<1> QED BY <1>1, ConfigAssumption DEF Interval, Burst

\* An admission puts the arrival time one interval per unit after the later of
\* its old value and the time of the admission, and not past that time plus a
\* burst.
LEMMA BookedBounds ==
  ASSUME NEW a \in Nat, NEW t \in Nat, NEW n \in Nat \ {0}, Allows(a, t, n)
  PROVE  /\ Booked(a, t, n) \in Nat
         /\ Booked(a, t, n) >= a + n * Interval
         /\ Booked(a, t, n) >= t + n * Interval
         /\ Booked(a, t, n) <= t + Burst * Interval
<1> USE GCRAConstants
<1>1. /\ Later(a, t) \in Nat /\ Later(a, t) >= a /\ Later(a, t) >= t
      /\ n * Interval \in Nat /\ Burst * Interval \in Nat
  BY DEF Later
<1>2. /\ (n - 1) * Interval = n * Interval - Interval
      /\ (Burst - 1) * Interval = Burst * Interval - Interval
  BY Distribute
<1>3. t >= Later(a, t) + (n * Interval - Interval)
             - (Burst * Interval - Interval)
  BY <1>2 DEF Allows, AllowedAt, Tolerance
<1> QED BY <1>1, <1>3 DEF Booked

\* A call that gets the lock leaves times and history in their types, and the
\* latest time is not before its own.
LEMMA ApplyType ==
  ASSUME CallsType, NEW c \in Callers, Apply(c)
  PROVE  CallsType' /\ newest' >= newest /\ newest' >= stamp[c]
<1>1. stamp[c] \in Times /\ Times \subseteq Int /\ newest \in Times \cup {Unset}
  BY ConfigAssumption DEF CallsType, Apply, Times
<1>2. {newest, stamp[c]} \subseteq Int
  BY <1>1, ConfigAssumption DEF Unset, Times
<1>3. /\ newest' \in {newest, stamp[c]}
      /\ \A y \in {newest, stamp[c]} : newest' >= y
  <2>1. \E x \in {newest, stamp[c]} : \A y \in {newest, stamp[c]} : x >= y
    BY <1>2
  <2> QED BY <2>1 DEF Apply, Max
<1> QED BY <1>1, <1>3 DEF CallsType, Apply

\* A new entry has granted nothing.
LEMMA GCRAInvInit == Init => GCRAInv
<1> USE GCRAConstants, ConfigAssumption
<1> SUFFICES ASSUME Init PROVE GCRAInv
  OBVIOUS
<1>0. CallsType
  <2>1. /\ time \in Times
        /\ stamp \in [Callers -> Times \cup {Unset}]
        /\ lastSeen \in Times \cup {Unset}
        /\ newest \in Times \cup {Unset}
    BY DEF Init, CallsInit, Times, Unset
  <2>2. ordered \in BOOLEAN /\ early \in BOOLEAN
    BY DEF Init, CallsInit
  <2> QED BY <2>1, <2>2 DEF CallsType
<1>1. TypeOK
  BY <1>0 DEF Init, TypeOK, Times
<1>2. \A s, t \in Times : within[s][t] = 0
  BY DEF Init
<1>3. Ahead
  BY <1>2 DEF Ahead
<1>4. GCRAConforms
  BY <1>2 DEF GCRAConforms, Times
<1> QED BY <1>1, <1>3, <1>4 DEF GCRAInv

\* Every time that may still come is a time.
LEMMA ComingTimes == CallsType => Coming \subseteq Times /\ Times \subseteq Nat
BY ConfigAssumption DEF CallsType, Coming, Times, Unset

\* No step but the passing of time brings on a time that was not to come.
LEMMA ComingStays ==
  ASSUME CallsType, NEW c \in Callers, ReadClock(c) \/ Apply(c)
  PROVE  Coming' \subseteq Coming
BY DEF CallsType, ReadClock, Apply, Coming

\* Reading the clock, applying a time that was read, however old, the passing of
\* time and the deletion of the entry all keep the invariant.
LEMMA GCRAInvStep == GCRAInv /\ [Next]_vars => GCRAInv'
<1> USE GCRAConstants, ConfigAssumption
<1> SUFFICES ASSUME GCRAInv, [Next]_vars PROVE GCRAInv'
  OBVIOUS
<1>0. /\ CallsType /\ Coming \subseteq Nat /\ Times \subseteq Nat
      /\ tat \in Nat /\ \A s, t \in Times : within[s][t] \in Nat
  BY ComingTimes DEF GCRAInv, TypeOK
<1>1. ASSUME NEW c \in Callers, ReadClock(c), UNCHANGED <<tat, within>>
      PROVE  GCRAInv'
  <2>1. Coming' \subseteq Coming
    BY <1>0, <1>1, ComingStays
  <2>2. TypeOK'
    BY <1>1 DEF ReadClock, GCRAInv, TypeOK, CallsType
  <2> QED BY <1>1, <2>1, <2>2 DEF ReadClock, GCRAInv, Ahead, GCRAConforms
<1>2. CASE Tick /\ UNCHANGED <<tat, within>>
  <2>1. \A y \in Coming' : \E x \in Coming : y >= x
    BY <1>0, <1>2 DEF Tick, Coming, CallsType, Times
  <2>2. TypeOK'
    BY <1>2 DEF Tick, GCRAInv, TypeOK, CallsType, Times
  <2>3. Ahead'
    <3> SUFFICES ASSUME ~early, NEW y \in Coming', NEW s \in Times,
                        NEW t \in Times, within[s][t] > 0
                 PROVE  \/ tat >= s + within[s][t] * Interval
                        \/ y >= s + within[s][t] * Interval
      BY <1>2 DEF Ahead, Tick
    <3>1. PICK x \in Coming : y >= x
      BY <2>1
    <3>2. \/ tat >= s + within[s][t] * Interval
          \/ x >= s + within[s][t] * Interval
      BY DEF GCRAInv, Ahead
    <3>3. y \in Int
      BY <2>2 DEF TypeOK, CallsType, Coming, Times, Unset
    <3>4. x \in Nat /\ s + within[s][t] * Interval \in Nat
      BY <1>0
    <3> QED BY <1>0, <3>1, <3>2, <3>3, <3>4
  <2> QED BY <1>2, <2>2, <2>3 DEF Tick, GCRAInv, GCRAConforms
<1>3. CASE UNCHANGED vars
  BY <1>3 DEF vars, calls, Coming, GCRAInv, TypeOK, CallsType, Ahead, GCRAConforms
<1>4. CASE Forget
  <2>1. TypeOK'
    BY <1>4 DEF Forget, Delete, GCRAInv, TypeOK, CallsType
  <2>2. Coming' = Coming /\ UNCHANGED within /\ (~early' => ~early)
    BY <1>4 DEF Forget, Delete, Coming
  <2>3. ~early' => \A x \in Coming : tat <= x
    BY <1>4 DEF Forget, Delete, Settled
  <2>4. Ahead'
    <3> SUFFICES ASSUME ~early', NEW x \in Coming, NEW s \in Times,
                        NEW t \in Times, within[s][t] > 0
                 PROVE  x >= s + within[s][t] * Interval
      BY <2>2 DEF Ahead
    <3>1. \/ tat >= s + within[s][t] * Interval
          \/ x >= s + within[s][t] * Interval
      BY <2>2 DEF GCRAInv, Ahead
    <3>2. x \in Nat /\ s + within[s][t] * Interval \in Nat
      BY <1>0
    <3> QED BY <1>0, <2>3, <3>1, <3>2
  <2> QED BY <2>1, <2>2, <2>4 DEF GCRAInv, GCRAConforms
<1>5. ASSUME NEW c \in Callers, NEW n \in Sizes, AllowN(c, n) PROVE GCRAInv'
  <2> DEFINE now == stamp[c]
  <2>1. /\ now \in Times /\ now \in Nat /\ now \in Coming /\ n \in Nat \ {0}
    BY <1>5 DEF AllowN, Apply, GCRAInv, TypeOK, CallsType, Coming, Times, Sizes, Unset
  <2>2. CallsType' /\ Coming' \subseteq Coming /\ (early' <=> early)
    BY <1>0, <1>5, ApplyType, ComingStays DEF AllowN, Apply
  <2> HIDE DEF now
  <2>3. CASE UNCHANGED <<tat, within>>
    BY <2>2, <2>3 DEF GCRAInv, TypeOK, Ahead, GCRAConforms
  <2>4. CASE /\ Allows(tat, now, n)
             /\ tat' = Booked(tat, now, n)
             /\ within' = [s \in Times |-> [t \in Times |->
                  IF s <= now /\ now <= t THEN within[s][t] + n
                                          ELSE within[s][t]]]
    <3>1. /\ tat' \in Nat
          /\ tat' >= tat + n * Interval
          /\ tat' >= now + n * Interval
          /\ tat' <= now + Burst * Interval
      BY <1>0, <2>1, <2>4, BookedBounds
    <3>2. TypeOK'
      BY <1>0, <2>1, <2>2, <2>4, <3>1 DEF TypeOK
    <3>3. ASSUME ~early, NEW s \in Times, NEW t \in Times
          PROVE  /\ within'[s][t] > 0 => tat' >= s + within'[s][t] * Interval
                 /\ s <= t => within'[s][t] * Interval <=
                                Burst * Interval + (t - s)
      <4> DEFINE w == within[s][t]
      <4>1. /\ w \in Nat /\ w * Interval \in Nat /\ n * Interval \in Nat
            /\ Burst * Interval \in Nat
        BY <1>0, <2>1
      <4>2. /\ w > 0 => \/ tat >= s + w * Interval
                        \/ now >= s + w * Interval
            /\ s <= t => w * Interval <= Burst * Interval + (t - s)
        BY <2>1, <3>3 DEF GCRAInv, Ahead, GCRAConforms
      <4>3. CASE s <= now /\ now <= t
        <5>1. within'[s][t] = w + n
          BY <2>4, <4>3
        <5>2. within'[s][t] * Interval = w * Interval + n * Interval
          BY <2>1, <4>1, <5>1, Distribute
        <5>3. w = 0 => w * Interval = 0
          OBVIOUS
        <5>4. tat' >= s + (w * Interval + n * Interval)
          BY <1>0, <2>1, <3>1, <4>1, <4>2, <4>3, <5>3
        <5> HIDE DEF w
        <5> QED BY <1>0, <2>1, <3>1, <4>1, <4>3, <5>2, <5>4
      <4>4. CASE ~(s <= now /\ now <= t)
        <5>1. within'[s][t] = w
          BY <2>4, <4>4
        <5>2. tat' >= tat /\ tat' >= now
          BY <1>0, <2>1, <3>1, <4>1
        <5> HIDE DEF w
        <5> QED BY <1>0, <2>1, <3>1, <4>1, <4>2, <5>1, <5>2
      <4> QED BY <4>3, <4>4
    <3> QED BY <2>2, <3>2, <3>3 DEF GCRAInv, Ahead, GCRAConforms
  <2> QED BY <1>5, <2>3, <2>4 DEF AllowN, now
<1> QED BY <1>1, <1>2, <1>3, <1>4, <1>5 DEF Next

\* Whatever its configuration and however its callers interleave, the limiter
\* grants a key in any span of time at most its burst and one unit for each
\* interval of the span.
THEOREM GCRAAlwaysConforms == Spec => []GCRAConforms
<1>1. GCRAInv => GCRAConforms
  BY DEF GCRAInv
<1> QED BY GCRAInvInit, GCRAInvStep, <1>1, PTL DEF Spec

\* The arrival time is at most a burst past the latest time that was applied, in
\* any order of calls; in order, that is when the entry was last seen.
Near == tat = 0 \/ (newest # Unset /\ tat <= newest + RefillTime)
SeenLast == ordered /\ lastSeen # Unset => lastSeen = newest
IdleInv == TypeOK /\ Near /\ SeenLast

\* A bound from a time holds from a later one.
LEMMA LaterBound ==
  ASSUME NEW a \in Int, NEW s \in Int, NEW t \in Int, NEW d \in Int,
         a <= s + d, s <= t
  PROVE  a <= t + d
OBVIOUS

\* Every step keeps that bound: an admission books at most a burst past its own
\* time, and a deleted entry owes nothing.
LEMMA IdleInvStep == IdleInv /\ [Next]_vars => IdleInv'
<1> USE GCRAConstants, ConfigAssumption
<1> SUFFICES ASSUME IdleInv, [Next]_vars PROVE IdleInv'
  OBVIOUS
<1>0. /\ CallsType /\ tat \in Nat /\ Times \subseteq Nat
      /\ newest \in Int /\ RefillTime \in Nat
      /\ \A s, t \in Times : within[s][t] \in Nat
  BY DEF IdleInv, TypeOK, CallsType, Times, Unset, RefillTime
<1>6. RefillTime' = RefillTime
  BY DEF RefillTime, Burst, Interval
<1>1. ASSUME NEW c \in Callers, ReadClock(c), UNCHANGED <<tat, within>>
      PROVE  IdleInv'
  BY <1>1 DEF ReadClock, IdleInv, TypeOK, CallsType, Near, SeenLast
<1>2. CASE Tick /\ UNCHANGED <<tat, within>>
  BY <1>2 DEF Tick, IdleInv, TypeOK, CallsType, Near, SeenLast, Times
<1>3. CASE UNCHANGED vars
  BY <1>3 DEF vars, calls, IdleInv, TypeOK, CallsType, Near, SeenLast
<1>4. CASE Forget
  BY <1>4 DEF Forget, Delete, IdleInv, TypeOK, CallsType, Near, SeenLast
<1>5. ASSUME NEW c \in Callers, NEW n \in Sizes, AllowN(c, n) PROVE IdleInv'
  <2> DEFINE now == stamp[c]
  <2>1. now \in Times /\ now \in Nat /\ n \in Nat \ {0}
    BY <1>0, <1>5 DEF AllowN, Apply, CallsType, Times, Sizes, Unset
  <2>2. CallsType' /\ newest' >= newest /\ newest' >= now
    BY <1>0, <1>5, ApplyType DEF AllowN
  <2>3. newest' \in Int /\ newest' # Unset
    BY <2>1, <2>2 DEF CallsType, Times, Unset
  <2>4. SeenLast'
    <3> SUFFICES ASSUME ordered', lastSeen' # Unset PROVE lastSeen' = newest'
      BY DEF SeenLast
    <3>1. newest <= now /\ lastSeen' = now /\ newest' = Max({newest, now})
      BY <1>5 DEF AllowN, Apply
    <3>2. Max({newest, now}) = now
      <4>1. \A x \in {newest, now} :
              (\A y \in {newest, now} : x >= y) <=> x = now
        BY <1>0, <2>1, <3>1
      <4> QED BY <4>1 DEF Max
    <3> QED BY <3>1, <3>2
  <2> HIDE DEF now
  <2>5. CASE UNCHANGED <<tat, within>>
    <3>1. tat' = tat /\ (tat = 0 \/ tat <= newest + RefillTime)
      BY <2>5 DEF IdleInv, Near
    <3>2. tat' = 0 \/ tat' <= newest' + RefillTime
      <4>1. newest <= newest' /\ tat' \in Int /\ newest \in Int /\ RefillTime \in Int
        BY <1>0, <2>2, <2>3, <3>1
      <4> QED BY <2>3, <3>1, <4>1, LaterBound
    <3>3. Near'
      BY <1>6, <2>3, <3>2 DEF Near
    <3> QED BY <2>2, <2>4, <2>5, <3>3 DEF IdleInv, TypeOK
  <2>6. CASE /\ Allows(tat, now, n)
             /\ tat' = Booked(tat, now, n)
             /\ within' = [s \in Times |-> [t \in Times |->
                  IF s <= now /\ now <= t THEN within[s][t] + n
                                          ELSE within[s][t]]]
    <3>1. tat' \in Nat /\ tat' <= now + RefillTime
      BY <1>0, <2>1, <2>6, BookedBounds DEF RefillTime
    <3>2. tat' <= newest' + RefillTime
      <4>1. now <= newest' /\ tat' \in Int /\ now \in Int /\ RefillTime \in Int
        BY <1>0, <2>1, <2>2, <2>3, <3>1
      <4> QED BY <2>3, <3>1, <4>1, LaterBound
    <3>4. Near'
      BY <1>6, <2>3, <3>2 DEF Near
    <3>3. TypeOK'
      BY <1>0, <2>1, <2>2, <2>6, <3>1 DEF TypeOK
    <3> QED BY <2>4, <3>3, <3>4 DEF IdleInv
  <2> QED BY <1>5, <2>5, <2>6 DEF AllowN, now
<1> QED BY <1>1, <1>2, <1>3, <1>4, <1>5 DEF Next

\* What is at most a burst past the last call is past when a burst has come back.
LEMMA GCRAIdle == IdleInv => GCRAIdleSettled
<1> SUFFICES ASSUME IdleInv, ordered, lastSeen # Unset,
                    time - lastSeen >= RefillTime
             PROVE  tat <= time
  BY DEF GCRAIdleSettled, Settled
<1>1. time \in Nat /\ newest \in Int /\ tat \in Nat /\ RefillTime \in Nat
  BY GCRAConstants, ConfigAssumption
     DEF IdleInv, TypeOK, CallsType, Times, Unset, RefillTime
<1>2. lastSeen = newest /\ (tat = 0 \/ tat <= newest + RefillTime)
  BY DEF IdleInv, SeenLast, Near
<1> QED BY <1>1, <1>2

\* A new entry owes nothing.
LEMMA IdleInvInit == Init => IdleInv
BY GCRAInvInit DEF GCRAInv, IdleInv, Near, SeenLast, Init, CallsInit

\* An entry that is idle for as long as a burst takes to come back may be
\* deleted, whatever the configuration, if calls are applied in order: an IdleTTL
\* of that length is enough.
THEOREM GCRAIdleAlwaysSettled == Spec => []GCRAIdleSettled
BY IdleInvInit, IdleInvStep, GCRAIdle, PTL DEF Spec

---------------------------------------------------------------------------
(* What a decision tells its caller.                                       *)

\* The arrival time is a number, and the entry and the calls are well typed.
THEOREM GCRATypes == Spec => []TypeOK
BY GCRAInvInit, GCRAInvStep, PTL DEF Spec, GCRAInv

\* More units take longer.
LEMMA IntervalsMonotone ==
  ASSUME NEW a \in Int, NEW b \in Int, a <= b
  PROVE  a * Interval <= b * Interval
<1> USE GCRAConstants
<1>1. b - a \in Nat /\ b = a + (b - a)
  OBVIOUS
<1>2. b * Interval = a * Interval + (b - a) * Interval
  BY <1>1, Distribute
<1>3. (b - a) * Interval \in Nat /\ a * Interval \in Int /\ b * Interval \in Int
  BY <1>1
<1> QED BY <1>2, <1>3

\* A request within the burst that is refused is allowed at AllowedAt, which does not
\* depend on the time of the refusal, and not before.
LEMMA GCRARetry == TypeOK => GCRARetryExact
<1> USE GCRAConstants
<1> SUFFICES ASSUME TypeOK, NEW now \in Times, NEW n \in Sizes, n <= Burst,
                    ~Allows(tat, now, n)
             PROVE  LET retry == now + RetryAfter(tat, now, n)
                    IN /\ Allows(tat, retry, n)
                       /\ \A t \in now .. retry - 1 : ~Allows(tat, t, n)
  BY DEF GCRARetryExact
<1> DEFINE ahead == (n - 1) * Interval
           retry == now + RetryAfter(tat, now, n)
<1>1. tat \in Nat /\ now \in Nat /\ n \in Nat \ {0}
  BY ConfigAssumption DEF TypeOK, Times, Sizes
<1>2. ahead \in Nat /\ Tolerance \in Int /\ ahead <= Tolerance
  <2>1. n - 1 \in Nat /\ Burst - 1 \in Nat /\ n - 1 <= Burst - 1
    BY <1>1
  <2> QED BY <2>1, IntervalsMonotone DEF Tolerance
<1>3. \A t : AllowedAt(tat, t, n) = Later(tat, t) + ahead - Tolerance
  BY DEF AllowedAt
<1> HIDE DEF ahead
<1>4. AllowedAt(tat, now, n) > now /\ tat > now
  BY <1>1, <1>2, <1>3 DEF Allows, Later
<1>5. retry = tat + ahead - Tolerance
  <2>1. AllowedAt(tat, now, n) = tat + ahead - Tolerance
    BY <1>1, <1>3, <1>4 DEF Later
  <2> QED BY <1>1, <1>2, <2>1 DEF RetryAfter
<1> HIDE DEF retry
<1>6. retry \in Int /\ retry <= tat
  BY <1>1, <1>2, <1>5
<1>7. Allows(tat, retry, n)
  BY <1>1, <1>2, <1>3, <1>5, <1>6 DEF Allows, Later
<1>8. ASSUME NEW t \in now .. retry - 1 PROVE ~Allows(tat, t, n)
  BY <1>1, <1>2, <1>3, <1>5, <1>6 DEF Allows, Later
<1> QED BY <1>7, <1>8 DEF retry

\* The RetryAfter of a refusal is the exact wait for every configuration: a
\* request within the burst conforms at AllowedAt and at no time before.
THEOREM GCRARetryAlwaysExact == Spec => []GCRARetryExact
BY GCRARetry, GCRATypes, PTL

\* What is left of the tolerance after an admission is Remaining intervals and less
\* than one more.
LEMMA GCRARemaining == TypeOK => GCRARemainingExact
<1> USE GCRAConstants
<1> SUFFICES ASSUME TypeOK, NEW now \in Times, NEW n \in Sizes, Allows(tat, now, n)
             PROVE  LET a == Booked(tat, now, n)
                        left == Remaining(a, now)
                    IN /\ left > 0 => Allows(a, now, left)
                       /\ ~Allows(a, now, left + 1)
  BY DEF GCRARemainingExact
<1> DEFINE a == Booked(tat, now, n)
           room == now + Tolerance - a
           q == room \div Interval
           left == Remaining(a, now)
<1>1. tat \in Nat /\ now \in Nat /\ n \in Nat \ {0}
  BY ConfigAssumption DEF TypeOK, Times, Sizes
<1>2. a \in Nat /\ a >= now
  <2>1. n * Interval \in Nat
    BY <1>1
  <2> QED BY <1>1, <2>1 DEF Booked, Later
<1>3. Tolerance \in Int
  BY DEF Tolerance
<1>4. left = Min({Max({q + 1, 0}), Burst})
  BY DEF Remaining
<1>5. \A m : AllowedAt(a, now, m) = a + (m - 1) * Interval - Tolerance
  BY <1>1, <1>2 DEF AllowedAt, Later
<1> HIDE DEF a, left
<1>6. room \in Int /\ q \in Int /\ q * Interval <= room /\ room < (q + 1) * Interval
  <2>1. room \in Int
    BY <1>1, <1>2, <1>3
  <2> HIDE DEF room
  <2>2. q \in Int /\ q * Interval <= room /\ room < q * Interval + Interval
    BY <2>1
  <2>3. (q + 1) * Interval = q * Interval + Interval
    BY <2>2, Distribute
  <2> QED BY <2>1, <2>2, <2>3
<1> HIDE DEF q
<1>7. left \in Int /\ left <= Burst /\ (left = Burst \/ left >= q + 1)
      /\ (left > 0 => left <= q + 1)
  <2>1. Max({q + 1, 0}) = IF q + 1 >= 0 THEN q + 1 ELSE 0
    <3>1. \A x \in {q + 1, 0} : (\A y \in {q + 1, 0} : x >= y)
            <=> x = IF q + 1 >= 0 THEN q + 1 ELSE 0
      BY <1>6
    <3> QED BY <3>1 DEF Max
  <2> DEFINE top == IF q + 1 >= 0 THEN q + 1 ELSE 0
  <2>2. top \in Int
    BY <1>6
  <2>3. Min({top, Burst}) = IF top <= Burst THEN top ELSE Burst
    <3> HIDE DEF top
    <3>1. \A x \in {top, Burst} : (\A y \in {top, Burst} : x <= y)
            <=> x = IF top <= Burst THEN top ELSE Burst
      BY <2>2
    <3> QED BY <3>1 DEF Min
  <2>4. left = IF top <= Burst THEN top ELSE Burst
    <3>1. Max({q + 1, 0}) = top
      BY <2>1
    <3> HIDE DEF top
    <3> QED BY <1>4, <2>3, <3>1
  <2> QED BY <1>6, <2>4
<1>8. ASSUME left > 0 PROVE Allows(a, now, left)
  <2>1. left - 1 \in Int /\ left - 1 <= q
    BY <1>6, <1>7, <1>8
  <2>2. (left - 1) * Interval <= q * Interval
    BY <1>6, <2>1, IntervalsMonotone
  <2>3. (left - 1) * Interval \in Int /\ q * Interval \in Int
    BY <1>6, <2>1
  <2>4. (left - 1) * Interval <= room
    BY <1>6, <2>2, <2>3
  <2>5. now >= a + (left - 1) * Interval - Tolerance
    BY <1>1, <1>2, <1>3, <2>3, <2>4
  <2> QED BY <1>5, <1>7, <2>5 DEF Allows
<1>9. ~Allows(a, now, left + 1)
  <2>1. CASE left = Burst
    BY <1>7, <2>1 DEF Allows
  <2>2. CASE left >= q + 1
    <3>1. (q + 1) * Interval <= left * Interval
      BY <1>6, <1>7, <2>2, IntervalsMonotone
    <3>2. (q + 1) * Interval \in Int /\ left * Interval \in Int
      BY <1>6, <1>7
    <3>3. room < left * Interval
      BY <1>6, <3>1, <3>2
    <3>4. now < a + left * Interval - Tolerance
      BY <1>1, <1>2, <1>3, <3>2, <3>3
    <3>5. (left + 1) - 1 = left
      BY <1>7
    <3>6. AllowedAt(a, now, left + 1) = a + left * Interval - Tolerance
      BY <1>5, <3>5
    <3>7. ~(now >= AllowedAt(a, now, left + 1))
      BY <1>1, <1>2, <1>3, <3>2, <3>4, <3>6
    <3> QED BY <3>7 DEF Allows
  <2> QED BY <1>7, <2>1, <2>2
<1> QED BY <1>8, <1>9 DEF a, left

\* Remaining is exact for every configuration: an admission leaves room for as
\* many units at the same time, and for no more.
THEOREM GCRARemainingAlwaysExact == Spec => []GCRARemainingExact
BY GCRARemaining, GCRATypes, PTL

---------------------------------------------------------------------------
(* The token bucket.                                                       *)

\* units, admitted since the time a, are covered by the arrivals since then.
Covers(a, units) ==
  /\ last # T!Unset => units * Window + tokens <= T!Capacity + Rate * (last - a)
  /\ last = T!Unset => \A x \in T!Coming : units * Window <= Rate * (x - a)

\* All units are admitted at some time.
TotalInv ==
  /\ birth = T!Unset => last = T!Unset /\ spent[0][MaxTime] = 0
  /\ ~early /\ birth # T!Unset => Covers(birth, spent[0][MaxTime])

\* So is every part of them.
SpanInv ==
  ~early => \A s, t \in T!Times : spent[s][t] > 0 => Covers(s, spent[s][t])

\* In order, the last refill is the latest call.
SeenInv ==
  /\ last = T!Unset <=> lastSeen = T!Unset
  /\ ordered /\ lastSeen # T!Unset => last = lastSeen /\ lastSeen = newest

TokenInv == T!TypeOK /\ TotalInv /\ SpanInv /\ SeenInv /\ T!TokenConforms

USE ConfigAssumption

\* A full bucket holds its burst.
LEMMA TokenConstants == T!Burst \in Nat /\ T!Capacity \in Nat /\ T!Times \subseteq Nat
                   /\ 0 \in T!Times /\ MaxTime \in T!Times
BY DEF T!Burst, T!Capacity, T!Times

\* The smaller of two numbers.
LEMMA MinOfTwo ==
  ASSUME NEW a \in Int, NEW b \in Int
  PROVE  T!Min({a, b}) = IF a <= b THEN a ELSE b
<1> DEFINE m == IF a <= b THEN a ELSE b
<1>1. \A x \in {a, b} : (\A y \in {a, b} : x <= y) <=> x = m
  OBVIOUS
<1>2. m \in {a, b}
  OBVIOUS
<1> QED BY <1>1, <1>2 DEF T!Min

\* A refill fills up to the burst, with no more than what has arrived, and does
\* not move back.
LEMMA RefillBounds ==
  ASSUME NEW have \in 0 .. T!Capacity, NEW since \in Nat, NEW now \in Nat
  PROVE  LET full == T!Refill(have, since, now)
         IN /\ full.tokens \in 0 .. T!Capacity /\ full.tokens >= have
            /\ full.last = IF now > since THEN now ELSE since
            /\ full.tokens <= have + Rate * (full.last - since)
            /\ full.tokens = T!Capacity \/ full.tokens = have + Rate * (full.last - since)
<1> USE TokenConstants
<1>1. CASE now > since
  <2>1. Rate * (now - since) \in Nat
    BY <1>1
  <2>2. /\ T!Refill(have, since, now).tokens = T!Min({T!Capacity, have + Rate * (now - since)})
        /\ T!Refill(have, since, now).last = now
    BY <1>1 DEF T!Refill
  <2>3. T!Refill(have, since, now).tokens =
          IF T!Capacity <= have + Rate * (now - since) THEN T!Capacity
          ELSE have + Rate * (now - since)
    BY <2>1, <2>2, MinOfTwo
  <2> QED BY <1>1, <2>1, <2>2, <2>3
<1>2. CASE ~(now > since)
  <2>1. Rate * (since - since) = 0
    OBVIOUS
  <2> QED BY <1>2, <2>1 DEF T!Refill
<1> QED BY <1>1, <1>2

\* Rounding up a quotient gives the first multiple that is large enough.
LEMMA RoundedUp ==
  ASSUME NEW m \in Nat
  PROVE  LET q == (m + Rate - 1) \div Rate
         IN q \in Nat /\ Rate * q >= m /\ \A d \in Nat : d < q => Rate * d < m
<1> DEFINE x == m + Rate - 1
           q == x \div Rate
<1>1. x \in Nat
  OBVIOUS
<1>2. q \in Nat /\ Rate * q <= x /\ x < Rate * q + Rate
  BY <1>1
<1>3. Rate * q >= m
  <2>1. Rate * q \in Nat
    BY <1>2
  <2> QED BY <1>2, <2>1
<1>4. ASSUME NEW d \in Nat, d < q PROVE Rate * d < m
  <2>1. d + 1 <= q
    BY <1>2, <1>4
  <2>2. Rate * (d + 1) <= Rate * q
    BY <1>2, <2>1, Monotone
  <2>3. Rate * (d + 1) = Rate * d + Rate /\ Rate * d \in Nat /\ Rate * q \in Nat
    BY <1>2, Distribute
  <2> QED BY <1>2, <2>2, <2>3
<1> QED BY <1>2, <1>3, <1>4

---------------------------------------------------------------------------
(* The steps.                                                              *)

\* Every time that may still come is a time.
LEMMA TokenComing == T!CallsType => T!Coming \subseteq T!Times /\ time \in T!Coming
BY DEF T!CallsType, T!Coming, T!Times, T!Unset

\* A call that gets the lock leaves times and history in their types, brings on
\* no new time, and is the latest if calls are in order.
LEMMA TokenApply ==
  ASSUME T!CallsType, NEW c \in Callers, T!Apply(c)
  PROVE  /\ T!CallsType' /\ T!Coming' \subseteq T!Coming
         /\ stamp[c] \in T!Times /\ stamp[c] \in T!Coming
         /\ (early' <=> early) /\ lastSeen' = stamp[c]
         /\ ordered' => ordered /\ newest <= stamp[c] /\ newest' = stamp[c]
<1>1. /\ stamp[c] \in T!Times /\ stamp[c] \in Int /\ stamp[c] \in T!Coming
      /\ newest \in T!Times \cup {T!Unset} /\ newest \in Int
  BY TokenConstants DEF T!CallsType, T!Apply, T!Coming, T!Times, T!Unset
<1>2. newest' = IF newest <= stamp[c] THEN stamp[c] ELSE newest
  <2>1. \A x \in {newest, stamp[c]} :
          (\A y \in {newest, stamp[c]} : x >= y)
            <=> x = IF newest <= stamp[c] THEN stamp[c] ELSE newest
    BY <1>1
  <2> QED BY <2>1 DEF T!Apply, T!Max
<1>3. T!CallsType' /\ T!Coming' \subseteq T!Coming
  BY <1>1, <1>2 DEF T!CallsType, T!Apply, T!Coming
<1> QED BY <1>1, <1>2, <1>3 DEF T!Apply

\* The bucket that a call finds: full if it is new, else refilled.
TokenFound(now) ==
  IF last = T!Unset THEN [tokens |-> T!Capacity, last |-> now]
  ELSE T!Refill(tokens, last, now)

\* What allowN does to the bucket and to the history.
TokenSpends(now, n) ==
  /\ tokens' = TokenFound(now).tokens - n * Window /\ tokens' >= 0
  /\ \A s, t \in T!Times : spent'[s][t] =
       IF s <= now /\ now <= t THEN spent[s][t] + n ELSE spent[s][t]
TokenRefuses(now) == tokens' = TokenFound(now).tokens /\ UNCHANGED spent

\* A call leaves the bucket between nothing and full, and either spends what it
\* asks for or only refills.
LEMMA TokenCall ==
  ASSUME T!TypeOK, NEW c \in Callers, NEW n \in T!Sizes, T!AllowN(c, n)
  PROVE  /\ T!TypeOK' /\ n \in Nat
         /\ TokenFound(stamp[c]).tokens \in 0 .. T!Capacity /\ tokens' \in 0 .. T!Capacity
         /\ last' = TokenFound(stamp[c]).last /\ last' # T!Unset /\ stamp[c] <= last'
         /\ last' \in T!Times
         /\ birth' = IF birth = T!Unset THEN stamp[c] ELSE birth
         /\ TokenSpends(stamp[c], n) \/ TokenRefuses(stamp[c])
<1> USE TokenConstants
<1> DEFINE now == stamp[c]
           full == TokenFound(now)
<1>1. T!CallsType' /\ now \in T!Times /\ now \in Nat
  BY TokenApply DEF T!AllowN, T!TypeOK
<1>2. n \in Nat /\ n * Window \in Nat
  BY DEF T!Sizes
<1>3. full.tokens \in 0 .. T!Capacity /\ full.last \in T!Times /\ now <= full.last
  <2>1. CASE last = T!Unset
    BY <1>1, <2>1 DEF TokenFound
  <2>2. CASE last # T!Unset
    <3>1. last \in T!Times /\ last \in Nat /\ tokens \in 0 .. T!Capacity
      BY <2>2 DEF T!TypeOK
    <3>2. /\ T!Refill(tokens, last, now).tokens \in 0 .. T!Capacity
          /\ T!Refill(tokens, last, now).last = IF now > last THEN now ELSE last
      BY <1>1, <3>1, RefillBounds
    <3> QED BY <1>1, <2>2, <3>1, <3>2 DEF TokenFound
  <2> QED BY <2>1, <2>2
<1>4. /\ last' = full.last /\ birth' = IF birth = T!Unset THEN now ELSE birth
      /\ \/ /\ T!Allows(full.tokens, n) /\ tokens' = full.tokens - n * Window
            /\ spent' = [s \in T!Times |-> [t \in T!Times |->
                 IF s <= now /\ now <= t THEN spent[s][t] + n ELSE spent[s][t]]]
         \/ tokens' = full.tokens /\ UNCHANGED spent
  BY DEF T!AllowN, TokenFound
<1> HIDE DEF full, now
<1>7. /\ last' = full.last /\ last' # T!Unset /\ now <= last' /\ last' \in T!Times
      /\ birth' = IF birth = T!Unset THEN now ELSE birth
      /\ tokens' \in 0 .. T!Capacity /\ spent' \in [T!Times -> [T!Times -> Nat]] => T!TypeOK'
  <2>1. last' = full.last /\ now <= last' /\ last' \in T!Times
    BY <1>3, <1>4
  <2>2. last' # T!Unset
    BY <2>1 DEF T!Unset
  <2>3. birth' \in T!Times \cup {T!Unset}
    BY <1>1, <1>4 DEF T!TypeOK
  <2>4. T!Capacity' = T!Capacity
    BY DEF T!Capacity, T!Burst
  <2> QED BY <1>1, <1>4, <2>1, <2>2, <2>3, <2>4 DEF T!TypeOK
<1>5. CASE /\ T!Allows(full.tokens, n) /\ tokens' = full.tokens - n * Window
           /\ spent' = [s \in T!Times |-> [t \in T!Times |->
                IF s <= now /\ now <= t THEN spent[s][t] + n ELSE spent[s][t]]]
  <2>1. tokens' \in 0 .. T!Capacity
    BY <1>2, <1>3, <1>5 DEF T!Allows
  <2>2. spent' \in [T!Times -> [T!Times -> Nat]]
    BY <1>1, <1>2, <1>5 DEF T!TypeOK
  <2>3. TokenSpends(now, n)
    BY <1>5, <2>1 DEF TokenSpends, full
  <2> QED BY <1>2, <1>3, <1>7, <2>1, <2>2, <2>3 DEF now, full
<1>6. CASE tokens' = full.tokens /\ UNCHANGED spent
  <2>1. tokens' \in 0 .. T!Capacity /\ spent' \in [T!Times -> [T!Times -> Nat]]
    BY <1>3, <1>6 DEF T!TypeOK
  <2>2. TokenRefuses(now)
    BY <1>6 DEF TokenRefuses, full
  <2> QED BY <1>2, <1>3, <1>7, <2>1, <2>2 DEF now, full
<1> QED BY <1>4, <1>5, <1>6

\* A call keeps what is covered, and covers what it admits itself: nothing may be
\* covered yet of what was admitted since a time that is not after its own.
LEMMA CallCovers ==
  ASSUME T!TypeOK, NEW c \in Callers, NEW n \in T!Sizes, T!AllowN(c, n),
         NEW a \in T!Times, NEW u \in Nat, NEW v \in Nat,
         Covers(a, u) \/ (u = 0 /\ a <= stamp[c]),
         v = u \/ (v = u + n /\ TokenSpends(stamp[c], n))
  PROVE  Covers(a, v)'
<1> USE TokenConstants
<1> DEFINE now == stamp[c]
           full == TokenFound(now)
<1>1. /\ now \in T!Times /\ now \in T!Coming /\ now \in Nat /\ a \in Nat
      /\ u * Window \in Nat /\ v * Window \in Nat /\ n * Window \in Nat
  <2>1. now \in T!Times /\ now \in T!Coming
    BY TokenApply DEF T!AllowN, T!TypeOK
  <2>2. n \in Nat
    BY DEF T!Sizes
  <2> HIDE DEF now
  <2> QED BY <2>1, <2>2
<1>2. /\ last' = full.last /\ last' # T!Unset /\ now <= last'
      /\ TokenSpends(now, n) \/ TokenRefuses(now)
      /\ full.tokens \in 0 .. T!Capacity /\ tokens' \in Nat /\ last' \in Nat
  <2>1. /\ last' = full.last /\ last' # T!Unset /\ now <= last' /\ last' \in T!Times
        /\ TokenSpends(now, n) \/ TokenRefuses(now)
        /\ full.tokens \in 0 .. T!Capacity /\ tokens' \in 0 .. T!Capacity
    BY TokenCall
  <2>2. \A x \in T!Times : x \in Nat
    OBVIOUS
  <2>3. \A x \in 0 .. T!Capacity : x \in Nat
    OBVIOUS
  <2> HIDE DEF full, now
  <2> QED BY <2>1, <2>2, <2>3, Zenon
<1>3. v * Window + tokens' <= u * Window + full.tokens
  <2>1. n \in Nat
    BY DEF T!Sizes
  <2>2. (u + n) * Window = u * Window + n * Window
    BY <2>1, Distribute
  <2>3. /\ TokenSpends(now, n) => tokens' = full.tokens - n * Window
        /\ TokenRefuses(now) => tokens' = full.tokens
    BY DEF TokenSpends, TokenRefuses
  <2> HIDE DEF full, now
  <2>4. TokenSpends(now, n) => full.tokens = tokens' + n * Window
    BY <1>1, <1>2, <2>3
  <2>5. v = u \/ (v = u + n /\ full.tokens = tokens' + n * Window)
    BY <2>4 DEF now
  <2> QED BY <1>1, <1>2, <2>2, <2>3, <2>4, <2>5
<1>4. u * Window + full.tokens <= T!Capacity + Rate * (last' - a)
  <2>1. CASE last = T!Unset /\ Covers(a, u)
    <3>1. full.tokens = T!Capacity /\ last' = now
      BY <1>2, <2>1 DEF TokenFound
    <3>2. u * Window <= Rate * (now - a) /\ Rate * (now - a) \in Int
      BY <1>1, <2>1 DEF Covers
    <3> HIDE DEF full, now
    <3> QED BY <1>1, <3>1, <3>2
  <2>2. CASE last # T!Unset /\ Covers(a, u)
    <3>1. last \in Nat /\ tokens \in 0 .. T!Capacity
      BY <2>2 DEF T!TypeOK
    <3>2. /\ full.tokens \in 0 .. T!Capacity /\ full.last = last'
          /\ full.tokens <= tokens + Rate * (last' - last)
      BY <1>1, <1>2, <2>2, <3>1, RefillBounds DEF TokenFound
    <3>3. u * Window + tokens <= T!Capacity + Rate * (last - a)
      BY <2>2 DEF Covers
    <3>4. Rate * (last' - a) = Rate * (last' - last) + Rate * (last - a)
      <4>1. last' - a = (last' - last) + (last - a)
        BY <1>1, <1>2, <3>1
      <4> QED BY <1>1, <1>2, <3>1, <4>1, Distribute
    <3>5. Rate * (last' - last) \in Int /\ Rate * (last - a) \in Int
      BY <1>1, <1>2, <3>1
    <3> HIDE DEF full
    <3> QED BY <1>1, <3>1, <3>2, <3>3, <3>4, <3>5
  <2>3. CASE u = 0 /\ a <= now
    <3>1. full.tokens \in 0 .. T!Capacity
      <4>1. CASE last = T!Unset
        BY <4>1 DEF TokenFound
      <4>2. CASE last # T!Unset
        <5>1. last \in Nat /\ tokens \in 0 .. T!Capacity
          BY <4>2 DEF T!TypeOK
        <5> QED BY <1>1, <4>2, <5>1, RefillBounds DEF TokenFound
      <4> QED BY <4>1, <4>2
    <3>2. last' - a \in Nat /\ Rate * (last' - a) \in Nat /\ u * Window = 0
      BY <1>1, <1>2, <2>3
    <3> HIDE DEF full
    <3> QED BY <3>1, <3>2
  <2> QED BY <2>1, <2>2, <2>3
<1>5. full.tokens \in Int /\ Rate * (last' - a) \in Int
  BY <1>1, <1>2
<1> HIDE DEF full, now
<1>6. v * Window + tokens' <= T!Capacity + Rate * (last' - a)
  BY <1>1, <1>2, <1>3, <1>4, <1>5
<1>7. T!Capacity' = T!Capacity
  BY DEF T!Capacity, T!Burst
<1> QED BY <1>2, <1>6, <1>7 DEF Covers

\* The passing of time brings no debt.
LEMMA CoversStays ==
  ASSUME T!CallsType, T!CallsType', UNCHANGED <<tokens, last>>,
         \A y \in T!Coming' : \E x \in T!Coming : x <= y,
         NEW a \in T!Times, NEW u \in Nat, Covers(a, u)
  PROVE  Covers(a, u)'
<1> USE TokenConstants
<1>1. T!Capacity' = T!Capacity
  BY DEF T!Capacity, T!Burst
<1>2. CASE last # T!Unset
  BY <1>1, <1>2 DEF Covers
<1>3. ASSUME last = T!Unset, NEW y \in T!Coming' PROVE u * Window <= Rate * (y - a)
  <2>1. T!Coming \subseteq Nat /\ T!Coming' \subseteq Nat
    BY TokenComing DEF T!Coming, T!CallsType, T!Times, T!Unset
  <2>2. PICK x \in T!Coming : x <= y
    BY <1>3
  <2>3. u * Window <= Rate * (x - a)
    BY <1>3, <2>2 DEF Covers
  <2>4. Rate * (x - a) <= Rate * (y - a)
    BY <1>3, <2>1, <2>2, Monotone
  <2>5. u * Window \in Int /\ Rate * (x - a) \in Int /\ Rate * (y - a) \in Int
    BY <1>3, <2>1, <2>2
  <2> QED BY <2>3, <2>4, <2>5
<1> QED BY <1>1, <1>2, <1>3 DEF Covers

\* A bucket that is full for every call to come is deleted without a debt.
LEMMA ForgetCovers ==
  ASSUME T!TypeOK, T!Forget, ~early', NEW a \in T!Times, NEW u \in Nat, Covers(a, u)
  PROVE  Covers(a, u)'
<1> USE TokenConstants
<1>1. last' = T!Unset /\ T!Coming' = T!Coming
  BY DEF T!Forget, T!Delete, T!Coming
<1>2. \A x \in T!Coming : T!Settled(x)
  BY DEF T!Forget, T!Delete
<1>3. ASSUME NEW x \in T!Coming PROVE u * Window <= Rate * (x - a)
  <2>1. CASE last = T!Unset
    BY <2>1 DEF Covers
  <2>2. CASE last # T!Unset
    <3>1. /\ last \in Nat /\ tokens \in 0 .. T!Capacity /\ x \in Nat /\ a \in Nat
          /\ u * Window \in Nat
      <4>1. last \in Nat /\ tokens \in 0 .. T!Capacity
        BY <2>2 DEF T!TypeOK
      <4>2. x \in Nat
        BY TokenComing DEF T!TypeOK
      <4> QED BY <4>1, <4>2
    <3>2. last <= x /\ T!Refill(tokens, last, x).tokens = T!Capacity
      BY <1>2, <2>2 DEF T!Settled
    <3>3. /\ T!Refill(tokens, last, x).tokens
               <= tokens + Rate * (T!Refill(tokens, last, x).last - last)
          /\ T!Refill(tokens, last, x).last = IF x > last THEN x ELSE last
      BY <3>1, RefillBounds
    <3>4. T!Refill(tokens, last, x).last = x
      BY <3>1, <3>2, <3>3
    <3>5. T!Capacity <= tokens + Rate * (x - last)
      BY <3>2, <3>3, <3>4
    <3>6. u * Window + tokens <= T!Capacity + Rate * (last - a)
      BY <2>2 DEF Covers
    <3>7. Rate * (x - a) = Rate * (x - last) + Rate * (last - a)
      <4>1. x - a = (x - last) + (last - a)
        BY <3>1
      <4> QED BY <3>1, <4>1, Distribute
    <3>8. Rate * (x - last) \in Int /\ Rate * (last - a) \in Int
      BY <3>1
    <3> QED BY <3>1, <3>5, <3>6, <3>7, <3>8
  <2> QED BY <2>1, <2>2
<1> QED BY <1>1, <1>3 DEF Covers

\* A bucket that nobody has called has granted nothing.
LEMMA TokenInvInit == T!Init => TokenInv
<1> USE TokenConstants
<1> SUFFICES ASSUME T!Init PROVE TokenInv
  OBVIOUS
<1>1. T!CallsType
  <2>1. /\ time \in T!Times /\ stamp \in [Callers -> T!Times \cup {T!Unset}]
        /\ lastSeen \in T!Times \cup {T!Unset} /\ newest \in T!Times \cup {T!Unset}
    BY DEF T!Init, T!CallsInit
  <2>2. ordered \in BOOLEAN /\ early \in BOOLEAN
    BY DEF T!Init, T!CallsInit
  <2> QED BY <2>1, <2>2 DEF T!CallsType
<1>2. \A s, t \in T!Times : spent[s][t] = 0
  BY DEF T!Init
<1>3. T!TypeOK
  BY <1>1 DEF T!Init, T!TypeOK
<1>4. TotalInv /\ SpanInv /\ SeenInv
  BY <1>2 DEF T!Init, T!CallsInit, TotalInv, SpanInv, SeenInv
<1>5. T!TokenConforms
  <2> SUFFICES ASSUME NEW s \in T!Times, NEW t \in T!Times, s <= t
               PROVE  spent[s][t] * Window <= T!Capacity + Rate * (t - s)
    BY DEF T!TokenConforms
  <2>1. Rate * (t - s) \in Nat
    <3>1. t - s \in Nat
      OBVIOUS
    <3> QED BY <3>1
  <2> QED BY <1>2, <2>1
<1> QED BY <1>3, <1>4, <1>5 DEF TokenInv

\* Reading the clock, applying a time that was read, however old, the passing of
\* time and the deletion of the entry all keep the invariant.
LEMMA TokenInvStep == TokenInv /\ [T!Next]_(T!vars) => TokenInv'
<1> USE TokenConstants
<1> SUFFICES ASSUME TokenInv, [T!Next]_(T!vars) PROVE TokenInv'
  OBVIOUS
<1>0. /\ T!CallsType /\ T!TypeOK /\ TotalInv /\ SpanInv /\ SeenInv /\ T!TokenConforms
      /\ \A s, t \in T!Times : spent[s][t] \in Nat
      /\ 0 \in T!Times /\ MaxTime \in T!Times /\ birth \in T!Times \cup {T!Unset}
      /\ T!Capacity' = T!Capacity
  BY DEF TokenInv, T!TypeOK, T!Capacity, T!Burst
<1>1. ASSUME T!CallsType', UNCHANGED <<T!bucket, lastSeen, newest, ordered, early>>,
             \A y \in T!Coming' : \E x \in T!Coming : x <= y
      PROVE  TokenInv'
  <2>1. ASSUME NEW a \in T!Times, NEW u \in Nat, Covers(a, u) PROVE Covers(a, u)'
    BY <1>0, <1>1, <2>1, CoversStays DEF T!bucket
  <2>2. T!TypeOK'
    BY <1>0, <1>1 DEF T!TypeOK, T!bucket
  <2>3. TotalInv'
    BY <1>0, <1>1, <2>1 DEF TotalInv, T!bucket
  <2>4. SpanInv'
    BY <1>0, <1>1, <2>1 DEF SpanInv, T!bucket
  <2>5. SeenInv' /\ T!TokenConforms'
    BY <1>0, <1>1 DEF SeenInv, T!TokenConforms, T!bucket
  <2> QED BY <2>2, <2>3, <2>4, <2>5 DEF TokenInv
<1>2. ASSUME NEW c \in Callers, T!ReadClock(c), UNCHANGED T!bucket PROVE TokenInv'
  <2>1. T!CallsType' /\ T!Coming' \subseteq T!Coming
    BY <1>0, <1>2 DEF T!ReadClock, T!CallsType, T!Coming
  <2>2. T!Coming \subseteq Nat
    BY <1>0, TokenComing
  <2>3. \A y \in T!Coming' : y \in T!Coming /\ y <= y
    BY <2>1, <2>2
  <2> QED BY <1>1, <1>2, <2>1, <2>3 DEF T!ReadClock
<1>3. CASE T!Tick /\ UNCHANGED T!bucket
  <2>1. T!CallsType'
    BY <1>0, <1>3 DEF T!Tick, T!CallsType, T!Times
  <2>2. T!Coming \subseteq Nat /\ time \in T!Coming /\ time \in Nat
    BY <1>0, TokenComing
  <2>3. \A y \in T!Coming' : y \in T!Coming \/ y = time + 1
    BY <1>3 DEF T!Tick, T!Coming
  <2>4. \A y \in T!Coming' : \E x \in T!Coming : x <= y
    <3> SUFFICES ASSUME NEW y \in T!Coming' PROVE \E x \in T!Coming : x <= y
      OBVIOUS
    <3>1. CASE y \in T!Coming
      <4>1. y <= y
        BY <2>2, <3>1
      <4> QED BY <3>1, <4>1
    <3>2. CASE y = time + 1
      <4>1. time <= y
        BY <2>2, <3>2
      <4> QED BY <2>2, <4>1
    <3> QED BY <2>3, <3>1, <3>2
  <2> QED BY <1>1, <1>3, <2>1, <2>4 DEF T!Tick
<1>4. CASE UNCHANGED T!vars
  <2>1. T!CallsType' /\ T!Coming' = T!Coming /\ T!Coming \subseteq Nat
    BY <1>0, <1>4, TokenComing DEF T!vars, T!calls, T!CallsType, T!Coming
  <2>2. \A y \in T!Coming' : y \in T!Coming /\ y <= y
    BY <2>1
  <2> QED BY <1>1, <1>4, <2>1, <2>2 DEF T!vars, T!calls
<1>5. CASE T!Forget
  <2>1. /\ tokens' = T!Capacity /\ last' = T!Unset /\ lastSeen' = T!Unset
        /\ UNCHANGED <<birth, spent, newest, ordered, time, stamp>>
        /\ (~early' => ~early) /\ early' \in BOOLEAN
    BY <1>0, <1>5 DEF T!Forget, T!Delete, T!CallsType
  <2>2. ASSUME ~early', NEW a \in T!Times, NEW u \in Nat, Covers(a, u) PROVE Covers(a, u)'
    BY <1>0, <1>5, <2>2, ForgetCovers
  <2>3. T!TypeOK'
    BY <1>0, <2>1 DEF T!TypeOK, T!CallsType
  <2>4. TotalInv'
    BY <1>0, <2>1, <2>2 DEF TotalInv
  <2>5. SpanInv'
    BY <1>0, <2>1, <2>2 DEF SpanInv
  <2>6. SeenInv' /\ T!TokenConforms'
    BY <1>0, <2>1 DEF SeenInv, T!TokenConforms
  <2> QED BY <2>3, <2>4, <2>5, <2>6 DEF TokenInv
<1>6. ASSUME NEW c \in Callers, NEW n \in T!Sizes, T!AllowN(c, n) PROVE TokenInv'
  <2> DEFINE now == stamp[c]
  <2>1. /\ now \in T!Times /\ now \in Nat /\ (early' <=> early) /\ lastSeen' = now
        /\ (ordered' => ordered /\ newest <= now /\ newest' = now)
    BY <1>0, <1>6, TokenApply DEF T!AllowN
  <2>2. /\ T!TypeOK' /\ n \in Nat
        /\ last' = TokenFound(now).last /\ last' # T!Unset /\ now <= last' /\ last' \in T!Times
        /\ birth' = IF birth = T!Unset THEN now ELSE birth
        /\ TokenSpends(now, n) \/ TokenRefuses(now)
    BY <1>0, <1>6, TokenCall
  <2>3. \A s, t \in T!Times : /\ spent'[s][t] \in Nat
                            /\ \/ spent'[s][t] = spent[s][t]
                               \/ /\ s <= now /\ now <= t /\ TokenSpends(now, n)
                                  /\ spent'[s][t] = spent[s][t] + n
    <3>1. \A s, t \in T!Times : spent'[s][t] \in Nat
      BY <2>2 DEF T!TypeOK
    <3>2. CASE TokenSpends(now, n)
      BY <3>1, <3>2 DEF TokenSpends
    <3>3. CASE TokenRefuses(now)
      BY <3>1, <3>3 DEF TokenRefuses
    <3> QED BY <2>2, <3>2, <3>3
  <2>4. ASSUME NEW a \in T!Times, NEW s \in T!Times, NEW t \in T!Times,
               Covers(a, spent[s][t]) \/ (spent[s][t] = 0 /\ a <= now)
        PROVE  Covers(a, spent[s][t])'
    <3> DEFINE u == spent[s][t]
               v == spent'[s][t]
    <3>1. u \in Nat /\ v \in Nat /\ (v = u \/ (v = u + n /\ TokenSpends(now, n)))
      BY <1>0, <2>3
    <3>2. Covers(a, u) \/ (u = 0 /\ a <= now)
      BY <2>4
    <3>3. \A x \in Nat, y \in Nat :
            /\ Covers(a, x) \/ (x = 0 /\ a <= now)
            /\ y = x \/ (y = x + n /\ TokenSpends(now, n))
            => /\ last' # T!Unset => y * Window + tokens' <= T!Capacity' + Rate * (last' - a)
               /\ last' = T!Unset => \A z \in T!Coming' : y * Window <= Rate * (z - a)
      <4> SUFFICES ASSUME NEW x \in Nat, NEW y \in Nat,
                          Covers(a, x) \/ (x = 0 /\ a <= now),
                          y = x \/ (y = x + n /\ TokenSpends(now, n))
                   PROVE  /\ last' # T!Unset =>
                               y * Window + tokens' <= T!Capacity' + Rate * (last' - a)
                          /\ last' = T!Unset => \A z \in T!Coming' : y * Window <= Rate * (z - a)
        OBVIOUS
      <4>1. Covers(a, y)'
        BY <1>0, <1>6, CallCovers
      <4> QED BY <4>1 DEF Covers
    <3> HIDE DEF now
    <3>4. /\ last' # T!Unset => v * Window + tokens' <= T!Capacity' + Rate * (last' - a)
          /\ last' = T!Unset => \A z \in T!Coming' : v * Window <= Rate * (z - a)
      <4> HIDE DEF u, v
      <4> QED BY <3>1, <3>2, <3>3
    <3> QED BY <3>4 DEF Covers
  <2> HIDE DEF now
  <2>5. TotalInv'
    <3>1. CASE birth = T!Unset
      <4>1. PICK a \in T!Times : a = now
        BY <2>1
      <4>2. birth' = a /\ a # T!Unset /\ a <= now
        BY <2>1, <2>2, <3>1, <4>1 DEF T!Unset
      <4>3. spent[0][MaxTime] = 0
        BY <1>0, <3>1 DEF TotalInv
      <4>4. Covers(a, spent[0][MaxTime])'
        BY <1>0, <2>4, <4>2, <4>3
      <4>5. Covers(birth, spent[0][MaxTime])'
        BY <4>2, <4>4 DEF Covers
      <4> QED BY <4>2, <4>5 DEF TotalInv
    <3>2. CASE birth # T!Unset /\ ~early
      <4>1. birth' = birth /\ birth \in T!Times /\ Covers(birth, spent[0][MaxTime])
        BY <1>0, <2>2, <3>2 DEF TotalInv
      <4>2. Covers(birth, spent[0][MaxTime])'
        BY <1>0, <2>4, <4>1
      <4> QED BY <3>2, <4>1, <4>2 DEF TotalInv, Covers
    <3>3. CASE birth # T!Unset /\ early
      BY <2>1, <2>2, <3>3 DEF TotalInv
    <3> QED BY <3>1, <3>2, <3>3
  <2>6. ASSUME ~early, NEW s \in T!Times, NEW t \in T!Times, spent'[s][t] > 0
        PROVE  Covers(s, spent[s][t])'
    <3>1. spent[s][t] \in Nat
      BY <1>0
    <3>2. Covers(s, spent[s][t]) \/ (spent[s][t] = 0 /\ s <= now)
      <4>1. CASE spent[s][t] > 0
        BY <1>0, <2>6, <4>1 DEF SpanInv
      <4>2. CASE spent[s][t] = 0
        <5>1. spent'[s][t] # spent[s][t]
          BY <2>6, <4>2
        <5> QED BY <2>3, <4>2, <5>1
      <4> QED BY <3>1, <4>1, <4>2
    <3> QED BY <2>4, <3>2
  <2>7. SpanInv'
    BY <2>1, <2>6 DEF SpanInv, Covers
  <2>8. SeenInv' /\ (ordered' => last' = now)
    <3>1. now # T!Unset
      BY <2>1 DEF T!Unset
    <3>2. ASSUME ordered' PROVE last' = now
      <4>1. CASE last = T!Unset
        BY <2>2, <4>1 DEF TokenFound
      <4>2. CASE last # T!Unset
        <5>1. last <= now /\ last \in Nat /\ tokens \in 0 .. T!Capacity
          BY <1>0, <2>1, <3>2, <4>2 DEF SeenInv, T!TypeOK
        <5>2. TokenFound(now).last = IF now > last THEN now ELSE last
          BY <2>1, <4>2, <5>1, RefillBounds DEF TokenFound
        <5> QED BY <2>1, <2>2, <5>1, <5>2
      <4> QED BY <4>1, <4>2
    <3> QED BY <2>1, <2>2, <3>1, <3>2 DEF SeenInv
  <2>9. T!TokenConforms'
    <3> SUFFICES ASSUME ordered', ~early', NEW s \in T!Times, NEW t \in T!Times, s <= t
                 PROVE  spent'[s][t] * Window <= T!Capacity + Rate * (t - s)
      BY <1>0 DEF T!TokenConforms
    <3>1. ordered /\ ~early /\ last' = now
      BY <2>1, <2>8
    <3>2. CASE spent'[s][t] = spent[s][t]
      BY <1>0, <3>1, <3>2 DEF T!TokenConforms
    <3>3. CASE s <= now /\ now <= t /\ spent'[s][t] = spent[s][t] + n /\ n > 0
      <4>1. spent'[s][t] \in Nat /\ spent'[s][t] > 0
        BY <1>0, <2>2, <3>3
      <4>2. Covers(s, spent[s][t])'
        BY <2>6, <3>1, <4>1
      <4>3. spent'[s][t] * Window + tokens' <= T!Capacity + Rate * (now - s)
        BY <1>0, <2>2, <3>1, <4>2 DEF Covers
      <4>4. Rate * (now - s) <= Rate * (t - s)
        <5>1. s \in Nat /\ t \in Nat
          OBVIOUS
        <5> HIDE DEF now
        <5>2. now \in Nat /\ now <= t
          BY <2>1, <3>3
        <5>3. now - s \in Int /\ t - s \in Int /\ now - s <= t - s
          BY <5>1, <5>2
        <5> QED BY <5>3, Monotone
      <4>5. /\ tokens' \in Nat /\ spent'[s][t] * Window \in Nat
            /\ Rate * (now - s) \in Int /\ Rate * (t - s) \in Int
        BY <1>0, <2>1, <2>2, <4>1 DEF T!TypeOK
      <4> QED BY <4>3, <4>4, <4>5
    <3> QED BY <2>3, <3>2, <3>3 DEF T!Sizes
  <2> QED BY <2>2, <2>5, <2>7, <2>8, <2>9 DEF TokenInv
<1> QED BY <1>2, <1>3, <1>4, <1>5, <1>6 DEF T!Next

---------------------------------------------------------------------------
(* Theorems.                                                               *)

\* Whatever goroutines do and whenever the entry is deleted, the parts of the
\* invariant hold.
LEMMA TokenInvariant == T!Spec => []TokenInv
BY TokenInvInit, TokenInvStep, PTL DEF T!Spec

\* The bucket never holds more than its burst nor less than nothing.
THEOREM TokenTypes == T!Spec => []T!TypeOK
BY TokenInvariant, PTL DEF TokenInv

\* allowN spends no token that has not arrived, in whatever order goroutines
\* apply the times they have read: a time before the last refill brings none.
THEOREM TokensAlwaysConserved == T!Spec => []T!TokensConserved
<1>1. TokenInv => T!TokensConserved
  BY DEF TokenInv, TotalInv, Covers, T!TokensConserved
<1> QED BY <1>1, TokenInvariant, PTL

\* If calls are applied in order, no span of time is granted more than the burst
\* and Rate per Window, for every rate, window, burst and request size.
THEOREM TokenAlwaysConforms == T!Spec => []T!TokenConforms
BY TokenInvariant, PTL DEF TokenInv

\* A bucket that is refilled in a while has the tokens that have arrived, up to
\* its burst.
LEMMA After ==
  ASSUME T!TypeOK, last # T!Unset, NEW d \in Nat
  PROVE  LET arrived == tokens + Rate * d
         IN T!Refill(tokens, last, last + d).tokens
              = IF T!Capacity <= arrived THEN T!Capacity ELSE arrived
<1> USE TokenConstants
<1>1. last \in Nat /\ tokens \in 0 .. T!Capacity /\ Rate * d \in Nat
  BY DEF T!TypeOK
<1>2. CASE d = 0
  BY <1>1, <1>2 DEF T!Refill
<1>3. CASE d # 0
  <2>1. last + d > last /\ (last + d) - last = d
    BY <1>1, <1>3
  <2>2. T!Refill(tokens, last, last + d).tokens = T!Min({T!Capacity, tokens + Rate * d})
    BY <2>1 DEF T!Refill
  <2> QED BY <1>1, <2>2, MinOfTwo
<1> QED BY <1>2, <1>3

\* What is missing arrives in RetryAfter, which is rounded up, and not before.
LEMMA TokenRetry == T!TypeOK => T!TokenRetryExact
<1> USE TokenConstants
<1> SUFFICES ASSUME T!TypeOK, last # T!Unset, NEW n \in T!Sizes, n <= T!Burst,
                    ~T!Allows(tokens, n)
             PROVE  /\ T!Allows(T!Refill(tokens, last, last + T!RetryAfter(tokens, n)).tokens, n)
                    /\ \A d \in 0 .. T!RetryAfter(tokens, n) - 1 :
                         ~T!Allows(T!Refill(tokens, last, last + d).tokens, n)
  BY DEF T!TokenRetryExact
<1> DEFINE missing == n * Window - tokens
           retry == T!RetryAfter(tokens, n)
<1>1. n \in Nat /\ tokens \in 0 .. T!Capacity /\ n * Window \in Nat
  BY DEF T!Sizes, T!TypeOK
<1>2. missing \in Nat /\ n * Window > tokens
  BY <1>1 DEF T!Allows
<1>3. retry = (missing + Rate - 1) \div Rate
  BY DEF T!RetryAfter
<1>4. n * Window <= T!Capacity
  <2>1. Window * n <= Window * T!Burst
    BY <1>1, Monotone
  <2>2. Window * n = n * Window /\ Window * T!Burst = T!Burst * Window
    BY <1>1
  <2> QED BY <2>1, <2>2 DEF T!Capacity
<1> HIDE DEF missing, retry
<1>5. retry \in Nat /\ Rate * retry >= missing /\ \A d \in Nat : d < retry => Rate * d < missing
  BY <1>2, <1>3, RoundedUp
<1>6. T!Allows(T!Refill(tokens, last, last + retry).tokens, n)
  <2>1. tokens + Rate * retry >= n * Window
    <3>1. Rate * retry \in Nat
      BY <1>5
    <3> QED BY <1>1, <1>5, <3>1 DEF missing
  <2>2. T!Refill(tokens, last, last + retry).tokens
          = IF T!Capacity <= tokens + Rate * retry THEN T!Capacity ELSE tokens + Rate * retry
    BY <1>5, After
  <2> QED BY <1>4, <2>1, <2>2 DEF T!Allows
<1>7. ASSUME NEW d \in 0 .. retry - 1
      PROVE  ~T!Allows(T!Refill(tokens, last, last + d).tokens, n)
  <2>1. d \in Nat /\ Rate * d < missing /\ Rate * d \in Nat
    BY <1>5
  <2>2. T!Refill(tokens, last, last + d).tokens
          = IF T!Capacity <= tokens + Rate * d THEN T!Capacity ELSE tokens + Rate * d
    BY <2>1, After
  <2>3. tokens + Rate * d < n * Window
    BY <1>1, <2>1 DEF missing
  <2> QED BY <1>1, <1>4, <2>1, <2>2, <2>3 DEF T!Allows
<1> QED BY <1>6, <1>7 DEF retry

\* The RetryAfter of a refusal is the exact wait, for any rate, window and size
\* that the burst admits: rounding up neither wastes a clock unit nor lacks one.
THEOREM TokenRetryAlwaysExact == T!Spec => []T!TokenRetryExact
BY TokenRetry, TokenTypes, PTL

\* A bucket that was last refilled when it was last seen fills up in RefillTime.
LEMMA TokenIdle == TokenInv => T!TokenIdleSettled
<1> USE TokenConstants
<1> SUFFICES ASSUME TokenInv, ordered, lastSeen # T!Unset, time - lastSeen >= T!RefillTime,
                    last # T!Unset
             PROVE  last <= time /\ T!Refill(tokens, last, time).tokens = T!Capacity
  BY DEF T!TokenIdleSettled, T!Settled
<1>1. T!TypeOK /\ last = lastSeen
  BY DEF TokenInv, SeenInv
<1>2. last \in Nat /\ time \in Nat /\ tokens \in 0 .. T!Capacity
  BY <1>1 DEF T!TypeOK, T!CallsType
<1>3. T!RefillTime \in Nat /\ Rate * T!RefillTime >= T!Capacity
  BY RoundedUp DEF T!RefillTime
<1> DEFINE d == time - last
<1>4. d \in Nat /\ T!RefillTime <= d /\ last + d = time
  BY <1>1, <1>2, <1>3
<1> HIDE DEF d
<1>5. Rate * T!RefillTime <= Rate * d /\ Rate * d \in Nat
  BY <1>3, <1>4, Monotone
<1>6. T!Capacity <= tokens + Rate * d
  <2>1. Rate * T!RefillTime \in Nat
    BY <1>3
  <2> QED BY <1>2, <1>3, <1>5, <2>1
<1>7. T!Refill(tokens, last, last + d).tokens = T!Capacity
  BY <1>1, <1>4, <1>6, After
<1> QED BY <1>2, <1>4, <1>7

\* A bucket that is idle for as long as it takes to fill may be deleted, whatever
\* the configuration, if calls are applied in order: an IdleTTL of that length is
\* enough.
THEOREM TokenIdleAlwaysSettled == T!Spec => []T!TokenIdleSettled
BY TokenIdle, TokenInvariant, PTL

=============================================================================
