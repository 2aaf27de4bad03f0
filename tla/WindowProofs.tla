---------------------------- MODULE WindowProofs ----------------------------
(***************************************************************************)
(* The two limiters that keep a window of what they admitted keep their    *)
(* rates, for every rate, window, number of buckets and request size and   *)
(* any number of goroutines; and so do all limiters of the registry, under *)
(* one specification.                                                      *)
(*                                                                         *)
(* That a window holds no more than Rate units is not inductive: it says   *)
(* nothing of the entry.  The strengthening says where the units of a span *)
(* are.  In the sliding window they are the last records: if w units were  *)
(* admitted from s to t, the last w records at least are not older than s, *)
(* as long as s is in the window of a call that may still come.  Pruning   *)
(* from the front leaves those, an admission adds to them, and the entry   *)
(* holds Rate records at most.  In the bucketed window they are in the     *)
(* buckets from the one of s on, as long as that one is kept by a call     *)
(* that may still come; a span of fewer buckets than those kept starts in  *)
(* such a one.  Both need calls to be applied in the order of their times, *)
(* as the code does not ensure: a later call may have pruned what an       *)
(* earlier one would count.                                                *)
(*                                                                         *)
(* Min takes the first element that CHOOSE finds, so pruning needs to know *)
(* that a set of indexes has a least one: Least, from the library's        *)
(* well-founded order of numbers.                                          *)
(***************************************************************************)
EXTENDS RefillProofs, Sequences, FiniteSetTheorems

---------------------------------------------------------------------------
(* Numbers and sets of them.                                               *)

\* A set of natural numbers has a least one.
LEMMA Least ==
  ASSUME NEW A, A \subseteq Nat, A # {}
  PROVE  \E x \in A : \A y \in A : x <= y
<1> DEFINE less == OpToRel(<, Nat)
<1>1. IsWellFoundedOn(less, Nat)
  BY NatLessThanWellFounded
<1>2. \A x, y \in Nat : <<x, y>> \in less <=> x < y
  BY DEF OpToRel
<1> HIDE DEF less
<1>3. PICK x \in A : \A y \in A : <<y, x>> \notin less
  BY <1>1, WFMin
<1>4. \A y \in A : x \in Nat /\ y \in Nat /\ ~(y < x)
  BY <1>2, <1>3
<1>5. \A y \in A : x <= y
  BY <1>4
<1> QED BY <1>3, <1>5

USE ConfigAssumption

---------------------------------------------------------------------------
(* Calls, whatever the limiter.                                            *)

\* Nothing comes from the future.
CallsInv ==
  /\ CallsType /\ SeenLast
  /\ newest <= time /\ \A x \in Coming : x <= time

\* What is known of the times.
LEMMA TimesAreNumbers ==
  ASSUME CallsType
  PROVE  /\ Times \subseteq Nat /\ Coming \subseteq Nat /\ Coming \subseteq Times
         /\ time \in Coming /\ time \in Nat /\ newest \in Int
BY ComingTimes DEF CallsType, Coming, Times, Unset

\* There were no calls.
LEMMA CallsInvInit == CallsInit => CallsInv
<1> SUFFICES ASSUME CallsInit PROVE CallsInv
  OBVIOUS
<1>1. CallsType
  <2>1. /\ time \in Times
        /\ stamp \in [Callers -> Times \cup {Unset}]
        /\ lastSeen \in Times \cup {Unset}
        /\ newest \in Times \cup {Unset}
    BY DEF CallsInit, Times, Unset
  <2> QED BY <2>1 DEF CallsInit, CallsType
<1>2. newest <= time /\ Coming = {time} /\ time \in Nat
  BY DEF CallsInit, Coming, Unset
<1>3. SeenLast
  BY DEF CallsInit, SeenLast
<1> QED BY <1>1, <1>2, <1>3 DEF CallsInv

\* A call is applied with a time that was to come.
LEMMA CallStep ==
  ASSUME CallsInv, NEW c \in Callers, Apply(c)
  PROVE  /\ CallsInv' /\ Coming' \subseteq Coming
         /\ stamp[c] \in Times /\ stamp[c] \in Coming
         /\ early' = early /\ lastSeen' = stamp[c]
         /\ newest' \in Int /\ newest' >= newest /\ newest' >= stamp[c]
         /\ ordered' => ordered /\ newest <= stamp[c] /\ newest' = stamp[c]
<1> USE DEF CallsInv
<1>1. CallsType' /\ newest' >= newest /\ newest' >= stamp[c]
  BY ApplyType
<1>2. Coming' \subseteq Coming
  BY ComingStays
<1>3. stamp[c] \in Times /\ stamp[c] \in Coming /\ stamp[c] \in Nat /\ newest \in Int
  BY DEF Apply, CallsType, Coming, Times, Unset
<1>4. newest' \in {newest, stamp[c]}
  <2>1. \E x \in {newest, stamp[c]} : \A y \in {newest, stamp[c]} : x >= y
    BY <1>3
  <2>2. newest' = Max({newest, stamp[c]})
    BY DEF Apply
  <2> QED BY <2>1, <2>2 DEF Max
<1>5. ordered' => ordered /\ newest <= stamp[c] /\ newest' = stamp[c]
  <2>1. ordered' => ordered /\ newest <= stamp[c]
    BY DEF Apply
  <2>2. newest <= stamp[c] => newest' = stamp[c]
    BY <1>1, <1>3, <1>4
  <2> QED BY <2>1, <2>2
<1>6. newest' <= time' /\ \A x \in Coming' : x <= time'
  BY <1>2, <1>3, <1>4 DEF Apply
<1>7. SeenLast'
  BY <1>5 DEF Apply, SeenLast
<1> QED BY <1>1, <1>2, <1>3, <1>4, <1>5, <1>6, <1>7 DEF Apply

\* The clock and those who read it bring on only times that are later than one
\* that was to come.
LEMMA ClockStep ==
  ASSUME CallsInv, (\E c \in Callers : ReadClock(c)) \/ Tick \/ UNCHANGED calls
  PROVE  /\ CallsInv' /\ time' >= time
         /\ UNCHANGED <<lastSeen, newest, ordered, early>>
         /\ Coming' \subseteq Nat
         /\ \A y \in Coming' : \E x \in Coming : x <= y /\ (newest <= y => newest <= x)
<1> USE DEF CallsInv
<1>0. Coming \subseteq Nat /\ time \in Coming /\ time \in Nat
  BY TimesAreNumbers
<1>1. CASE \E c \in Callers : ReadClock(c)
  <2>1. PICK c \in Callers : ReadClock(c)
    BY <1>1
  <2>2. Coming' \subseteq Coming
    BY <2>1, ComingStays
  <2>3. \A y \in Coming' : y \in Coming /\ y <= y
    BY <1>0, <2>2
  <2>4. CallsType'
    BY <2>1 DEF ReadClock, CallsType
  <2> QED BY <1>0, <2>1, <2>3, <2>4 DEF ReadClock, SeenLast
<1>2. CASE Tick
  <2>1. CallsType'
    BY <1>2 DEF Tick, CallsType, Times
  <2>2. time' = time + 1 /\ UNCHANGED <<lastSeen, newest, ordered, early>>
    BY <1>2 DEF Tick
  <2>3. ASSUME NEW y \in Coming' PROVE y \in Coming \/ y = time'
    BY <1>2 DEF Tick, Coming
  <2>4. ASSUME NEW y \in Coming'
        PROVE  /\ \E x \in Coming : x <= y /\ (newest <= y => newest <= x)
               /\ y <= time' /\ y \in Nat
    <3>1. CASE y \in Coming
      BY <1>0, <2>2, <3>1
    <3>2. CASE y = time'
      BY <1>0, <2>2, <3>2
    <3> QED BY <2>3, <3>1, <3>2
  <2>5. newest <= time' /\ time' >= time
    BY <1>0, <2>2, TimesAreNumbers
  <2> QED BY <2>1, <2>2, <2>4, <2>5 DEF SeenLast
<1>3. CASE UNCHANGED calls
  <2>1. Coming' = Coming
    BY <1>3 DEF calls, Coming
  <2>2. \A y \in Coming' : y \in Coming /\ y <= y
    BY <1>0, <2>1
  <2> QED BY <1>0, <1>3, <2>1, <2>2 DEF calls, CallsType, SeenLast
<1> QED BY <1>1, <1>2, <1>3

\* Deleting the entry leaves the times alone.
LEMMA DeleteStep ==
  ASSUME CallsInv, NEW settled \in BOOLEAN, Delete(settled)
  PROVE  /\ CallsInv' /\ Coming' = Coming
         /\ UNCHANGED <<time, newest, ordered>>
         /\ ~early' => ~early /\ settled
BY DEF Delete, CallsInv, CallsType, SeenLast, Coming

---------------------------------------------------------------------------
(* The sliding window.                                                     *)

\* Its calls are those of every limiter.
LEMMA SlidingCalls ==
  /\ S!Times = Times /\ S!Sizes = Sizes /\ S!Unset = Unset /\ S!Coming = Coming
  /\ S!CallsType <=> CallsType
  /\ S!CallsInit <=> CallsInit
  /\ S!Tick <=> Tick
  /\ S!calls = calls
  /\ \A c \in Callers : S!ReadClock(c) <=> ReadClock(c)
  /\ \A c \in Callers : S!Apply(c) <=> Apply(c)
  /\ \A settled \in BOOLEAN : S!Delete(settled) <=> Delete(settled)
<1>1. S!Times = Times /\ S!Sizes = Sizes /\ S!Unset = Unset
  BY DEF S!Times, Times, S!Sizes, Sizes, S!Unset, Unset
<1>2. S!Coming = Coming
  BY <1>1 DEF S!Coming, Coming
<1>3. (S!CallsType <=> CallsType) /\ (S!CallsInit <=> CallsInit) /\ (S!Tick <=> Tick)
  BY <1>1 DEF S!CallsType, CallsType, S!CallsInit, CallsInit, S!Tick, Tick
<1>4. S!calls = calls
  BY DEF S!calls, calls
<1>5. \A c \in Callers : S!ReadClock(c) <=> ReadClock(c)
  BY <1>1 DEF S!ReadClock, ReadClock
<1>6. \A c \in Callers : S!Apply(c) <=> Apply(c)
  BY <1>1 DEF S!Apply, Apply, S!Max, Max
<1>7. \A settled \in BOOLEAN : S!Delete(settled) <=> Delete(settled)
  BY <1>1 DEF S!Delete, Delete, S!Expired, Expired
<1> QED BY <1>1, <1>2, <1>3, <1>4, <1>5, <1>6, <1>7

\* The records of kept are those of recs but the first k, which are all before
\* the window that ends now; the next one is not.
Pruned(kept, recs, now, k) ==
  /\ kept \in Seq(Times) /\ Len(kept) = Len(recs) - k
  /\ \A i \in 1 .. Len(kept) : kept[i] = recs[k + i]
  /\ \A i \in 1 .. k : recs[i] <= now - Window
  /\ k < Len(recs) => recs[k + 1] > now - Window

\* Prune keeps the records from the first one on that is in the window.
LEMMA PruneFacts ==
  ASSUME NEW recs \in Seq(Times), NEW now \in Int
  PROVE  \E k \in 0 .. Len(recs) : Pruned(S!Prune(recs, now), recs, now, k)
<1> DEFINE inside == {i \in DOMAIN recs : recs[i] > now - Window}
           n == Len(recs)
           kept == S!Prune(recs, now)
<1>1. n \in Nat /\ DOMAIN recs = 1 .. n /\ \A i \in 1 .. n : recs[i] \in Nat
  BY DEF Times
<1>2. CASE inside = {}
  <2>1. S!Prune(recs, now) = <<>>
    BY <1>2 DEF S!Prune
  <2>2. ASSUME NEW i \in 1 .. n PROVE recs[i] <= now - Window
    <3>1. i \notin inside /\ recs[i] \in Nat
      BY <1>1, <1>2
    <3> QED BY <1>1, <3>1
  <2>3. kept \in Seq(Times) /\ Len(kept) = 0
    BY <2>1
  <2> HIDE DEF kept
  <2>4. n \in 0 .. n /\ \A i \in 1 .. Len(kept) : kept[i] = recs[n + i]
    BY <1>1, <2>3
  <2>5. Len(kept) = n - n /\ ~(n < Len(recs))
    BY <1>1, <2>3
  <2>6. Pruned(kept, recs, now, n)
    BY <2>2, <2>3, <2>4, <2>5 DEF Pruned
  <2> QED BY <2>4, <2>6 DEF kept
<1>3. CASE inside # {}
  <2> DEFINE m == S!Min(inside)
  <2>1. m \in inside /\ \A i \in inside : m <= i
    <3>1. inside \subseteq Nat
      BY <1>1
    <3>2. \E x \in inside : \A y \in inside : x <= y
      BY <1>3, <3>1, Least
    <3> QED BY <3>2 DEF S!Min
  <2>2. S!Prune(recs, now) = SubSeq(recs, m, n)
    BY <1>3 DEF S!Prune
  <2>3. m \in 1 .. n /\ recs[m] > now - Window
    BY <1>1, <2>1
  <2>4. ASSUME NEW i \in 1 .. m - 1 PROVE recs[i] <= now - Window
    <3>1. i \in 1 .. n /\ ~(m <= i)
      BY <1>1, <2>3
    <3>2. i \notin inside
      BY <2>1, <3>1
    <3> QED BY <1>1, <3>1, <3>2
  <2> HIDE DEF m, inside
  <2>5. /\ SubSeq(recs, m, n) \in Seq(Times) /\ Len(SubSeq(recs, m, n)) = n - (m - 1)
        /\ \A i \in 1 .. n - (m - 1) : SubSeq(recs, m, n)[i] = recs[(m - 1) + i]
    BY <1>1, <2>3
  <2>6. m - 1 \in 0 .. n /\ m - 1 + 1 = m
    BY <1>1, <2>3
  <2>7. Pruned(SubSeq(recs, m, n), recs, now, m - 1)
    BY <2>3, <2>4, <2>5, <2>6 DEF Pruned
  <2> QED BY <2>2, <2>6, <2>7
<1> QED BY <1>2, <1>3

\* The last records, w of them, are not older than s.
LastFrom(recs, w, s) ==
  /\ w <= Len(recs)
  /\ \A i \in 1 .. Len(recs) : i > Len(recs) - w => recs[i] >= s

\* A record is a time that was applied.
RecordsPast == \A i \in 1 .. Len(records) : records[i] <= newest

\* What a span was granted that reaches into the window of any call to come is on
\* record; and no time has been granted anything before a call came with it.
Recorded ==
  ordered /\ ~early =>
    \A e \in Coming : \A s, t \in Times :
      newest <= e /\ s > e - Window => LastFrom(records, admitted[s][t], s)
NothingAhead == \A s, t \in Times : s > newest => admitted[s][t] = 0

SlidingInv ==
  /\ S!TypeOK /\ CallsInv /\ RecordsPast /\ NothingAhead
  /\ Recorded /\ S!WindowExact

\* Whoever is on record in the last places stays there when old records go.
LEMMA PruneKeepsLast ==
  ASSUME NEW recs \in Seq(Times), NEW now \in Int, NEW w \in Nat, NEW s \in Int,
         LastFrom(recs, w, s), s > now - Window
  PROVE  LastFrom(S!Prune(recs, now), w, s)
<1> DEFINE kept == S!Prune(recs, now)
<1>0. PICK k \in 0 .. Len(recs) : Pruned(kept, recs, now, k)
  BY PruneFacts
<1> HIDE DEF kept
<1>1. /\ kept \in Seq(Times) /\ Len(kept) = Len(recs) - k
      /\ \A i \in 1 .. Len(kept) : kept[i] = recs[k + i]
      /\ \A i \in 1 .. k : recs[i] <= now - Window
  BY <1>0 DEF Pruned
<1>2. Len(recs) \in Nat /\ \A i \in 1 .. Len(recs) : recs[i] \in Nat
  BY DEF Times
<1>3. w <= Len(kept)
  <2> SUFFICES ASSUME w > Len(kept) PROVE FALSE
    BY <1>1, <1>2
  <2>1. k \in 1 .. Len(recs) /\ k > Len(recs) - w
    BY <1>1, <1>2 DEF LastFrom
  <2>2. recs[k] >= s /\ recs[k] <= now - Window /\ recs[k] \in Nat
    BY <1>1, <1>2, <2>1 DEF LastFrom
  <2> QED BY <2>2
<1>4. ASSUME NEW i \in 1 .. Len(kept), i > Len(kept) - w PROVE kept[i] >= s
  <2>1. k + i \in 1 .. Len(recs) /\ k + i > Len(recs) - w /\ kept[i] = recs[k + i]
    BY <1>1, <1>2, <1>4
  <2> QED BY <2>1 DEF LastFrom
<1> QED BY <1>3, <1>4 DEF LastFrom, kept

\* So it does when records are added that are not older.
LEMMA AppendKeepsLast ==
  ASSUME NEW recs \in Seq(Times), NEW now \in Times, NEW n \in Nat, NEW w \in Nat,
         NEW s \in Int, LastFrom(recs, w, s), s <= now
  PROVE  LET longer == recs \o [i \in 1 .. n |-> now]
         IN /\ longer \in Seq(Times) /\ Len(longer) = Len(recs) + n
            /\ \A i \in 1 .. Len(longer) : longer[i] = IF i <= Len(recs) THEN recs[i] ELSE now
            /\ LastFrom(longer, w, s) /\ LastFrom(longer, w + n, s)
<1> DEFINE new == [i \in 1 .. n |-> now]
           longer == recs \o new
<1>1. new \in Seq(Times) /\ Len(new) = n /\ \A i \in 1 .. n : new[i] = now
  OBVIOUS
<1> HIDE DEF new
<1>2. Len(recs) \in Nat /\ now \in Nat
  BY DEF Times
<1>3. longer \in Seq(Times) /\ Len(longer) = Len(recs) + n
  BY <1>1, <1>2
<1>4. \A i \in 1 .. Len(longer) : longer[i] = IF i <= Len(recs) THEN recs[i] ELSE now
  BY <1>1, <1>2, <1>3
<1> HIDE DEF longer
<1>5. LastFrom(longer, w + n, s)
  BY <1>2, <1>3, <1>4 DEF LastFrom
<1>6. LastFrom(longer, w, s)
  BY <1>2, <1>3, <1>4 DEF LastFrom
<1> QED BY <1>3, <1>4, <1>5, <1>6 DEF longer, new

\* The types of a state to come.
LEMMA SlidingTypes ==
  ASSUME CallsInv', records' \in Seq(Times), Len(records') <= Rate,
         admitted' \in [Times -> [Times -> Nat]]
  PROVE  S!TypeOK'
BY SlidingCalls DEF S!TypeOK, S!CallsType, CallsInv, CallsType, S!Limit

\* A new entry has no records.
LEMMA SlidingInvInit == S!Init => SlidingInv
<1> SUFFICES ASSUME S!Init PROVE SlidingInv
  OBVIOUS
<1>1. CallsInv
  BY CallsInvInit, SlidingCalls DEF S!Init
<1>2. /\ records = <<>> /\ admitted = [s \in Times |-> [t \in Times |-> 0]]
      /\ \A s, t \in Times : admitted[s][t] = 0
  BY SlidingCalls DEF S!Init
<1>3. S!TypeOK
  <2>1. records \in Seq(Times) /\ Len(records) = 0 /\ S!Limit \in Nat
    BY <1>2 DEF S!Limit
  <2>2. admitted \in [Times -> [Times -> Nat]]
    BY <1>2
  <2> QED BY <1>1, <2>1, <2>2, SlidingCalls DEF S!TypeOK, CallsInv
<1>4. RecordsPast
  BY <1>2 DEF RecordsPast
<1>5. Recorded
  BY <1>2 DEF Recorded, LastFrom
<1>6. S!WindowExact
  BY <1>2, SlidingCalls DEF S!WindowExact, S!WindowStrict, S!Limit
<1> QED BY <1>1, <1>2, <1>3, <1>4, <1>5, <1>6 DEF SlidingInv, NothingAhead

\* While the entry stays as it is, a time that comes later reaches less far back.
LEMMA SlidingQuiet ==
  ASSUME SlidingInv, CallsInv', UNCHANGED <<records, admitted, newest, ordered, early>>,
         Coming' \subseteq Nat,
         \A y \in Coming' : \E x \in Coming : x <= y /\ (newest <= y => newest <= x)
  PROVE  SlidingInv'
<1>1. S!TypeOK'
  BY SlidingCalls, SlidingTypes DEF SlidingInv, S!TypeOK, CallsInv, S!Limit
<1>2. Recorded'
  <2> SUFFICES ASSUME ordered, ~early, NEW y \in Coming', NEW s \in Times, NEW t \in Times,
                      newest <= y, s > y - Window
               PROVE  LastFrom(records, admitted[s][t], s)
    BY DEF Recorded, LastFrom
  <2>1. PICK x \in Coming : x <= y /\ newest <= x
    OBVIOUS
  <2>2. x \in Nat /\ y \in Nat /\ s \in Nat
    BY TimesAreNumbers DEF SlidingInv, CallsInv
  <2>3. s > x - Window
    BY <2>1, <2>2
  <2> QED BY <2>1, <2>3 DEF SlidingInv, Recorded
<1>3. RecordsPast' /\ NothingAhead' /\ S!WindowExact'
  BY SlidingCalls DEF SlidingInv, RecordsPast, NothingAhead, S!WindowExact, S!WindowStrict
<1> QED BY <1>1, <1>2, <1>3 DEF SlidingInv

\* A call prunes, and adds a record for each unit that it is granted.
LEMMA SlidingCall ==
  ASSUME SlidingInv, NEW c \in Callers, NEW n \in Sizes, S!AllowN(c, n)
  PROVE  SlidingInv'
<1> DEFINE now == stamp[c]
           kept == S!Prune(records, now)
<1>1. /\ CallsInv' /\ Coming' \subseteq Coming /\ early' = early
      /\ now \in Times /\ now \in Coming /\ now \in Nat /\ n \in Nat
      /\ newest' \in Int /\ newest' >= newest /\ newest' >= now
      /\ ordered' => ordered /\ newest <= now /\ newest' = now
  <2>1. Apply(c)
    BY SlidingCalls DEF S!AllowN
  <2> QED BY <2>1, CallStep DEF SlidingInv, Sizes, Times
<1>2. /\ records \in Seq(Times) /\ Len(records) <= Rate
      /\ admitted \in [Times -> [Times -> Nat]]
      /\ newest \in Int /\ Coming \subseteq Nat /\ Times \subseteq Nat
  BY SlidingCalls, TimesAreNumbers DEF SlidingInv, S!TypeOK, S!Limit, CallsInv
<1>3. \/ /\ n <= Rate - Len(kept)
         /\ records' = kept \o [i \in 1 .. n |-> now]
         /\ admitted' = [s \in Times |-> [t \in Times |->
              IF s <= now /\ now <= t THEN admitted[s][t] + n ELSE admitted[s][t]]]
      \/ records' = kept /\ admitted' = admitted
  BY SlidingCalls DEF S!AllowN, S!Allows, S!Limit
<1>4. /\ kept \in Seq(Times) /\ Len(kept) <= Rate
      /\ \A i \in 1 .. Len(kept) : kept[i] \in Nat /\ kept[i] <= newest
  <2>1. now \in Int /\ records \in Seq(Times)
    BY <1>1, <1>2
  <2> HIDE DEF now
  <2>0. PICK k \in 0 .. Len(records) : Pruned(kept, records, now, k)
    BY <2>1, PruneFacts
  <2> HIDE DEF kept
  <2>2. /\ kept \in Seq(Times) /\ Len(kept) = Len(records) - k
        /\ \A i \in 1 .. Len(kept) : kept[i] = records[k + i]
    BY <2>0 DEF Pruned
  <2>3. Len(records) \in Nat /\ k \in Nat /\ Len(kept) <= Rate
    BY <1>2, <2>2
  <2>4. ASSUME NEW i \in 1 .. Len(kept) PROVE kept[i] \in Nat /\ kept[i] <= newest
    <3>1. k + i \in 1 .. Len(records)
      BY <2>2, <2>3
    <3>2. kept[i] \in Nat
      BY <2>2 DEF Times
    <3> QED BY <2>2, <3>1, <3>2 DEF SlidingInv, RecordsPast
  <2> QED BY <2>2, <2>3, <2>4
<1>5. \A s, t \in Times : admitted[s][t] \in Nat /\ (s > newest => admitted[s][t] = 0)
  BY <1>2 DEF SlidingInv, NothingAhead
<1>6. ASSUME ordered', ~early, NEW s \in Times, NEW t \in Times, s > now - Window
      PROVE  LastFrom(kept, admitted[s][t], s)
  <2>1. LastFrom(records, admitted[s][t], s)
    BY <1>1, <1>6 DEF SlidingInv, Recorded
  <2>2. s \in Int /\ now \in Int /\ admitted[s][t] \in Nat
    BY <1>1, <1>2, <1>5
  <2> QED BY <1>2, <1>6, <2>1, <2>2, PruneKeepsLast
<1> HIDE DEF kept, now
<1>n. now \in Nat /\ n \in Nat /\ newest' \in Int /\ newest' >= newest /\ newest' >= now
  BY <1>1
<1>7. CASE records' = kept /\ admitted' = admitted
  <2>1. S!TypeOK'
    BY <1>1, <1>2, <1>4, <1>7, SlidingTypes
  <2>2. RecordsPast' /\ NothingAhead'
    <3>1. \A i \in 1 .. Len(kept) : kept[i] <= newest'
      BY <1>1, <1>2, <1>4
    <3>2. \A s \in Times : s > newest' => s > newest
      BY <1>1, <1>2
    <3> QED BY <1>5, <1>7, <3>1, <3>2 DEF RecordsPast, NothingAhead
  <2>3. Recorded'
    <3> SUFFICES ASSUME ordered', ~early', NEW e \in Coming', NEW s \in Times,
                        NEW t \in Times, newest' <= e, s > e - Window
                 PROVE  LastFrom(kept, admitted[s][t], s)
      BY <1>7 DEF Recorded, LastFrom
    <3>1. s > now - Window
      BY <1>1, <1>2
    <3> QED BY <1>1, <1>6, <3>1
  <2>4. S!WindowExact'
    BY <1>1, <1>7, SlidingCalls DEF SlidingInv, S!WindowExact, S!WindowStrict
  <2> QED BY <1>1, <2>1, <2>2, <2>3, <2>4 DEF SlidingInv
<1>8. CASE /\ n <= Rate - Len(kept)
           /\ records' = kept \o [i \in 1 .. n |-> now]
           /\ admitted' = [s \in Times |-> [t \in Times |->
                IF s <= now /\ now <= t THEN admitted[s][t] + n ELSE admitted[s][t]]]
  <2>1. ASSUME NEW w \in Nat, NEW s \in Int, LastFrom(kept, w, s), s <= now
        PROVE  LastFrom(records', w, s) /\ LastFrom(records', w + n, s)
    BY <1>1, <1>4, <1>8, <2>1, AppendKeepsLast
  <2>2. /\ records' \in Seq(Times) /\ Len(records') = Len(kept) + n
        /\ \A i \in 1 .. Len(records') : records'[i] = IF i <= Len(kept) THEN kept[i] ELSE now
    <3>1. LastFrom(kept, 0, 0)
      BY <1>4 DEF LastFrom
    <3> QED BY <1>1, <1>4, <1>8, <3>1, AppendKeepsLast
  <2>3. /\ admitted' \in [Times -> [Times -> Nat]]
        /\ \A s, t \in Times : admitted'[s][t] =
             IF s <= now /\ now <= t THEN admitted[s][t] + n ELSE admitted[s][t]
    <3>1. \A s, t \in Times : admitted[s][t] \in Nat /\ admitted[s][t] + n \in Nat
      BY <1>n, <1>5
    <3> QED BY <1>8, <3>1
  <2>4. S!TypeOK'
    <3>1. Len(records') <= Rate
      BY <1>1, <1>4, <1>8, <2>2
    <3> QED BY <1>1, <2>2, <2>3, <3>1, SlidingTypes
  <2>5. RecordsPast'
    BY <1>n, <1>2, <1>4, <2>2 DEF RecordsPast
  <2>6. NothingAhead'
    <3> SUFFICES ASSUME NEW s \in Times, NEW t \in Times, s > newest'
                 PROVE  admitted'[s][t] = 0
      BY DEF NothingAhead
    <3>1. s > newest /\ ~(s <= now)
      BY <1>n, <1>2
    <3> QED BY <1>5, <2>3, <3>1
  <2>7. Recorded'
    <3> SUFFICES ASSUME ordered', ~early', NEW e \in Coming', NEW s \in Times,
                        NEW t \in Times, newest' <= e, s > e - Window
                 PROVE  LastFrom(records', admitted'[s][t], s)
      BY DEF Recorded, LastFrom
    <3>1. s > now - Window
      BY <1>1, <1>2
    <3>2. LastFrom(kept, admitted[s][t], s)
      BY <1>1, <1>6, <3>1
    <3>3. CASE s <= now
      <4>1. s \in Int /\ admitted[s][t] \in Nat
        BY <1>2, <1>5
      <4>2. /\ LastFrom(records', admitted[s][t], s)
            /\ LastFrom(records', admitted[s][t] + n, s)
        BY <2>1, <3>2, <3>3, <4>1
      <4>3. admitted'[s][t] \in {admitted[s][t], admitted[s][t] + n}
        BY <2>3
      <4> QED BY <4>2, <4>3
    <3>4. CASE s > now
      <4>1. admitted'[s][t] = 0
        BY <1>1, <1>2, <1>5, <2>3, <3>4
      <4> QED BY <2>2, <4>1 DEF LastFrom
    <3> QED BY <1>1, <1>2, <3>3, <3>4
  <2>8. S!WindowExact'
    <3> SUFFICES ASSUME ordered', ~early', NEW s \in Times, NEW t \in Times,
                        s <= t, t < s + Window
                 PROVE  admitted'[s][t] <= Rate
      BY SlidingCalls DEF S!WindowExact, S!WindowStrict, S!Limit
    <3>1. CASE s <= now /\ now <= t
      <4>1. LastFrom(kept, admitted[s][t], s)
        BY <1>1, <1>2, <1>6, <3>1
      <4> QED BY <1>1, <1>4, <1>5, <1>8, <2>3, <3>1, <4>1 DEF LastFrom
    <3>2. CASE ~(s <= now /\ now <= t)
      BY <1>1, <2>3, <3>2, SlidingCalls DEF SlidingInv, S!WindowExact, S!WindowStrict, S!Limit
    <3> QED BY <3>1, <3>2
  <2> QED BY <1>1, <2>4, <2>5, <2>6, <2>7, <2>8 DEF SlidingInv
<1> QED BY <1>3, <1>7, <1>8

\* Every step keeps the invariant.
LEMMA SlidingInvStep == SlidingInv /\ [S!Next]_(S!vars) => SlidingInv'
<1> SUFFICES ASSUME SlidingInv, [S!Next]_(S!vars) PROVE SlidingInv'
  OBVIOUS
<1>1. ASSUME NEW c \in Callers, NEW n \in Sizes, S!AllowN(c, n) PROVE SlidingInv'
  BY <1>1, SlidingCall
<1>2. CASE /\ (\E c \in Callers : S!ReadClock(c)) \/ S!Tick \/ UNCHANGED calls
           /\ UNCHANGED <<records, admitted>>
  <2>1. (\E c \in Callers : ReadClock(c)) \/ Tick \/ UNCHANGED calls
    BY <1>2, SlidingCalls
  <2> QED BY <1>2, <2>1, ClockStep, SlidingQuiet DEF SlidingInv
<1>3. CASE S!Forget
  <2> DEFINE settled == \A x \in S!Coming : S!Settled(x)
  <2>1. Delete(settled) /\ records' = <<>> /\ UNCHANGED admitted
    BY <1>3, SlidingCalls DEF S!Forget
  <2>2. /\ CallsInv' /\ Coming' = Coming
        /\ UNCHANGED <<time, newest, ordered>>
        /\ ~early' => ~early /\ settled
    BY <2>1, DeleteStep DEF SlidingInv
  <2>3. /\ records \in Seq(Times) /\ admitted \in [Times -> [Times -> Nat]]
        /\ Coming \subseteq Nat /\ Times \subseteq Nat
    BY SlidingCalls, TimesAreNumbers DEF SlidingInv, S!TypeOK, CallsInv
  <2>4. S!TypeOK'
    BY <2>1, <2>2, <2>3, SlidingTypes
  <2>5. Recorded'
    <3> SUFFICES ASSUME ordered', ~early', NEW e \in Coming, NEW s \in Times,
                        NEW t \in Times, newest <= e, s > e - Window
                 PROVE  LastFrom(<<>>, admitted[s][t], s)
      BY <2>1, <2>2 DEF Recorded, LastFrom
    <3>1. LastFrom(records, admitted[s][t], s)
      BY <2>2 DEF SlidingInv, Recorded
    <3>2. S!Prune(records, e) = <<>>
      BY <2>2, SlidingCalls DEF S!Settled
    <3>3. e \in Int /\ s \in Int /\ admitted[s][t] \in Nat
      BY <2>3
    <3> QED BY <2>3, <3>1, <3>2, <3>3, PruneKeepsLast
  <2>6. RecordsPast' /\ NothingAhead' /\ S!WindowExact'
    BY <2>1, <2>2, SlidingCalls
       DEF SlidingInv, RecordsPast, NothingAhead, S!WindowExact, S!WindowStrict
  <2> QED BY <2>2, <2>4, <2>5, <2>6 DEF SlidingInv
<1>4. CASE UNCHANGED S!vars
  <2>1. UNCHANGED calls /\ UNCHANGED <<records, admitted>>
    BY <1>4 DEF S!vars, S!calls, calls
  <2> QED BY <1>2, <2>1
<1> QED BY <1>1, <1>2, <1>3, <1>4, SlidingCalls DEF S!Next

\* Every state of the sliding window has the invariant.
LEMMA SlidingInvariant == S!Spec => []SlidingInv
BY SlidingInvInit, SlidingInvStep, PTL DEF S!Spec

\* The entry holds Rate records at most, and they are times.
THEOREM SlidingTypesOK == S!Spec => []S!TypeOK
<1>1. SlidingInv => S!TypeOK
  BY DEF SlidingInv
<1> QED BY <1>1, SlidingInvariant, PTL

\* As long as calls are applied in the order of their times and no entry is
\* deleted early, no window of time is granted more than Rate units, wherever
\* it starts.
THEOREM SlidingWindowExact == S!Spec => []S!WindowExact
<1>1. SlidingInv => S!WindowExact
  BY DEF SlidingInv
<1> QED BY <1>1, SlidingInvariant, PTL

\* Of two prunings, the later one keeps what the earlier one keeps but for those
\* that have left the window in between.
LEMMA SlidingRetry == S!TypeOK => S!WindowRetryExact
<1> SUFFICES ASSUME S!TypeOK, NEW now \in time .. MaxTime, ~S!Allows(records, now, 1)
             PROVE  LET retry == now + S!RetryAfter(records, now)
                    IN /\ S!Allows(records, retry, 1)
                       /\ \A t \in now .. retry - 1 : ~S!Allows(records, t, 1)
  BY DEF S!WindowRetryExact
<1> DEFINE n == Len(records)
           kept == S!Prune(records, now)
           retry == now + S!RetryAfter(records, now)
<1>0. records \in Seq(Times) /\ CallsType /\ Len(records) <= Rate
  BY SlidingCalls DEF S!TypeOK, S!Limit
<1>1. /\ n \in Nat /\ n <= Rate /\ now \in Nat /\ now \in Int
      /\ \A i \in 1 .. n : records[i] \in Nat
  <2>1. Times \subseteq Nat /\ time \in Nat
    BY <1>0, TimesAreNumbers
  <2>2. now \in Nat /\ now \in Int
    BY <2>1
  <2>3. Len(records) \in Nat /\ \A i \in 1 .. Len(records) : records[i] \in Times
    BY <1>0
  <2> QED BY <1>0, <2>1, <2>2, <2>3
<1>p. ASSUME NEW t \in Int
      PROVE  \E j \in 0 .. n : Pruned(S!Prune(records, t), records, t, j)
  BY <1>0, PruneFacts
<1>q. PICK k \in 0 .. n : Pruned(kept, records, now, k)
  BY <1>1, <1>p
<1> HIDE DEF kept
<1>2. /\ kept \in Seq(Times) /\ Len(kept) = n - k
      /\ \A i \in 1 .. Len(kept) : kept[i] = records[k + i]
      /\ k < n => records[k + 1] > now - Window
  BY <1>q DEF Pruned
<1> HIDE DEF n
<1>3. k = 0 /\ n = Rate /\ kept # <<>> /\ kept[1] = records[1] /\ records[1] \in Nat
  <2>1. Len(kept) \in Nat /\ 1 > Rate - Len(kept)
    BY <1>2 DEF S!Allows, S!Limit, kept
  <2> QED BY <1>1, <1>2, <2>1
<1>4. retry = records[1] + Window /\ retry > now
  <2>1. records[1] + Window - now > 0
    BY <1>1, <1>2, <1>3
  <2>2. S!RetryAfter(records, now) = S!Max({0, records[1] + Window - now})
    BY <1>3 DEF S!RetryAfter, kept
  <2>3. S!Max({0, records[1] + Window - now}) = records[1] + Window - now
    <3> DEFINE wait == records[1] + Window - now
    <3>1. wait \in Nat /\ wait > 0
      BY <1>1, <1>3, <2>1
    <3> HIDE DEF wait
    <3>2. \A x \in {0, wait} : (\A y \in {0, wait} : x >= y) <=> x = wait
      BY <3>1
    <3> QED BY <3>2 DEF S!Max, wait
  <2> QED BY <1>1, <1>3, <2>1, <2>2, <2>3
<1> HIDE DEF retry
<1>5. S!Allows(records, retry, 1)
  <2>0. PICK j \in 0 .. n : Pruned(S!Prune(records, retry), records, retry, j)
    <3>1. retry \in Int
      BY <1>3, <1>4
    <3> QED BY <1>p, <3>1
  <2>1. /\ Len(S!Prune(records, retry)) = n - j
        /\ j < n => records[j + 1] > retry - Window
    BY <2>0 DEF Pruned, n
  <2>2. j # 0
    BY <1>1, <1>3, <1>4, <2>1
  <2> QED BY <1>1, <1>3, <2>1, <2>2 DEF S!Allows, S!Limit
<1>6. ASSUME NEW t \in now .. retry - 1 PROVE ~S!Allows(records, t, 1)
  <2>0. PICK j \in 0 .. n : Pruned(S!Prune(records, t), records, t, j)
    <3>1. t \in Int
      BY <1>1, <1>3, <1>4
    <3> QED BY <1>p, <3>1
  <2>1. /\ Len(S!Prune(records, t)) = n - j
        /\ \A i \in 1 .. j : records[i] <= t - Window
    BY <2>0 DEF Pruned, n
  <2>2. j = 0
    BY <1>1, <1>3, <1>4, <2>1
  <2> QED BY <1>1, <1>3, <2>1, <2>2 DEF S!Allows, S!Limit
<1> QED BY <1>5, <1>6 DEF retry

\* A refused unit passes after RetryAfter and at no time before.
THEOREM SlidingRetryAlwaysExact == S!Spec => []S!WindowRetryExact
BY SlidingTypesOK, SlidingRetry, PTL

\* An entry that was idle for a window has no record left that counts.
LEMMA SlidingIdle == SlidingInv => S!WindowIdleSettled
<1> SUFFICES ASSUME SlidingInv, ordered, lastSeen # Unset, time - lastSeen >= Window
             PROVE  S!Prune(records, time) = <<>>
  BY SlidingCalls DEF S!WindowIdleSettled, S!Settled
<1>0. records \in Seq(Times) /\ time \in Nat /\ newest \in Int /\ Times \subseteq Nat
  BY TimesAreNumbers, SlidingCalls DEF SlidingInv, S!TypeOK, CallsInv
<1>1. /\ lastSeen = newest
      /\ \A i \in 1 .. Len(records) : records[i] \in Nat /\ records[i] <= newest
  <2>1. lastSeen = newest
    BY DEF SlidingInv, CallsInv, SeenLast
  <2>2. Len(records) \in Nat /\ \A i \in 1 .. Len(records) : records[i] \in Times
    BY <1>0
  <2>3. \A i \in 1 .. Len(records) : records[i] <= newest
    BY DEF SlidingInv, RecordsPast
  <2> QED BY <1>0, <2>1, <2>2, <2>3
<1>2. \A i \in DOMAIN records : ~(records[i] > time - Window)
  BY <1>0, <1>1
<1> QED BY <1>2 DEF S!Prune

\* If calls are applied in order, an IdleTTL of a window is enough.
THEOREM SlidingIdleAlwaysSettled == S!Spec => []S!WindowIdleSettled
BY SlidingInvariant, SlidingIdle, PTL

---------------------------------------------------------------------------
(* The bucketed window.                                                    *)

\* Its calls are those of every limiter.
LEMMA BucketCalls ==
  /\ B!Times = Times /\ B!Sizes = Sizes /\ B!Unset = Unset /\ B!Coming = Coming
  /\ B!CallsType <=> CallsType
  /\ B!CallsInit <=> CallsInit
  /\ B!Tick <=> Tick
  /\ B!calls = calls
  /\ \A c \in Callers : B!ReadClock(c) <=> ReadClock(c)
  /\ \A c \in Callers : B!Apply(c) <=> Apply(c)
  /\ \A settled \in BOOLEAN : B!Delete(settled) <=> Delete(settled)
<1>1. B!Times = Times /\ B!Sizes = Sizes /\ B!Unset = Unset
  BY DEF B!Times, Times, B!Sizes, Sizes, B!Unset, Unset
<1>2. B!Coming = Coming
  BY <1>1 DEF B!Coming, Coming
<1>3. (B!CallsType <=> CallsType) /\ (B!CallsInit <=> CallsInit) /\ (B!Tick <=> Tick)
  BY <1>1 DEF B!CallsType, CallsType, B!CallsInit, CallsInit, B!Tick, Tick
<1>4. B!calls = calls
  BY DEF B!calls, calls
<1>5. \A c \in Callers : B!ReadClock(c) <=> ReadClock(c)
  BY <1>1 DEF B!ReadClock, ReadClock
<1>6. \A c \in Callers : B!Apply(c) <=> Apply(c)
  BY <1>1 DEF B!Apply, Apply, B!Max, Max
<1>7. \A settled \in BOOLEAN : B!Delete(settled) <=> Delete(settled)
  BY <1>1 DEF B!Delete, Delete, B!Expired, Expired
<1> QED BY <1>1, <1>2, <1>3, <1>4, <1>5, <1>6, <1>7

\* A bucket has a size, and it goes into the window BucketCount times, unless
\* there are more buckets than clock units.
LEMMA BucketSizes ==
  /\ B!BucketSize \in Nat \ {0}
  /\ BucketCount <= Window => BucketCount * B!BucketSize <= Window
<1> DEFINE q == Window \div BucketCount
<1>1. q \in Nat /\ BucketCount * q <= Window
  OBVIOUS
<1>2. BucketCount <= Window => q # 0
  <2>1. Window < BucketCount * q + BucketCount
    OBVIOUS
  <2> QED BY <2>1
<1>3. B!BucketSize = IF q = 0 THEN 1 ELSE q
  BY DEF B!BucketSize
<1> QED BY <1>1, <1>2, <1>3

\* A time is in bucket b or a later one when it is not before the start of b.
LEMMA InBucket ==
  ASSUME NEW t \in Nat, NEW b \in Int
  PROVE  /\ B!BucketIndex(t) \in Nat
         /\ b <= B!BucketIndex(t) <=> B!BucketSize * b <= t
<1> DEFINE size == B!BucketSize
           q == t \div size
<1>0. size \in Nat \ {0} /\ B!BucketIndex(t) = q
  BY BucketSizes DEF B!BucketIndex
<1> HIDE DEF size
<1>1. q \in Nat /\ size * q <= t /\ t < size * q + size
  BY <1>0
<1> HIDE DEF q
<1>2. ASSUME b <= q PROVE size * b <= t
  <2>1. size * b <= size * q /\ size * b \in Int /\ size * q \in Int
    BY <1>0, <1>1, <1>2, Monotone
  <2> QED BY <1>1, <2>1
<1>3. ASSUME ~(b <= q) PROVE ~(size * b <= t)
  <2>1. q + 1 <= b /\ q + 1 \in Int
    BY <1>1, <1>3
  <2>2. size * (q + 1) <= size * b
    BY <1>0, <2>1, Monotone
  <2>3. size * (q + 1) = size * q + size
    BY <1>0, <1>1
  <2>4. size * b \in Int /\ size * q \in Int
    BY <1>0, <1>1
  <2> QED BY <1>0, <1>1, <2>2, <2>3, <2>4
<1> QED BY <1>0, <1>1, <1>2, <1>3 DEF size

\* Times that are k bucket sizes apart are k buckets apart.
LEMMA BucketsApart ==
  ASSUME NEW s \in Nat, NEW t \in Nat, NEW k \in Int
  PROVE  /\ t <= s + k * B!BucketSize => B!BucketIndex(t) - k <= B!BucketIndex(s)
         /\ t >= s + k * B!BucketSize => B!BucketIndex(s) + k <= B!BucketIndex(t)
<1> DEFINE size == B!BucketSize
           i == B!BucketIndex(s)
           j == B!BucketIndex(t)
<1>1. size \in Nat /\ i \in Nat /\ j \in Nat /\ size * i <= s /\ size * j <= t
  BY BucketSizes, InBucket
<1>2. /\ j - k <= i <=> size * (j - k) <= s
      /\ i + k <= j <=> size * (i + k) <= t
  <2>1. j - k \in Int /\ i + k \in Int
    BY <1>1
  <2> QED BY <2>1, InBucket
<1> HIDE DEF size, i, j
<1>3. size * (j - k) = size * j - size * k /\ size * (i + k) = size * i + size * k
  <2>1. size * ((j - k) + k) = size * (j - k) + size * k
    BY <1>1, Distribute
  <2>2. (j - k) + k = j /\ size * (j - k) \in Int /\ size * k \in Int
    BY <1>1
  <2> QED BY <1>1, <2>1, <2>2, Distribute
<1>4. size * k = k * size /\ size * k \in Int /\ size * i \in Int /\ size * j \in Int
  BY <1>1
<1> QED BY <1>1, <1>2, <1>3, <1>4 DEF size, i, j


Counts == [B!Indexes -> 0 .. Rate]

\* The units in bucket b and later ones.
UnitsFrom(counts, b) == {u \in B!Units(counts) : u[1] >= b}

\* There are finitely many units, also in a part of the buckets.
LEMMA FiniteUnits ==
  ASSUME NEW counts, NEW part \in SUBSET B!Units(counts)
  PROVE  /\ IsFiniteSet(part) /\ Cardinality(part) \in Nat
         /\ B!Total(counts) \in Nat /\ Cardinality(part) <= B!Total(counts)
         /\ Cardinality(part) = B!Total(counts) => part = B!Units(counts)
<1>1. IsFiniteSet(B!Indexes) /\ IsFiniteSet(1 .. Rate)
  <2>1. MaxTime \div B!BucketSize \in Int
    BY BucketSizes
  <2> QED BY <2>1, FS_Interval DEF B!Indexes
<1>2. IsFiniteSet(B!Indexes \X (1 .. Rate))
  BY <1>1, FS_Product
<1>3. B!Units(counts) \in SUBSET (B!Indexes \X (1 .. Rate))
  BY DEF B!Units, B!Limit
<1>4. IsFiniteSet(B!Units(counts))
  BY <1>2, <1>3, FS_Subset
<1> DEFINE all == B!Units(counts)
<1>5. Cardinality(all) \in Nat /\ B!Total(counts) = Cardinality(all)
  BY <1>4, FS_CardinalityType DEF B!Total, B!Cardinality, Cardinality
<1> HIDE DEF all
<1>6. IsFiniteSet(all) /\ part \in SUBSET all
  BY <1>4 DEF all
<1>7. /\ IsFiniteSet(part) /\ Cardinality(part) <= Cardinality(all)
      /\ Cardinality(all) = Cardinality(part) => all = part
  BY <1>6, FS_Subset
<1>8. Cardinality(part) \in Nat
  BY <1>7, FS_CardinalityType
<1> QED BY <1>5, <1>7, <1>8 DEF all

\* Where a counter is added to, the units grow by as much.
LEMMA AddUnits ==
  ASSUME NEW counts \in Counts, NEW i \in B!Indexes, NEW n \in Nat,
         counts[i] + n <= Rate, NEW b \in Int, b <= i
  PROVE  LET more == [counts EXCEPT ![i] = @ + n]
         IN /\ more \in Counts
            /\ Cardinality(UnitsFrom(more, b)) = Cardinality(UnitsFrom(counts, b)) + n
<1> DEFINE more == [counts EXCEPT ![i] = @ + n]
           m == counts[i]
           new == {i} \X (m + 1 .. m + n)
<1>1. /\ m \in Nat /\ m + n \in 0 .. Rate /\ i \in Nat
      /\ \A j \in B!Indexes : counts[j] \in Nat /\ j \in Nat
  BY DEF Counts, B!Indexes
<1>2. more \in Counts
  BY <1>1 DEF Counts
<1>3. UnitsFrom(more, b) = UnitsFrom(counts, b) \cup new
  <2>1. ASSUME NEW u \in UnitsFrom(more, b) PROVE u \in UnitsFrom(counts, b) \cup new
    BY <1>1, <2>1 DEF UnitsFrom, B!Units, B!Limit, Counts
  <2>2. ASSUME NEW u \in UnitsFrom(counts, b) PROVE u \in UnitsFrom(more, b)
    BY <1>1, <2>2 DEF UnitsFrom, B!Units, B!Limit, Counts
  <2>3. ASSUME NEW u \in new PROVE u \in UnitsFrom(more, b)
    BY <1>1, <2>3 DEF UnitsFrom, B!Units, B!Limit, Counts
  <2> QED BY <2>1, <2>2, <2>3
<1>4. UnitsFrom(counts, b) \cap new = {}
  BY <1>1 DEF UnitsFrom, B!Units
<1>5. IsFiniteSet(new) /\ Cardinality(new) = n
  <2>1. IsFiniteSet({i}) /\ Cardinality({i}) = 1
    BY FS_Singleton
  <2>2. IsFiniteSet(m + 1 .. m + n) /\ Cardinality(m + 1 .. m + n) = n
    <3>1. m + 1 \in Int /\ m + n \in Int
      BY <1>1
    <3>2. (IF m + 1 > m + n THEN 0 ELSE (m + n) - (m + 1) + 1) = n
      BY <1>1
    <3> QED BY <3>1, <3>2, FS_Interval
  <2>3. IsFiniteSet(new) /\ Cardinality(new) = 1 * n
    BY <2>1, <2>2, FS_Product
  <2> QED BY <2>3
<1>6. UnitsFrom(counts, b) \in SUBSET B!Units(counts)
  BY DEF UnitsFrom
<1>7. IsFiniteSet(UnitsFrom(counts, b)) /\ Cardinality(UnitsFrom(counts, b)) \in Nat
  BY <1>6, FiniteUnits
<1> HIDE DEF new
<1>8. Cardinality(UnitsFrom(counts, b) \cup new)
        = Cardinality(UnitsFrom(counts, b)) + n - 0
  BY <1>4, <1>5, <1>7, FS_Union, FS_EmptySet
<1>9. Cardinality(UnitsFrom(counts, b)) + n - 0 = Cardinality(UnitsFrom(counts, b)) + n
  BY <1>7
<1> HIDE DEF more
<1>10. Cardinality(UnitsFrom(more, b)) = Cardinality(UnitsFrom(counts, b)) + n
  BY <1>3, <1>8, <1>9
<1> QED BY <1>2, <1>10 DEF more

\* A counter is no more than all together.
LEMMA CounterWithinTotal ==
  ASSUME NEW counts \in Counts, NEW i \in B!Indexes
  PROVE  counts[i] <= B!Total(counts)
<1> DEFINE m == counts[i]
           own == {i} \X (1 .. m)
<1>1. m \in Nat /\ m <= Rate
  BY DEF Counts
<1>2. IsFiniteSet({i}) /\ Cardinality({i}) = 1
  BY FS_Singleton
<1>3. IsFiniteSet(1 .. m) /\ Cardinality(1 .. m) = m
  <2>1. m \in Int /\ (IF 1 > m THEN 0 ELSE m - 1 + 1) = m
    BY <1>1
  <2> HIDE DEF m
  <2> QED BY <2>1, FS_Interval
<1>4. Cardinality(own) = 1 * m
  BY <1>2, <1>3, FS_Product
<1>5. own \in SUBSET B!Units(counts)
  BY <1>1 DEF B!Units, B!Limit
<1> HIDE DEF own
<1> QED BY <1>1, <1>4, <1>5, FiniteUnits

\* Units from bucket 0 on are all of them.
LEMMA AllUnits ==
  ASSUME NEW counts
  PROVE  B!Total(counts) = Cardinality(UnitsFrom(counts, 0))
<1>1. UnitsFrom(counts, 0) = B!Units(counts)
  BY DEF UnitsFrom, B!Units, B!Indexes
<1> QED BY <1>1 DEF B!Total, B!Cardinality, Cardinality

\* No units are in buckets that start after t.
NothingNewer(counts, t) == \A b \in B!Indexes : B!BucketSize * b > t => counts[b] = 0

\* What a span was granted that reaches into the buckets of any call to come is
\* in its buckets.
Counted ==
  ordered /\ ~early =>
    \A e \in Coming : \A s, t \in Times :
      newest <= e /\ B!BucketIndex(e) - BucketCount + 1 <= B!BucketIndex(s) =>
        admitted[s][t] <= Cardinality(UnitsFrom(buckets, B!BucketIndex(s)))

BucketInv ==
  /\ B!TypeOK /\ CallsInv /\ NothingAhead
  /\ B!Total(buckets) <= Rate
  /\ NothingNewer(buckets, newest)
  /\ Counted /\ B!SpanBounded

\* Pruning leaves some of the units.
LEMMA PruneCounts ==
  ASSUME NEW counts \in Counts, NEW now \in Nat
  PROVE  /\ B!Prune(counts, now) \in Counts
         /\ \A b \in B!Indexes : B!Prune(counts, now)[b] \in {0, counts[b]}
         /\ B!Units(B!Prune(counts, now)) \subseteq B!Units(counts)
         /\ B!Total(B!Prune(counts, now)) <= B!Total(counts)
<1> DEFINE left == B!Prune(counts, now)
<1>1. /\ left \in [B!Indexes -> Nat]
      /\ \A b \in B!Indexes : counts[b] \in 0 .. Rate /\ left[b] \in {0, counts[b]}
  BY DEF B!Prune, Counts
<1> HIDE DEF left
<1>2. left \in Counts
  BY <1>1 DEF Counts
<1>3. B!Units(left) \subseteq B!Units(counts)
  BY <1>1 DEF B!Units, B!Limit
<1>4. B!Total(left) <= B!Total(counts)
  <2>1. B!Total(left) = Cardinality(B!Units(left))
    BY DEF B!Total, B!Cardinality, Cardinality
  <2> QED BY <1>3, <2>1, FiniteUnits
<1> QED BY <1>1, <1>2, <1>3, <1>4 DEF left

\* Pruning leaves all units that a span put there whose first bucket is kept.
LEMMA PruneKeepsUnits ==
  ASSUME NEW counts \in Counts, NEW now \in Nat, NEW b \in Int,
         B!BucketIndex(now) - BucketCount + 1 <= b, NothingNewer(counts, now)
  PROVE  UnitsFrom(B!Prune(counts, now), b) = UnitsFrom(counts, b)
<1> DEFINE left == B!Prune(counts, now)
<1>1. B!BucketIndex(now) \in Nat /\ \A i \in B!Indexes : i \in Nat /\ counts[i] \in Nat
  <2>1. \A i \in B!Indexes : i \in Nat /\ counts[i] \in 0 .. Rate
    BY DEF B!Indexes, Counts
  <2> QED BY <2>1, InBucket
<1>2. ASSUME NEW i \in B!Indexes, b <= i PROVE left[i] = counts[i]
  <2>1. CASE i <= B!BucketIndex(now)
    BY <1>1, <1>2, <2>1 DEF B!Prune, B!Kept
  <2>2. CASE ~(i <= B!BucketIndex(now))
    <3>1. ~(B!BucketSize * i <= now) /\ B!BucketSize * i \in Int
      BY <1>1, <2>2, InBucket, BucketSizes
    <3>2. counts[i] = 0
      BY <3>1 DEF NothingNewer
    <3> QED BY <2>2, <3>2 DEF B!Prune, B!Kept
  <2> QED BY <2>1, <2>2
<1> HIDE DEF left
<1>3. \A u : u \in UnitsFrom(left, b) <=> u \in UnitsFrom(counts, b)
  BY <1>1, <1>2 DEF UnitsFrom, B!Units
<1> QED BY <1>3 DEF left

\* The types of a state to come.
LEMMA BucketTypes ==
  ASSUME CallsInv', buckets' \in Counts, admitted' \in [Times -> [Times -> Nat]]
  PROVE  B!TypeOK'
BY BucketCalls DEF B!TypeOK, B!CallsType, CallsInv, CallsType, B!Limit, Counts

\* All buckets of a new entry are empty.
LEMMA NoUnits ==
  LET none == [b \in B!Indexes |-> 0]
  IN /\ none \in Counts /\ B!Units(none) = {} /\ B!Total(none) = 0
     /\ \A t \in Int : NothingNewer(none, t)
<1> DEFINE none == [b \in B!Indexes |-> 0]
<1>1. none \in Counts /\ \A t \in Int : NothingNewer(none, t)
  BY DEF Counts, NothingNewer
<1>2. B!Units(none) = {}
  BY DEF B!Units, B!Limit
<1>3. B!Total(none) = 0
  BY <1>2, FS_EmptySet DEF B!Total, B!Cardinality, Cardinality
<1> QED BY <1>1, <1>2, <1>3

\* A new entry counts nothing.
LEMMA BucketInvInit == B!Init => BucketInv
<1> SUFFICES ASSUME B!Init PROVE BucketInv
  OBVIOUS
<1>1. CallsInv
  BY BucketCalls, CallsInvInit DEF B!Init
<1>2. /\ buckets = [b \in B!Indexes |-> 0]
      /\ admitted \in [Times -> [Times -> Nat]]
      /\ \A s, t \in Times : admitted[s][t] = 0
  BY BucketCalls DEF B!Init
<1>3. B!TypeOK
  BY <1>1, <1>2, NoUnits, BucketCalls DEF B!TypeOK, CallsInv, Counts, B!Limit
<1>4. B!Total(buckets) <= Rate /\ NothingNewer(buckets, newest)
  BY <1>1, <1>2, NoUnits, TimesAreNumbers DEF CallsInv
<1>5. Counted
  <2>1. \A b : Cardinality(UnitsFrom(buckets, b)) \in Nat
    BY FiniteUnits DEF UnitsFrom
  <2> QED BY <1>2, <2>1 DEF Counted
<1>6. B!SpanBounded /\ NothingAhead
  BY <1>2, BucketCalls DEF B!SpanBounded, NothingAhead, B!Limit
<1> QED BY <1>1, <1>3, <1>4, <1>5, <1>6 DEF BucketInv

\* What the buckets reach back to moves on with time.
LEMMA BucketsMoveOn ==
  ASSUME NEW x \in Nat, NEW y \in Nat, x <= y
  PROVE  B!BucketIndex(x) <= B!BucketIndex(y)
<1> DEFINE i == B!BucketIndex(x)
<1>1. i \in Nat /\ B!BucketSize * i <= x /\ B!BucketSize * i \in Nat
  BY InBucket, BucketSizes
<1> HIDE DEF i
<1>2. i \in Int /\ B!BucketSize * i <= y
  BY <1>1
<1> QED BY <1>2, InBucket DEF i

\* While the entry stays as it is, a time that comes later reaches less far back.
LEMMA BucketQuiet ==
  ASSUME BucketInv, CallsInv', UNCHANGED <<buckets, admitted, newest, ordered, early>>,
         Coming' \subseteq Nat,
         \A y \in Coming' : \E x \in Coming : x <= y /\ (newest <= y => newest <= x)
  PROVE  BucketInv'
<1>1. B!TypeOK'
  BY BucketCalls, BucketTypes DEF BucketInv, B!TypeOK, CallsInv, B!Limit, Counts
<1>2. Counted'
  <2> SUFFICES ASSUME ordered, ~early, NEW y \in Coming', NEW s \in Times, NEW t \in Times,
                      newest <= y, B!BucketIndex(y) - BucketCount + 1 <= B!BucketIndex(s)
               PROVE  admitted[s][t] <= Cardinality(UnitsFrom(buckets, B!BucketIndex(s)))
    BY DEF Counted
  <2>1. PICK x \in Coming : x <= y /\ newest <= x
    OBVIOUS
  <2>2. x \in Nat /\ y \in Nat /\ s \in Nat
    BY TimesAreNumbers DEF BucketInv, CallsInv
  <2>3. B!BucketIndex(x) - BucketCount + 1 <= B!BucketIndex(s)
    <3>1. /\ B!BucketIndex(x) \in Nat /\ B!BucketIndex(y) \in Nat
          /\ B!BucketIndex(s) \in Nat /\ B!BucketIndex(x) <= B!BucketIndex(y)
      BY <2>1, <2>2, InBucket, BucketsMoveOn
    <3> QED BY <3>1
  <2> QED BY <2>1, <2>3 DEF BucketInv, Counted
<1>3. B!SpanBounded' /\ NothingAhead'
  BY BucketCalls DEF BucketInv, NothingAhead, B!SpanBounded
<1>4. B!Total(buckets)' <= Rate /\ NothingNewer(buckets, newest)'
  BY DEF BucketInv, NothingNewer
<1> QED BY <1>1, <1>2, <1>3, <1>4 DEF BucketInv

\* A call prunes, and adds the units that it is granted to the bucket of its time.
LEMMA BucketCall ==
  ASSUME BucketInv, NEW c \in Callers, NEW n \in Sizes, B!AllowN(c, n)
  PROVE  BucketInv'
<1> DEFINE now == stamp[c]
           left == B!Prune(buckets, now)
           i == B!BucketIndex(now)
<1>1. /\ CallsInv' /\ Coming' \subseteq Coming /\ early' = early
      /\ now \in Times /\ now \in Coming /\ now \in Nat /\ n \in Nat
      /\ newest' \in Int /\ newest' >= newest /\ newest' >= now
      /\ ordered' => ordered /\ newest <= now /\ newest' = now
  <2>1. Apply(c)
    BY BucketCalls DEF B!AllowN
  <2> QED BY <2>1, CallStep DEF BucketInv, Sizes, Times
<1>2. /\ buckets \in Counts /\ B!Total(buckets) <= Rate /\ NothingNewer(buckets, newest)
      /\ admitted \in [Times -> [Times -> Nat]]
      /\ newest \in Int /\ Coming \subseteq Nat /\ Times \subseteq Nat
  BY BucketCalls, TimesAreNumbers DEF BucketInv, B!TypeOK, B!Limit, CallsInv, Counts
<1>3. \/ /\ n <= Rate - B!Total(left)
         /\ buckets' = [left EXCEPT ![i] = @ + n]
         /\ admitted' = [s \in Times |-> [t \in Times |->
              IF s <= now /\ now <= t THEN admitted[s][t] + n ELSE admitted[s][t]]]
      \/ buckets' = left /\ admitted' = admitted
  BY BucketCalls DEF B!AllowN, B!Allows, B!Limit
<1>4. /\ left \in Counts /\ B!Total(left) \in Nat /\ B!Total(left) <= Rate
      /\ \A b \in B!Indexes : left[b] \in {0, buckets[b]}
  <2>1. /\ left \in Counts /\ B!Total(left) <= B!Total(buckets)
        /\ \A b \in B!Indexes : left[b] \in {0, buckets[b]}
    BY <1>1, <1>2, PruneCounts
  <2>2. B!Total(left) \in Nat /\ B!Total(buckets) \in Nat
    BY FiniteUnits
  <2> QED BY <1>2, <2>1, <2>2
<1>5. i \in B!Indexes /\ i \in Nat /\ B!BucketSize * i <= now
  <2>1. now \in Nat /\ MaxTime \in Nat /\ now <= MaxTime
    BY <1>1 DEF Times
  <2>2. i \in Nat /\ i <= B!BucketIndex(MaxTime) /\ B!BucketSize * i <= now
    BY <2>1, InBucket, BucketsMoveOn
  <2>3. B!BucketIndex(MaxTime) \in Nat
    BY <2>1, InBucket
  <2> QED BY <2>2, <2>3 DEF B!Indexes, B!BucketIndex
<1>6. \A s, t \in Times : admitted[s][t] \in Nat /\ (s > newest => admitted[s][t] = 0)
  BY <1>2 DEF BucketInv, NothingAhead
<1>7. \A s \in Times : B!BucketIndex(s) \in Nat
  BY <1>2, InBucket
<1> DEFINE held(counts, s) == Cardinality(UnitsFrom(counts, B!BucketIndex(s)))
<1>8. \A counts, s : held(counts, s) \in Nat /\ held(counts, s) <= B!Total(counts)
  BY FiniteUnits DEF UnitsFrom
<1>9. ASSUME ordered', ~early, NEW s \in Times, NEW t \in Times,
             i - BucketCount + 1 <= B!BucketIndex(s)
      PROVE  admitted[s][t] <= held(left, s)
  <2>1. admitted[s][t] <= held(buckets, s)
    BY <1>1, <1>9 DEF BucketInv, Counted
  <2>2. NothingNewer(buckets, now)
    <3>1. \A b \in B!Indexes : B!BucketSize * b \in Int
      BY BucketSizes DEF B!Indexes
    <3> QED BY <1>1, <1>2, <1>9, <3>1 DEF NothingNewer
  <2>3. UnitsFrom(left, B!BucketIndex(s)) = UnitsFrom(buckets, B!BucketIndex(s))
    <3>1. B!BucketIndex(s) \in Int
      BY <1>7
    <3> QED BY <1>1, <1>2, <1>9, <2>2, <3>1, PruneKeepsUnits
  <2> QED BY <2>1, <2>3
\* A bucket that starts after the newest time of the next state was empty.
<1>10. NothingNewer(left, newest')
  <2>1. \A b \in B!Indexes : B!BucketSize * b \in Int
    BY BucketSizes DEF B!Indexes
  <2>2. ASSUME NEW b \in B!Indexes, B!BucketSize * b > newest' PROVE left[b] = 0
    <3>1. B!BucketSize * b > newest
      BY <1>1, <1>2, <2>1, <2>2
    <3>2. buckets[b] = 0
      BY <1>2, <3>1 DEF NothingNewer
    <3> QED BY <1>4, <3>2
  <2> QED BY <2>2 DEF NothingNewer
\* A call to come reaches less far back than this one.
<1>11. ASSUME ordered', NEW e \in Coming', NEW s \in Times, newest' <= e,
              B!BucketIndex(e) - BucketCount + 1 <= B!BucketIndex(s)
       PROVE  i - BucketCount + 1 <= B!BucketIndex(s)
  <2>1. e \in Nat /\ now <= e
    BY <1>1, <1>2, <1>11
  <2>2. i <= B!BucketIndex(e) /\ B!BucketIndex(e) \in Nat
    BY <1>1, <2>1, InBucket, BucketsMoveOn
  <2> QED BY <1>5, <1>7, <1>11, <2>2
<1> HIDE DEF left, now, i, held
<1>n. now \in Nat /\ n \in Nat /\ newest' \in Int /\ newest' >= newest /\ newest' >= now
  BY <1>1
<1>12. CASE buckets' = left /\ admitted' = admitted
  <2>1. B!TypeOK'
    BY <1>1, <1>2, <1>4, <1>12, BucketTypes
  <2>2. NothingAhead'
    <3>1. \A s \in Times : s > newest' => s > newest
      BY <1>n, <1>2
    <3> QED BY <1>6, <1>12, <3>1 DEF NothingAhead
  <2>3. Counted'
    <3> SUFFICES ASSUME ordered', ~early', NEW e \in Coming', NEW s \in Times,
                        NEW t \in Times, newest' <= e,
                        B!BucketIndex(e) - BucketCount + 1 <= B!BucketIndex(s)
                 PROVE  admitted[s][t] <= held(left, s)
      BY <1>12 DEF Counted, held
    <3>1. i - BucketCount + 1 <= B!BucketIndex(s)
      BY <1>11
    <3> QED BY <1>1, <1>9, <3>1
  <2>4. B!SpanBounded'
    BY <1>1, <1>12, BucketCalls DEF BucketInv, B!SpanBounded
  <2> QED BY <1>1, <1>4, <1>10, <1>12, <2>1, <2>2, <2>3, <2>4 DEF BucketInv
<1>13. CASE /\ n <= Rate - B!Total(left)
            /\ buckets' = [left EXCEPT ![i] = @ + n]
            /\ admitted' = [s \in Times |-> [t \in Times |->
                 IF s <= now /\ now <= t THEN admitted[s][t] + n ELSE admitted[s][t]]]
  <2>1. /\ admitted' \in [Times -> [Times -> Nat]]
        /\ \A s, t \in Times : admitted'[s][t] =
             IF s <= now /\ now <= t THEN admitted[s][t] + n ELSE admitted[s][t]
    <3>1. \A s, t \in Times : admitted[s][t] \in Nat /\ admitted[s][t] + n \in Nat
      BY <1>n, <1>6
    <3> QED BY <1>13, <3>1
  <2>2. left[i] + n <= Rate /\ left[i] \in Nat
    <3>1. left[i] <= B!Total(left) /\ left[i] \in 0 .. Rate
      BY <1>4, <1>5, CounterWithinTotal DEF Counts
    <3> QED BY <1>n, <1>4, <1>13, <3>1
  <2>3. ASSUME NEW b \in Int, b <= i
        PROVE  /\ buckets' \in Counts
               /\ Cardinality(UnitsFrom(buckets', b)) = Cardinality(UnitsFrom(left, b)) + n
    BY <1>n, <1>4, <1>5, <1>13, <2>2, <2>3, AddUnits
  <2>4. buckets' \in Counts /\ B!Total(buckets') = B!Total(left) + n
    <3>1. 0 \in Int /\ 0 <= i
      BY <1>5
    <3> QED BY <2>3, <3>1, AllUnits
  <2>5. B!TypeOK'
    BY <1>1, <2>1, <2>4, BucketTypes
  <2>6. B!Total(buckets)' <= Rate
    BY <1>n, <1>4, <1>13, <2>4
  <2>7. NothingNewer(buckets, newest)'
    <3>1. \A b \in B!Indexes : b # i => buckets'[b] = left[b]
      BY <1>4, <1>13 DEF Counts
    <3>2. ~(B!BucketSize * i > newest')
      <4>1. B!BucketSize * i \in Int
        BY <1>5, BucketSizes
      <4> QED BY <1>n, <1>5, <4>1
    <3> QED BY <1>10, <3>1, <3>2 DEF NothingNewer
  <2>8. NothingAhead'
    <3> SUFFICES ASSUME NEW s \in Times, NEW t \in Times, s > newest'
                 PROVE  admitted'[s][t] = 0
      BY DEF NothingAhead
    <3>1. s > newest /\ ~(s <= now)
      BY <1>n, <1>2
    <3> QED BY <1>6, <2>1, <3>1
  <2>9. Counted'
    <3> SUFFICES ASSUME ordered', ~early', NEW e \in Coming', NEW s \in Times,
                        NEW t \in Times, newest' <= e,
                        B!BucketIndex(e) - BucketCount + 1 <= B!BucketIndex(s)
                 PROVE  admitted'[s][t] <= held(buckets', s)
      BY DEF Counted, held
    <3>1. admitted[s][t] <= held(left, s)
      BY <1>1, <1>9, <1>11
    <3>2. CASE s <= now
      <4>1. B!BucketIndex(s) \in Int /\ B!BucketIndex(s) <= i
        BY <1>n, <1>2, <1>7, <3>2, BucketsMoveOn DEF i
      <4>2. held(buckets', s) = held(left, s) + n
        BY <2>3, <4>1 DEF held
      <4> QED BY <1>n, <1>6, <1>8, <2>1, <3>1, <4>2
    <3>3. CASE ~(s <= now)
      <4>1. admitted'[s][t] = 0
        BY <1>1, <1>2, <1>6, <2>1, <3>3
      <4>2. held(buckets', s) \in Nat
        BY FiniteUnits DEF UnitsFrom, held
      <4> QED BY <4>1, <4>2
    <3> QED BY <3>2, <3>3
  <2>10. B!SpanBounded'
    <3> SUFFICES ASSUME ordered', ~early', NEW s \in Times, NEW t \in Times,
                        s <= t, t <= s + (BucketCount - 1) * B!BucketSize
                 PROVE  admitted'[s][t] <= Rate
      BY BucketCalls DEF B!SpanBounded, B!Limit
    <3>1. CASE s <= now /\ now <= t
      <4>1. now <= s + (BucketCount - 1) * B!BucketSize
        <5>1. (BucketCount - 1) * B!BucketSize \in Int
          BY BucketSizes
        <5> QED BY <1>n, <1>2, <3>1, <5>1
      <4>2. i - (BucketCount - 1) <= B!BucketIndex(s)
        BY <1>n, <1>2, <4>1, BucketsApart DEF i
      <4>3. admitted[s][t] <= held(left, s)
        BY <1>1, <1>5, <1>7, <1>9, <4>2
      <4> QED BY <1>n, <1>4, <1>6, <1>8, <1>13, <2>1, <3>1, <4>3
    <3>2. CASE ~(s <= now /\ now <= t)
      BY <1>1, <2>1, <3>2, BucketCalls DEF BucketInv, B!SpanBounded, B!Limit
    <3> QED BY <3>1, <3>2
  <2> QED BY <1>1, <2>5, <2>6, <2>7, <2>8, <2>9, <2>10 DEF BucketInv
<1> QED BY <1>3, <1>12, <1>13

\* Every step keeps the invariant.
LEMMA BucketInvStep == BucketInv /\ [B!Next]_(B!vars) => BucketInv'
<1> SUFFICES ASSUME BucketInv, [B!Next]_(B!vars) PROVE BucketInv'
  OBVIOUS
<1>1. ASSUME NEW c \in Callers, NEW n \in Sizes, B!AllowN(c, n) PROVE BucketInv'
  BY <1>1, BucketCall
<1>2. CASE /\ (\E c \in Callers : B!ReadClock(c)) \/ B!Tick \/ UNCHANGED calls
           /\ UNCHANGED <<buckets, admitted>>
  <2>1. (\E c \in Callers : ReadClock(c)) \/ Tick \/ UNCHANGED calls
    BY <1>2, BucketCalls
  <2> QED BY <1>2, <2>1, ClockStep, BucketQuiet DEF BucketInv
<1>3. CASE B!Forget
  <2> DEFINE settled == \A x \in B!Coming : B!Settled(x)
             none == [b \in B!Indexes |-> 0]
  <2>1. Delete(settled) /\ buckets' = none /\ UNCHANGED admitted
    BY <1>3, BucketCalls DEF B!Forget
  <2>2. /\ CallsInv' /\ Coming' = Coming
        /\ UNCHANGED <<time, newest, ordered>>
        /\ ~early' => ~early /\ settled
    BY <2>1, DeleteStep DEF BucketInv
  <2>3. /\ buckets \in Counts /\ admitted \in [Times -> [Times -> Nat]]
        /\ Coming \subseteq Nat /\ Times \subseteq Nat /\ newest \in Int
    BY BucketCalls, TimesAreNumbers DEF BucketInv, B!TypeOK, CallsInv, Counts, B!Limit
  <2>4. /\ none \in Counts /\ B!Total(none) = 0 /\ NothingNewer(none, newest)
    BY <2>3, NoUnits
  <2>5. B!TypeOK'
    BY <2>1, <2>2, <2>3, <2>4, BucketTypes
  <2>6. Counted'
    <3> SUFFICES ASSUME ordered', ~early', NEW e \in Coming, NEW s \in Times,
                        NEW t \in Times, newest <= e,
                        B!BucketIndex(e) - BucketCount + 1 <= B!BucketIndex(s)
                 PROVE  admitted[s][t] <= Cardinality(UnitsFrom(none, B!BucketIndex(s)))
      BY <2>1, <2>2 DEF Counted
    <3>1. admitted[s][t] <= Cardinality(UnitsFrom(buckets, B!BucketIndex(s)))
      BY <2>2 DEF BucketInv, Counted
    <3>2. NothingNewer(buckets, e)
      <4>1. \A b \in B!Indexes : B!BucketSize * b \in Int
        BY BucketSizes DEF B!Indexes
      <4> QED BY <2>3, <4>1 DEF BucketInv, NothingNewer
    <3>3. UnitsFrom(B!Prune(buckets, e), B!BucketIndex(s))
            = UnitsFrom(buckets, B!BucketIndex(s))
      <4>1. B!BucketIndex(s) \in Int /\ e \in Nat
        BY <2>3, InBucket
      <4> QED BY <2>3, <3>2, <4>1, PruneKeepsUnits
    <3>4. B!Total(B!Prune(buckets, e)) = 0
      BY <2>2, BucketCalls DEF B!Settled
    <3>5. \A counts, b : /\ Cardinality(UnitsFrom(counts, b)) \in Nat
                         /\ Cardinality(UnitsFrom(counts, b)) <= B!Total(counts)
      BY FiniteUnits DEF UnitsFrom
    <3>6. admitted[s][t] \in Nat
      BY <2>3
    <3> HIDE DEF none
    <3> QED BY <3>1, <3>3, <3>4, <3>5, <3>6
  <2>7. B!SpanBounded' /\ NothingAhead'
    BY <2>1, <2>2, BucketCalls DEF BucketInv, NothingAhead, B!SpanBounded
  <2> QED BY <2>1, <2>2, <2>4, <2>5, <2>6, <2>7 DEF BucketInv
<1>4. CASE UNCHANGED B!vars
  <2>1. UNCHANGED calls /\ UNCHANGED <<buckets, admitted>>
    BY <1>4 DEF B!vars, B!calls, calls
  <2> QED BY <1>2, <2>1
<1> QED BY <1>1, <1>2, <1>3, <1>4, BucketCalls DEF B!Next

\* Every state of the bucketed window has the invariant.
LEMMA BucketInvariant == B!Spec => []BucketInv
BY BucketInvInit, BucketInvStep, PTL DEF B!Spec

\* No bucket counts more than Rate units.
THEOREM BucketTypesOK == B!Spec => []B!TypeOK
<1>1. BucketInv => B!TypeOK
  BY DEF BucketInv
<1> QED BY <1>1, BucketInvariant, PTL

\* As long as calls are applied in the order of their times and no entry is
\* deleted early, a span that reaches over BucketCount buckets at most is granted
\* no more than Rate units, wherever it starts.
THEOREM BucketSpanBounded == B!Spec => []B!SpanBounded
<1>1. BucketInv => B!SpanBounded
  BY DEF BucketInv
<1> QED BY <1>1, BucketInvariant, PTL

\* When the oldest bucket has expired it is pruned with at least one unit.
LEMMA BucketRetry ==
  ASSUME BucketCount <= Window, BucketInv
  PROVE  B!BucketRetrySuffices
<1> SUFFICES ASSUME NEW now \in time .. MaxTime, ~B!Allows(buckets, now, 1)
             PROVE  B!Allows(buckets, now + B!RetryAfter(buckets, now), 1)
  BY DEF B!BucketRetrySuffices
<1> DEFINE left == B!Prune(buckets, now)
           current == B!BucketIndex(now)
           full == {b \in B!Indexes : left[b] > 0}
           oldest == B!Min({current} \cup full)
           wait == B!BucketSize * oldest + Window - now
           retry == now + B!RetryAfter(buckets, now)
<1>1. /\ buckets \in Counts /\ B!Total(buckets) \in Nat /\ B!Total(buckets) <= Rate
      /\ now \in Nat /\ current \in Nat
  <2>1. now \in Nat
    BY TimesAreNumbers DEF BucketInv, CallsInv
  <2>2. buckets \in Counts /\ B!Total(buckets) <= Rate
    BY BucketCalls DEF BucketInv, B!TypeOK, B!Limit, Counts
  <2>3. B!Total(buckets) \in Nat
    BY FiniteUnits
  <2> QED BY <2>1, <2>2, <2>3, InBucket
<1>2. left \in Counts /\ B!Units(left) \subseteq B!Units(buckets)
  BY <1>1, PruneCounts
<1>3. ~(1 <= Rate - B!Total(left)) /\ B!Total(left) \in Nat
  BY FiniteUnits DEF B!Allows, B!Limit
\* There is a unit left, so there is an oldest bucket that has one.
<1>4. PICK b \in B!Indexes : b \in full /\ b <= current
  <2>1. B!Units(left) # {}
    <3> SUFFICES ASSUME B!Units(left) = {} PROVE FALSE
      OBVIOUS
    <3>1. B!Total(left) = 0
      BY FS_EmptySet DEF B!Total, B!Cardinality, Cardinality
    <3> QED BY <1>3, <3>1
  <2>2. PICK u \in B!Units(left) : TRUE
    BY <2>1
  <2>3. u[1] \in B!Indexes /\ u[2] \in 1 .. Rate /\ u[2] <= left[u[1]]
    BY DEF B!Units, B!Limit
  <2>4. left[u[1]] \in 0 .. Rate
    BY <1>2, <2>3 DEF Counts
  <2>5. left[u[1]] > 0
    BY <2>3, <2>4
  <2>6. u[1] <= current
    BY <2>3, <2>5 DEF B!Prune, B!Kept
  <2> QED BY <2>3, <2>5, <2>6
<1>5. oldest \in full /\ oldest \in Nat /\ oldest <= current
  <2>1. {current} \cup full \subseteq Nat
    BY <1>1 DEF B!Indexes
  <2>2. \E x \in {current} \cup full : \A y \in {current} \cup full : x <= y
    BY <2>1, Least
  <2>3. oldest \in {current} \cup full /\ \A y \in {current} \cup full : oldest <= y
    BY <2>2 DEF B!Min
  <2> HIDE DEF full, oldest, current
  <2>4. oldest <= b /\ b <= current /\ b \in Nat
    BY <1>4, <2>1, <2>3
  <2>5. oldest \in Nat /\ oldest <= current
    BY <2>1, <2>3
  <2>6. oldest = current => oldest = b
    BY <1>1, <2>4, <2>5
  <2> QED BY <1>4, <2>3, <2>5, <2>6
<1> HIDE DEF oldest
<1>6. retry \in Nat /\ B!BucketSize * oldest + Window <= retry
  <2>1. wait \in Int
    BY <1>1, <1>5, BucketSizes
  <2>2. B!RetryAfter(buckets, now) = B!Max({0, wait})
    <3>1. oldest * B!BucketSize = B!BucketSize * oldest
      BY <1>5, BucketSizes
    <3>2. B!RetryAfter(buckets, now) = B!Max({0, B!BucketExpires(oldest) - now})
      BY DEF B!RetryAfter, oldest
    <3>3. B!BucketExpires(oldest) - now = wait
      BY <1>1, <1>5, <3>1, BucketSizes DEF B!BucketExpires
    <3> QED BY <3>2, <3>3
  <2> HIDE DEF wait
  <2>3. B!Max({0, wait}) \in Nat /\ B!Max({0, wait}) >= wait
    <3>1. \E x \in {0, wait} : \A y \in {0, wait} : x >= y
      BY <2>1
    <3>2. B!Max({0, wait}) \in {0, wait} /\ \A y \in {0, wait} : B!Max({0, wait}) >= y
      BY <3>1 DEF B!Max
    <3> QED BY <2>1, <3>2
  <2>4. B!BucketSize * oldest \in Int
    BY <1>5, BucketSizes
  <2> QED BY <1>1, <2>1, <2>2, <2>3, <2>4 DEF wait
<1>7. oldest + BucketCount <= B!BucketIndex(retry)
  <2>1. B!BucketSize * (oldest + BucketCount)
          = B!BucketSize * oldest + BucketCount * B!BucketSize
    BY <1>5, BucketSizes
  <2>2. B!BucketSize * oldest \in Int /\ BucketCount * B!BucketSize \in Int
    BY <1>5, BucketSizes
  <2>3. B!BucketSize * (oldest + BucketCount) <= retry
    BY <1>6, <2>1, <2>2, BucketSizes
  <2> QED BY <1>5, <1>6, <2>3, InBucket
<1> HIDE DEF retry
<1>8. B!Total(B!Prune(buckets, retry)) < B!Total(buckets)
  <2> DEFINE later == B!Prune(buckets, retry)
  <2>1. B!Units(later) \subseteq B!Units(buckets)
    BY <1>1, <1>6, PruneCounts
  <2>2. later[oldest] = 0 /\ oldest \in B!Indexes
    <3>1. ~(oldest >= B!BucketIndex(retry) - BucketCount + 1)
      BY <1>5, <1>6, <1>7, InBucket
    <3> QED BY <1>5, <3>1 DEF B!Prune, B!Kept
  <2>3. <<oldest, 1>> \notin B!Units(later)
    BY <2>2 DEF B!Units
  <2>4. <<oldest, 1>> \in B!Units(buckets)
    <3>1. left[oldest] > 0 /\ left[oldest] \in {0, buckets[oldest]}
      BY <1>1, <1>5, PruneCounts
    <3>2. buckets[oldest] \in 0 .. Rate
      BY <1>1, <2>2 DEF Counts
    <3>3. 1 <= buckets[oldest]
      BY <3>1, <3>2
    <3> QED BY <2>2, <3>3 DEF B!Units, B!Limit
  <2>5. B!Total(later) = Cardinality(B!Units(later))
    BY DEF B!Total, B!Cardinality, Cardinality
  <2> HIDE DEF later
  <2>6. /\ B!Total(later) \in Nat /\ B!Total(later) <= B!Total(buckets)
        /\ B!Total(later) # B!Total(buckets)
    BY <2>1, <2>3, <2>4, <2>5, FiniteUnits
  <2> QED BY <1>1, <2>6 DEF later
<1>9. B!Total(B!Prune(buckets, retry)) \in Nat
  BY FiniteUnits
<1> QED BY <1>1, <1>8, <1>9 DEF B!Allows, B!Limit, retry

\* A refused unit passes after RetryAfter, unless a window has fewer clock units
\* than buckets: BucketCount buckets of one unit outlast the window that RetryAfter
\* waits for.
THEOREM BucketRetryAlwaysSuffices ==
  ASSUME BucketCount <= Window
  PROVE  B!Spec => []B!BucketRetrySuffices
<1>1. BucketInv => B!BucketRetrySuffices
  BY BucketRetry
<1> QED BY <1>1, BucketInvariant, PTL

\* An entry that was idle for as long as its buckets last has no unit that counts.
LEMMA BucketIdle == BucketInv => B!BucketIdleSettled
<1> SUFFICES ASSUME BucketInv, ordered, lastSeen # Unset,
                    time - lastSeen >= BucketCount * B!BucketSize
             PROVE  B!Total(B!Prune(buckets, time)) = 0
  BY BucketCalls DEF B!BucketIdleSettled, B!Settled
<1>1. /\ lastSeen = newest /\ newest \in Nat /\ time \in Nat
      /\ NothingNewer(buckets, newest)
  <2>1. lastSeen = newest /\ time \in Nat
    BY TimesAreNumbers DEF BucketInv, CallsInv, SeenLast
  <2>2. lastSeen \in Nat
    BY DEF BucketInv, CallsInv, CallsType, Times
  <2> QED BY <2>1, <2>2 DEF BucketInv
<1>2. B!BucketIndex(newest) + BucketCount <= B!BucketIndex(time)
  <2>1. BucketCount * B!BucketSize \in Int
    BY BucketSizes
  <2>2. time >= newest + BucketCount * B!BucketSize
    BY <1>1, <2>1
  <2> QED BY <1>1, <2>2, BucketsApart
<1>3. B!Prune(buckets, time) = [b \in B!Indexes |-> 0]
  <2>1. ASSUME NEW b \in B!Indexes, b >= B!BucketIndex(time) - BucketCount + 1
        PROVE  buckets[b] = 0
    <3>1. b \in Nat
      BY DEF B!Indexes
    <3>2. ~(b <= B!BucketIndex(newest))
      BY <1>1, <1>2, <2>1, <3>1, InBucket
    <3>3. ~(B!BucketSize * b <= newest) /\ B!BucketSize * b \in Int
      BY <1>1, <3>1, <3>2, InBucket, BucketSizes
    <3> QED BY <1>1, <3>3 DEF NothingNewer
  <2> QED BY <2>1 DEF B!Prune, B!Kept
<1> QED BY <1>3, NoUnits

\* If calls are applied in order, an IdleTTL of all buckets is enough.
THEOREM BucketIdleAlwaysSettled == B!Spec => []B!BucketIdleSettled
BY BucketInvariant, BucketIdle, PTL

---------------------------------------------------------------------------
(* All limiters.                                                           *)

\* The invariant of the limiter that a behaviour is about.
LimitersInv ==
  /\ limiter = "gcra" => GCRAInv /\ IdleInv
  /\ limiter # "gcra" => \A s, t \in Times : within[s][t] = 0
  /\ limiter = "token_bucket" => TokenInv
  /\ limiter = "sliding_window" => SlidingInv
  /\ limiter = "bucketed_window" => BucketInv

\* Every limiter starts with its own.
LEMMA LimitersInvInit == LimitersInit => LimitersInv
<1>1. Init => \A s, t \in Times : within[s][t] = 0
  BY DEF Init
<1> QED BY <1>1, GCRAInvInit, IdleInvInit, TokenInvInit, SlidingInvInit, BucketInvInit
           DEF LimitersInit, LimitersInv

\* A step is one of that limiter, or nothing.
LEMMA LimitersInvStep == LimitersInv /\ [LimitersNext]_allVars => LimitersInv'
<1> SUFFICES ASSUME LimitersInv, [LimitersNext]_allVars PROVE LimitersInv'
  OBVIOUS
<1>1. limiter' = limiter
  BY DEF LimitersNext, GCRAStep, TokenBucketStep, SlidingWindowStep, BucketedWindowStep,
         allVars
<1>2. ASSUME limiter = "gcra" PROVE GCRAInv' /\ IdleInv'
  <2>1. [Next]_vars
    BY <1>2 DEF LimitersNext, GCRAStep, TokenBucketStep, SlidingWindowStep,
                BucketedWindowStep, allVars
  <2> QED BY <1>2, <2>1, GCRAInvStep, IdleInvStep DEF LimitersInv
<1>3. ASSUME limiter = "token_bucket" PROVE TokenInv'
  <2>1. [T!Next]_(T!vars)
    BY <1>3 DEF LimitersNext, GCRAStep, TokenBucketStep, SlidingWindowStep,
                BucketedWindowStep, allVars, vars, calls, T!vars, T!calls, T!bucket,
                tokenBucket
  <2> QED BY <1>3, <2>1, TokenInvStep DEF LimitersInv
<1>4. ASSUME limiter = "sliding_window" PROVE SlidingInv'
  <2>1. [S!Next]_(S!vars)
    BY <1>4 DEF LimitersNext, GCRAStep, TokenBucketStep, SlidingWindowStep,
                BucketedWindowStep, allVars, vars, calls, S!vars, S!calls
  <2> QED BY <1>4, <2>1, SlidingInvStep DEF LimitersInv
<1>5. ASSUME limiter = "bucketed_window" PROVE BucketInv'
  <2>1. [B!Next]_(B!vars)
    BY <1>5 DEF LimitersNext, GCRAStep, TokenBucketStep, SlidingWindowStep,
                BucketedWindowStep, allVars, vars, calls, B!vars, B!calls
  <2> QED BY <1>5, <2>1, BucketInvStep DEF LimitersInv
<1>6. ASSUME limiter # "gcra" PROVE UNCHANGED within
  BY <1>6 DEF LimitersNext, GCRAStep, TokenBucketStep, SlidingWindowStep,
              BucketedWindowStep, allVars, vars, gcra
<1> QED BY <1>1, <1>2, <1>3, <1>4, <1>5, <1>6 DEF LimitersInv

\* Every state has the invariant of its limiter.
LEMMA LimitersInvariant == LimitersSpec => []LimitersInv
BY LimitersInvInit, LimitersInvStep, PTL DEF LimitersSpec

\* Whatever the limiter, its entry and the calls stay in their types.
THEOREM EntriesAlwaysTyped == LimitersSpec => []EntriesTyped
<1>1. LimitersInv => EntriesTyped
  BY DEF LimitersInv, GCRAInv, TokenInv, SlidingInv, BucketInv, EntriesTyped
<1> QED BY <1>1, LimitersInvariant, PTL

\* Every limiter keeps the rate that its configuration asks for: GCRA in any
\* order of calls, the token bucket too as far as tokens are concerned, and all
\* of them in any span when calls are applied in order.
THEOREM RatesAlwaysHeld == LimitersSpec => [](GCRAConforms /\ RatesHeld)
<1>1. LimitersInv => GCRAConforms
  <2>1. ASSUME \A s, t \in Times : within[s][t] = 0 PROVE GCRAConforms
    <3> SUFFICES ASSUME NEW s \in Times, NEW t \in Times, s <= t
                 PROVE  0 * Interval <= Burst * Interval + (t - s)
      BY <2>1 DEF GCRAConforms
    <3>1. 0 * Interval = 0 /\ Burst * Interval \in Nat /\ t - s \in Nat
      BY GCRAConstants DEF Times
    <3> QED BY <3>1
  <2> QED BY <2>1 DEF LimitersInv, GCRAInv
<1>2. LimitersInv => RatesHeld
  <2>1. TokenInv => T!TokensConserved /\ T!TokenConforms
    BY DEF TokenInv, TotalInv, Covers, T!TokensConserved
  <2>2. SlidingInv => S!WindowExact
    BY DEF SlidingInv
  <2>3. BucketInv => B!SpanBounded
    BY DEF BucketInv
  <2> QED BY <2>1, <2>2, <2>3 DEF LimitersInv, RatesHeld
<1> QED BY <1>1, <1>2, LimitersInvariant, PTL

\* What a decision tells its caller is so, whatever the limiter, unless a window
\* has fewer clock units than buckets.
THEOREM DecisionsAlwaysKept ==
  ASSUME BucketCount <= Window
  PROVE  LimitersSpec => []DecisionsKept
<1>1. LimitersInv => DecisionsKept
  <2>1. GCRAInv => GCRARetryExact /\ GCRARemainingExact
    BY GCRARetry, GCRARemaining DEF GCRAInv
  <2>2. TokenInv => T!TokenRetryExact
    BY TokenRetry DEF TokenInv
  <2>3. SlidingInv => S!WindowRetryExact
    BY SlidingRetry DEF SlidingInv
  <2>4. BucketInv => B!BucketRetrySuffices
    BY BucketRetry
  <2> QED BY <2>1, <2>2, <2>3, <2>4 DEF LimitersInv, DecisionsKept
<1> QED BY <1>1, LimitersInvariant, PTL

\* Whatever the limiter, an entry that was idle for as long as its debts can last
\* may be deleted, if calls are applied in order.
THEOREM IdleAlwaysSettled == LimitersSpec => []IdleIsSettled
<1>1. LimitersInv => IdleIsSettled
  <2>1. IdleInv => GCRAIdleSettled
    BY GCRAIdle
  <2>2. TokenInv => T!TokenIdleSettled
    BY TokenIdle
  <2>3. SlidingInv => S!WindowIdleSettled
    BY SlidingIdle
  <2>4. BucketInv => B!BucketIdleSettled
    BY BucketIdle
  <2> QED BY <2>1, <2>2, <2>3, <2>4 DEF LimitersInv, IdleIsSettled
<1> QED BY <1>1, LimitersInvariant, PTL

=============================================================================
