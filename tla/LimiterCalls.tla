---------------------------- MODULE LimiterCalls ----------------------------
(***************************************************************************)
(* How goroutines call a limiter for one key.  AllowN of every limiter     *)
(* reads the clock first and applies that time later, under the lock of    *)
(* the key's shard, so the clock may move and other goroutines may be      *)
(* served in between: calls can be applied in another order than their     *)
(* times.                                                                  *)
(*                                                                         *)
(* The entry of a key is deleted by the cleanup of any call on its shard   *)
(* that finds it idle, and created again by the next call for the key.     *)
(***************************************************************************)
EXTENDS Integers, FiniteSets, FiniteSetsExt

CONSTANTS
  Callers,      \* goroutines that call AllowN for the key
  Rate,         \* Config.Rate
  Window,       \* Config.Window
  BurstOpt,     \* Config.Burst; 0 where it is not given
  BucketCount,  \* Config.BucketCount
  IdleTTL,      \* Config.IdleTTL; ten windows where it is not given
  MaxTime,      \* bound: the clock stops here
  MaxN          \* bound: the largest request size

Times == 0 .. MaxTime
Sizes == 1 .. MaxN
Unset == -1

ASSUME ConfigAssumption ==
  /\ Rate \in Nat \ {0} /\ Window \in Nat \ {0} /\ BurstOpt \in Nat
  /\ BucketCount \in Nat \ {0} /\ IdleTTL \in Nat \ {0} /\ MaxTime \in Nat /\ MaxN \in Nat

VARIABLES
  time,      \* the clock
  stamp,     \* the time each goroutine has read, or Unset
  lastSeen,  \* the time of the last call applied to the entry, or Unset
  newest,    \* history: the latest time that was applied, or Unset
  ordered,   \* history: whether calls were applied in the order of their times
  early      \* history: whether an entry was deleted that still mattered

calls == <<time, stamp, lastSeen, newest, ordered, early>>

CallsInit ==
  /\ time = 0
  /\ stamp = [c \in Callers |-> Unset]
  /\ lastSeen = Unset
  /\ newest = Unset
  /\ ordered = TRUE
  /\ early = FALSE

CallsType ==
  /\ time \in Times
  /\ stamp \in [Callers -> Times \cup {Unset}]
  /\ lastSeen \in Times \cup {Unset}
  /\ newest \in Times \cup {Unset}
  /\ ordered \in BOOLEAN
  /\ early \in BOOLEAN

ReadClock(c) ==
  /\ stamp[c] = Unset
  /\ stamp' = [stamp EXCEPT ![c] = time]
  /\ UNCHANGED <<time, lastSeen, newest, ordered, early>>

KeepsFirstSeen(c) ==
  /\ stamp[c] # Unset
  /\ stamp' = [stamp EXCEPT ![c] = Unset]
  /\ ordered' = (ordered /\ newest <= stamp[c])
  /\ newest' = Max({newest, stamp[c]})
  /\ lastSeen' = IF lastSeen = Unset THEN stamp[c] ELSE lastSeen
  /\ UNCHANGED <<time, early>>

\* The call of c gets the lock; what it does to the entry is the limiter's.  The
\* entry was seen at the call's own time, even if a later one was there before.
Apply(c) ==
  /\ stamp[c] # Unset
  /\ stamp' = [stamp EXCEPT ![c] = Unset]
  /\ ordered' = (ordered /\ newest <= stamp[c])
  /\ newest' = Max({newest, stamp[c]})
  /\ lastSeen' = stamp[c]
  /\ UNCHANGED <<time, early>>

Tick ==
  /\ time < MaxTime
  /\ time' = time + 1
  /\ UNCHANGED <<stamp, lastSeen, newest, ordered, early>>

\* The times that calls may still be applied with, but for later ones.
Coming == {time} \cup {stamp[c] : c \in {d \in Callers : stamp[d] # Unset}}

\* cleanupLocked deletes the entry when a call on the shard, for this key or for
\* another, is more than IdleTTL past it.  The call may have read the clock at
\* any time up to now; the order of the map and cleanupLimit may spare the
\* entry.  settled tells whether a fresh entry makes no difference.
Expired == lastSeen # Unset /\ time - lastSeen > IdleTTL
Delete(settled) ==
  /\ Expired
  /\ lastSeen' = Unset
  /\ early' = (early \/ ~settled)
  /\ UNCHANGED <<time, stamp, newest, ordered>>

=============================================================================
