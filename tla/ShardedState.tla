---------------------------- MODULE ShardedState ----------------------------
(***************************************************************************)
(* The keyed state that all limiters share: a map per shard, each behind   *)
(* its own mutex, and one atomic counter of keys over all shards that      *)
(* enforces MaxKeys.                                                       *)
(*                                                                         *)
(* WithEntry locks its shard twice.  The counter is read once between the  *)
(* two critical sections and once inside the second, and it is incremented *)
(* after the key is stored; neither is under a lock that another shard     *)
(* takes.  The limiter reads its clock before WithEntry takes any lock, so *)
(* calls can be applied in another order than their times.                 *)
(***************************************************************************)
EXTENDS Integers, FiniteSets, FiniteSetsExt

CONSTANTS
  Callers,       \* goroutines that call the limiter
  Keys,          \* keys
  Shards,        \* number of shards, numbered from 1
  ShardOf,       \* the shard of each key: its hash modulo the shards
  MaxKeys,       \* 0 is no limit
  IdleTTL,       \* how long an entry stays without being used
  CleanupLimit,  \* entries one cleanup removes at most
  AllowNewKey,   \* the StateFullPolicy
  MaxTime,       \* bound: the clock stops here
  MaxCalls,      \* bound: calls one goroutine makes
  Nobody,        \* an unlocked shard
  NoKey          \* the key of a goroutine that is not in a call

Times == 0 .. MaxTime
ShardIds == 1 .. Shards
Absent == -1
Steps == {"idle", "look", "check", "sweep", "relook", "load", "insert"}

ASSUME ShardAssumption ==
  /\ Shards \in Nat \ {0}
  /\ Keys # {} /\ ShardOf \in [Keys -> ShardIds]
  /\ MaxKeys \in Nat /\ IdleTTL \in Nat \ {0} /\ CleanupLimit \in Nat \ {0}
  /\ AllowNewKey \in BOOLEAN
  /\ MaxTime \in Nat /\ MaxCalls \in Nat
  /\ Nobody \notin Callers /\ NoKey \notin Keys

VARIABLES
  time,    \* the limiter's clock
  seen,    \* lastSeen of each key's entry, or Absent
  count,   \* the atomic counter
  lock,    \* who holds the mutex of each shard
  pc,      \* the step of each caller
  key,     \* the key it asks about
  now,     \* the time it read before it took a lock
  next,    \* the next shard its sweep visits
  calls,   \* calls it has made
  answer   \* how the call before ended

vars == <<time, seen, count, lock, pc, key, now, next, calls, answer>>

Init ==
  /\ time = 0
  /\ seen = [k \in Keys |-> Absent]
  /\ count = 0
  /\ lock = [s \in ShardIds |-> Nobody]
  /\ pc = [c \in Callers |-> "idle"]
  /\ key = [c \in Callers |-> NoKey]
  /\ now = [c \in Callers |-> 0]
  /\ next = [c \in Callers |-> 1]
  /\ calls = [c \in Callers |-> 0]
  /\ answer = [c \in Callers |-> "none"]

---------------------------------------------------------------------------

\* The keys that have an entry, over all shards.
items == {k \in Keys : seen[k] # Absent}

\* What cleanupLocked removes from one shard: idle entries in the order the map
\* happens to give them, CleanupLimit of them at most.
Idle(s, t) == {k \in items : ShardOf[k] = s /\ t - seen[k] > IdleTTL}
Removals(s, t) == kSubset(Min({CleanupLimit, Cardinality(Idle(s, t))}), Idle(s, t))
Without(removed) == [k \in Keys |-> IF k \in removed THEN Absent ELSE seen[k]]

\* Each removal takes one from the counter.  A reader in another shard that comes
\* in between sees the same of IsFull as one before or after the whole cleanup.
KeepsCounting(removed) == count
CountWithout(removed) == count - Cardinality(removed)

Free(k) == lock[ShardOf[k]] = Nobody
LeavesLocked(c) == UNCHANGED lock
Unlock(c) == lock' = [lock EXCEPT ![ShardOf[key[c]]] = Nobody]
Goto(c, step) == pc' = [pc EXCEPT ![c] = step]
\* WithEntry returns, and its locals are gone.
Answer(c, what) ==
  /\ Goto(c, "idle")
  /\ answer' = [answer EXCEPT ![c] = what]
  /\ key' = [key EXCEPT ![c] = NoKey]
  /\ now' = [now EXCEPT ![c] = 0]

\* AllowN reads the clock and enters WithEntry.
Call(c, k) ==
  /\ pc[c] = "idle"
  /\ calls[c] < MaxCalls
  /\ calls' = [calls EXCEPT ![c] = @ + 1]
  /\ key' = [key EXCEPT ![c] = k]
  /\ now' = [now EXCEPT ![c] = time]
  /\ answer' = [answer EXCEPT ![c] = "none"]
  /\ Goto(c, "look")
  /\ UNCHANGED <<time, seen, count, lock, next>>

\* The first critical section: clean the shard and use the entry if it is there.
Look(c) ==
  /\ pc[c] = "look"
  /\ Free(key[c])
  /\ \E removed \in Removals(ShardOf[key[c]], now[c]) :
       /\ count' = CountWithout(removed)
       /\ \/ /\ Without(removed)[key[c]] # Absent
             /\ seen' = [Without(removed) EXCEPT ![key[c]] = now[c]]
             /\ Answer(c, "used")
          \/ /\ Without(removed)[key[c]] = Absent
             /\ seen' = Without(removed)
             /\ Goto(c, "check")
             /\ UNCHANGED <<answer, key, now>>
  /\ UNCHANGED <<time, lock, next, calls>>

\* The unlocked look at the counter decides whether to clean every shard.
IsFull == MaxKeys > 0 /\ count >= MaxKeys
Check(c) ==
  /\ pc[c] = "check"
  /\ Goto(c, IF IsFull THEN "sweep" ELSE "relook")
  /\ UNCHANGED <<time, seen, count, lock, key, now, next, calls, answer>>

\* cleanupExpired, one shard after the other.
PastLastShard == Shards + 1
LastShard == Shards
Sweep(c) ==
  /\ pc[c] = "sweep"
  /\ lock[next[c]] = Nobody
  /\ \E removed \in Removals(next[c], now[c]) :
       /\ seen' = Without(removed)
       /\ count' = CountWithout(removed)
  /\ IF next[c] = LastShard
     THEN Goto(c, "relook") /\ next' = [next EXCEPT ![c] = 1]
     ELSE next' = [next EXCEPT ![c] = @ + 1] /\ UNCHANGED pc
  /\ UNCHANGED <<time, lock, key, now, calls, answer>>

\* The second critical section: the shard is locked, cleaned and searched again,
\* since another caller may have added the key in between.
TrustsFirstLook(c, left) == FALSE
FoundNow(c, left) == left[key[c]] # Absent
Relook(c) ==
  /\ pc[c] = "relook"
  /\ Free(key[c])
  /\ \E removed \in Removals(ShardOf[key[c]], now[c]) :
       /\ count' = CountWithout(removed)
       /\ \/ /\ FoundNow(c, Without(removed))
             /\ seen' = [Without(removed) EXCEPT ![key[c]] = now[c]]
             /\ Answer(c, "used")
             /\ UNCHANGED lock
          \/ /\ ~FoundNow(c, Without(removed))
             /\ seen' = Without(removed)
             /\ lock' = [lock EXCEPT ![ShardOf[key[c]]] = c]
             /\ Goto(c, "load")
             /\ UNCHANGED <<answer, key, now>>
  /\ UNCHANGED <<time, next, calls>>

\* Still under the lock, the counter decides; a full state refuses the key or
\* lets the call pass on a value that is not kept.
ChecksNothing == FALSE
FullOnLoad == IsFull
Load(c) ==
  /\ pc[c] = "load"
  /\ \/ /\ FullOnLoad
        /\ Unlock(c)
        /\ Answer(c, IF AllowNewKey THEN "unrecorded" ELSE "state_full")
     \/ /\ ~FullOnLoad
        /\ Goto(c, "insert")
        /\ UNCHANGED <<lock, answer, key, now>>
  /\ UNCHANGED <<time, seen, count, next, calls>>

\* The key is stored and counted, and the shard unlocked.
Insert(c) ==
  /\ pc[c] = "insert"
  /\ seen' = [seen EXCEPT ![key[c]] = now[c]]
  /\ count' = count + 1
  /\ Unlock(c)
  /\ Answer(c, "used")
  /\ UNCHANGED <<time, next, calls>>

Reset(k) ==
  /\ Free(k)
  /\ k \in items
  /\ seen' = Without({k})
  /\ count' = CountWithout({k})
  /\ UNCHANGED <<time, lock, pc, key, now, next, calls, answer>>

Tick ==
  /\ time < MaxTime
  /\ time' = time + 1
  /\ UNCHANGED <<seen, count, lock, pc, key, now, next, calls, answer>>

CallerStep(c) ==
  Look(c) \/ Check(c) \/ Sweep(c) \/ Relook(c) \/ Load(c) \/ Insert(c)

Next ==
  \/ \E c \in Callers : CallerStep(c) \/ \E k \in Keys : Call(c, k)
  \/ \E k \in Keys : Reset(k)
  \/ Tick

\* Goroutines run and a shard's mutex starves nobody.
Spec == Init /\ [][Next]_vars /\ \A c \in Callers : SF_vars(CallerStep(c))

---------------------------------------------------------------------------
(* Properties.                                                             *)

TypeOK ==
  /\ time \in Times
  /\ seen \in [Keys -> Times \cup {Absent}]
  /\ count \in Int
  /\ lock \in [ShardIds -> Callers \cup {Nobody}]
  /\ pc \in [Callers -> Steps]
  /\ key \in [Callers -> Keys \cup {NoKey}]
  /\ now \in [Callers -> Times]
  /\ next \in [Callers -> ShardIds]
  /\ calls \in [Callers -> 0 .. MaxCalls]
  /\ answer \in [Callers -> {"none", "used", "unrecorded", "state_full"}]

\* The counter that MaxKeys is checked against, and that ActiveKeys reports, is
\* the number of keys in all shards, however adds, removals by several cleaners
\* and resets interleave.
CountExact == count = Cardinality(items)

\* "MaxKeys: the largest number of active keys."
KeysBounded == MaxKeys > 0 => Cardinality(items) <= MaxKeys

\* What the code does guarantee: the callers between the read of the counter
\* and the insert hold different shards, so they exceed MaxKeys by less than
\* the number of shards.
Inserting == {c \in Callers : pc[c] = "insert"}
OvershootBounded ==
  MaxKeys > 0 =>
    Cardinality(items) + Cardinality(Inserting) <= MaxKeys + Shards - 1

\* A caller that is about to insert its key holds the key's shard and the key
\* is not there: the insert never replaces the state of a key in use.
InsertIsFresh ==
  \A c \in Inserting : lock[ShardOf[key[c]]] = c /\ key[c] \notin items

\* Every call of a limiter returns: the sweep over all shards takes their locks
\* while it holds none, so callers never wait for each other in a circle.
CallsReturn == \A c \in Callers : pc[c] # "idle" ~> pc[c] = "idle"

=============================================================================
