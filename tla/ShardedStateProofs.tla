------------------------- MODULE ShardedStateProofs -------------------------
(***************************************************************************)
(* Proofs about ShardedState, for any number of goroutines, keys and       *)
(* shards, any limit and any policy.                                       *)
(*                                                                         *)
(* A caller between the second look and the insert holds the shard of its  *)
(* key.  Everybody else only uses or removes keys there are, or inserts    *)
(* into other shards; so the key stays away, and the counter, which        *)
(* follows every change of the map, grows by one when it comes.  Callers   *)
(* at the insert are at most one a shard, and the last of them has seen    *)
(* room for its key.                                                       *)
(***************************************************************************)
EXTENDS ShardedState, FiniteSetTheorems, TLAPS

\* A caller in WithEntry has a key, and its locks are its own.
Holding ==
  \A c \in Callers :
    /\ pc[c] # "idle" => key[c] \in Keys
    /\ pc[c] \in {"load", "insert"} =>
         lock[ShardOf[key[c]]] = c /\ key[c] \notin items

Counted == IsFiniteSet(items) /\ CountExact

IInv == TypeOK /\ Holding /\ Counted /\ OvershootBounded

---------------------------------------------------------------------------
(* What the operators do.                                                  *)

USE ShardAssumption

\* A cleanup removes some of the keys of its shard.
LEMMA RemovalsAreItems ==
  ASSUME NEW s, NEW t, NEW removed \in Removals(s, t)
  PROVE  removed \subseteq items
BY DEF Removals, Idle, kSubset

\* What is left in the map when keys are removed.
LEMMA WithoutType ==
  ASSUME TypeOK, NEW removed \in SUBSET items
  PROVE  /\ Without(removed) \in [Keys -> Times \cup {Absent}]
         /\ {k \in Keys : Without(removed)[k] # Absent} = items \ removed
BY DEF Without, TypeOK, items

\* The counter follows a removal.
LEMMA CountFollows ==
  ASSUME IsFiniteSet(items), CountExact, NEW removed \in SUBSET items
  PROVE  /\ IsFiniteSet(items \ removed)
         /\ CountWithout(removed) = Cardinality(items \ removed)
         /\ CountWithout(removed) \in Nat /\ CountWithout(removed) <= count
<1>1. /\ IsFiniteSet(removed) /\ Cardinality(removed) \in Nat
      /\ Cardinality(items) \in Nat /\ items \cap removed = removed
  BY FS_Subset, FS_CardinalityType
<1>2. /\ IsFiniteSet(items \ removed)
      /\ Cardinality(items \ removed) = Cardinality(items) - Cardinality(removed)
      /\ Cardinality(items \ removed) \in Nat
  BY <1>1, FS_Difference, FS_CardinalityType
<1> QED BY <1>1, <1>2 DEF CountWithout, CountExact

---------------------------------------------------------------------------
(* What the steps do to the map.                                           *)

\* Keys are removed, some perhaps, and the counter follows.
Shrinks ==
  /\ seen' \in [Keys -> Times \cup {Absent}]
  /\ \E removed \in SUBSET items :
       items' = items \ removed /\ count' = CountWithout(removed)

\* To use an entry that a cleanup left does not change which entries there are.
LEMMA UseShrinks ==
  ASSUME TypeOK, NEW removed \in SUBSET items, NEW k \in Keys, NEW t \in Times,
         Without(removed)[k] # Absent, count' = CountWithout(removed),
         seen' = [Without(removed) EXCEPT ![k] = t]
  PROVE  Shrinks
<1>1. seen' \in [Keys -> Times \cup {Absent}]
  BY WithoutType
<1>2. t # Absent
  BY DEF Times, Absent
<1>3. items' = {j \in Keys : Without(removed)[j] # Absent}
  BY <1>2, WithoutType DEF items
<1> QED BY <1>1, <1>3, WithoutType DEF Shrinks

\* Neither does a removal add a key.
LEMMA RemovalShrinks ==
  ASSUME TypeOK, NEW removed \in SUBSET items,
         count' = CountWithout(removed), seen' = Without(removed)
  PROVE  Shrinks
BY WithoutType DEF Shrinks, items

\* The two looks add no key.
LEMMA LookShrinks ==
  ASSUME TypeOK, Holding, NEW c \in Callers, Look(c) \/ Relook(c)
  PROVE  Shrinks
<1>1. key[c] \in Keys /\ now[c] \in Times
  BY DEF Look, Relook, Holding, TypeOK
<1>2. PICK removed \in Removals(ShardOf[key[c]], now[c]) :
        /\ count' = CountWithout(removed)
        /\ \/ /\ Without(removed)[key[c]] # Absent
              /\ seen' = [Without(removed) EXCEPT ![key[c]] = now[c]]
           \/ seen' = Without(removed)
  BY DEF Look, Relook, FoundNow
<1>3. removed \subseteq items
  BY <1>2, RemovalsAreItems
<1> QED BY <1>1, <1>2, <1>3, UseShrinks, RemovalShrinks

\* A visit of a sweep adds no key.
LEMMA SweepShrinks ==
  ASSUME TypeOK, NEW c \in Callers, Sweep(c)
  PROVE  Shrinks
<1>1. PICK removed \in Removals(next[c], now[c]) :
        seen' = Without(removed) /\ count' = CountWithout(removed)
  BY DEF Sweep
<1>2. removed \subseteq items
  BY <1>1, RemovalsAreItems
<1> QED BY <1>1, <1>2, RemovalShrinks

\* A reset adds no key.
LEMMA ResetShrinks ==
  ASSUME TypeOK, NEW k \in Keys, Reset(k)
  PROVE  Shrinks
BY RemovalShrinks DEF Reset

\* The counter stays exact.
LEMMA ShrinkCounts ==
  ASSUME Counted, Shrinks
  PROVE  /\ Counted' /\ items' \subseteq items
         /\ count' \in Nat /\ count' <= count
<1>1. PICK removed \in SUBSET items :
        items' = items \ removed /\ count' = CountWithout(removed)
  BY DEF Shrinks
<1> QED BY <1>1, CountFollows DEF Counted, CountExact

\* An insert adds its key, and counts it.
LEMMA InsertCounts ==
  ASSUME TypeOK, Holding, Counted, NEW c \in Callers, Insert(c)
  PROVE  /\ Counted' /\ items' = items \cup {key[c]}
         /\ count' = count + 1 /\ count' \in Nat
         /\ seen' \in [Keys -> Times \cup {Absent}]
<1>1. /\ key[c] \in Keys /\ key[c] \notin items /\ now[c] \in Times
      /\ now[c] # Absent
  BY DEF Insert, Holding, TypeOK, Times, Absent
<1>2. /\ seen' = [seen EXCEPT ![key[c]] = now[c]] /\ count' = count + 1
      /\ seen' \in [Keys -> Times \cup {Absent}]
  BY <1>1 DEF Insert, TypeOK
<1>3. items' = items \cup {key[c]}
  BY <1>1, <1>2 DEF items, TypeOK
<1>4. /\ IsFiniteSet(items \cup {key[c]})
      /\ Cardinality(items \cup {key[c]}) = Cardinality(items) + 1
  BY <1>1, FS_AddElement DEF Counted
<1>5. Cardinality(items) \in Nat
  BY FS_CardinalityType DEF Counted
<1> QED BY <1>2, <1>3, <1>4, <1>5 DEF Counted, CountExact

---------------------------------------------------------------------------
(* The invariant.                                                          *)

\* The empty limiter satisfies it.
LEMMA IInvInit == Init => IInv
<1> SUFFICES ASSUME Init PROVE IInv
  OBVIOUS
<1>1. TypeOK
  BY DEF Init, TypeOK, Times, Steps, ShardIds
<1>2. items = {} /\ Inserting = {}
  BY DEF Init, items, Inserting
<1>3. Holding
  BY DEF Init, Holding
<1>4. Counted
  BY <1>2, FS_EmptySet DEF Init, Counted, CountExact
<1>5. OvershootBounded
  BY <1>2, FS_EmptySet DEF OvershootBounded
<1> QED BY <1>1, <1>3, <1>4, <1>5 DEF IInv

\* Every step either adds no key or is an insert.
LEMMA StepKinds ==
  ASSUME TypeOK, Holding, [Next]_vars
  PROVE  \/ Shrinks
         \/ UNCHANGED <<seen, count>>
         \/ \E c \in Callers : Insert(c)
<1>1. ASSUME NEW c \in Callers, Look(c) \/ Relook(c) PROVE Shrinks
  BY <1>1, LookShrinks
<1>2. ASSUME NEW c \in Callers, Sweep(c) PROVE Shrinks
  BY <1>2, SweepShrinks
<1>3. ASSUME NEW k \in Keys, Reset(k) PROVE Shrinks
  BY <1>3, ResetShrinks
<1>4. ASSUME NEW c \in Callers, Check(c) \/ Load(c) PROVE UNCHANGED <<seen, count>>
  BY <1>4 DEF Check, Load
<1>5. ASSUME NEW c \in Callers, NEW k \in Keys, Call(c, k) PROVE UNCHANGED <<seen, count>>
  BY <1>5 DEF Call
<1>6. ASSUME Tick \/ UNCHANGED vars PROVE UNCHANGED <<seen, count>>
  BY <1>6 DEF Tick, vars
<1> QED BY <1>1, <1>2, <1>3, <1>4, <1>5, <1>6 DEF Next, CallerStep

\* The counter and the map change together.
LEMMA CountedStep ==
  ASSUME TypeOK, Holding, Counted, [Next]_vars
  PROVE  Counted' /\ count' \in Nat /\ seen' \in [Keys -> Times \cup {Absent}]
<1>1. CASE Shrinks
  BY <1>1, ShrinkCounts DEF Shrinks
<1>2. CASE UNCHANGED <<seen, count>>
  <2>1. items' = items
    BY <1>2 DEF items
  <2>2. Cardinality(items) \in Nat
    BY FS_CardinalityType DEF Counted
  <2> QED BY <1>2, <2>1, <2>2 DEF Counted, CountExact, TypeOK
<1>3. ASSUME NEW c \in Callers, Insert(c)
      PROVE  Counted' /\ count' \in Nat /\ seen' \in [Keys -> Times \cup {Absent}]
  BY <1>3, InsertCounts
<1> QED BY <1>1, <1>2, <1>3, StepKinds

\* Steps keep every variable in its type.
LEMMA TypeStep ==
  ASSUME TypeOK, Holding, Counted, [Next]_vars
  PROVE  TypeOK'
<1>1. count' \in Int /\ seen' \in [Keys -> Times \cup {Absent}]
  BY CountedStep
<1>2. ASSUME NEW c \in Callers, NEW k \in Keys, Call(c, k) PROVE TypeOK'
  BY <1>1, <1>2 DEF Call, Goto, TypeOK, Steps
<1>3. ASSUME NEW c \in Callers, Look(c) PROVE TypeOK'
  <2> USE DEF TypeOK, Goto, Answer, Steps, Times
  <2>1. UNCHANGED <<time, lock, next, calls>>
    BY <1>3 DEF Look
  <2>2. Answer(c, "used") \/ (Goto(c, "check") /\ UNCHANGED <<answer, key, now>>)
    BY <1>3 DEF Look
  <2> QED BY <1>1, <2>1, <2>2
<1>4. ASSUME NEW c \in Callers, Check(c) PROVE TypeOK'
  BY <1>1, <1>4 DEF Check, Goto, TypeOK, Steps
<1>5. ASSUME NEW c \in Callers, Sweep(c) PROVE TypeOK'
  <2>1. UNCHANGED <<time, lock, key, now, calls, answer>>
    BY <1>5 DEF Sweep
  <2>2. pc' \in [Callers -> Steps]
    BY <1>5 DEF Sweep, Goto, TypeOK, Steps
  <2>3. next[c] \in 1 .. Shards /\ Shards \in Nat \ {0}
    BY DEF TypeOK, ShardIds
  <2>4. next' \in [Callers -> ShardIds]
    <3>1. CASE next' = [next EXCEPT ![c] = 1]
      BY <2>3, <3>1 DEF TypeOK, ShardIds
    <3>2. CASE next[c] # Shards /\ next' = [next EXCEPT ![c] = @ + 1]
      <4>1. next[c] + 1 \in ShardIds
        BY <2>3, <3>2 DEF ShardIds
      <4> QED BY <3>2, <4>1 DEF TypeOK
    <3> QED BY <1>5, <3>1, <3>2 DEF Sweep, LastShard
  <2> QED BY <1>1, <2>1, <2>2, <2>4 DEF TypeOK
<1>6. ASSUME NEW c \in Callers, Relook(c) PROVE TypeOK'
  <2> USE DEF TypeOK, Goto, Answer, Steps, Times
  <2>1. UNCHANGED <<time, next, calls>>
    BY <1>6 DEF Relook
  <2>2. \/ Answer(c, "used") /\ UNCHANGED lock
        \/ /\ lock' = [lock EXCEPT ![ShardOf[key[c]]] = c]
           /\ Goto(c, "load") /\ UNCHANGED <<answer, key, now>>
    BY <1>6 DEF Relook
  <2> QED BY <1>1, <2>1, <2>2
<1>7. ASSUME NEW c \in Callers, Load(c) PROVE TypeOK'
  BY <1>1, <1>7 DEF Load, Unlock, Answer, Goto, TypeOK, Steps, Times
<1>8. ASSUME NEW c \in Callers, Insert(c) PROVE TypeOK'
  BY <1>1, <1>8 DEF Insert, Unlock, Answer, Goto, TypeOK, Steps, Times
<1>9. ASSUME NEW k \in Keys, Reset(k) PROVE TypeOK'
  BY <1>1, <1>9 DEF Reset, TypeOK
<1>10. CASE Tick
  BY <1>1, <1>10 DEF Tick, TypeOK, Times
<1>11. CASE UNCHANGED vars
  BY <1>11 DEF vars, TypeOK
<1> QED
  BY <1>2, <1>3, <1>4, <1>5, <1>6, <1>7, <1>8, <1>9, <1>10, <1>11 DEF Next, CallerStep

\* A caller keeps its lock, and its key stays away, until it inserts the key.
LEMMA HoldingStep ==
  ASSUME TypeOK, Holding, Counted, [Next]_vars
  PROVE  Holding'
<1>1. ASSUME NEW c \in Callers, Look(c) PROVE Holding'
  <2>1. items' \subseteq items
    BY <1>1, LookShrinks, ShrinkCounts
  <2>2. UNCHANGED lock
    BY <1>1 DEF Look
  <2>3. Answer(c, "used") \/ (Goto(c, "check") /\ UNCHANGED <<answer, key, now>>)
    BY <1>1 DEF Look
  <2>4. pc[c] = "look"
    BY <1>1 DEF Look
  <2> QED BY <2>1, <2>2, <2>3, <2>4 DEF Holding, Answer, Goto, TypeOK
<1>2. ASSUME NEW c \in Callers, Relook(c) PROVE Holding'
  <2>1. items' \subseteq items
    BY <1>2, LookShrinks, ShrinkCounts
  <2>2. /\ pc[c] = "relook" /\ lock[ShardOf[key[c]]] = Nobody /\ key[c] \in Keys
        /\ ShardOf[key[c]] \in ShardIds
    BY <1>2 DEF Relook, Free, Holding
  <2>3. CASE Answer(c, "used") /\ UNCHANGED lock
    BY <2>1, <2>2, <2>3 DEF Holding, Answer, Goto, TypeOK
  <2>4. CASE /\ lock' = [lock EXCEPT ![ShardOf[key[c]]] = c]
             /\ Goto(c, "load") /\ UNCHANGED <<answer, key, now>>
             /\ key[c] \notin items'
    <3> SUFFICES ASSUME NEW d \in Callers
                 PROVE /\ pc'[d] # "idle" => key'[d] \in Keys
                       /\ pc'[d] \in {"load", "insert"} =>
                            lock'[ShardOf[key'[d]]] = d /\ key'[d] \notin items'
      BY DEF Holding
    <3>1. CASE d = c
      BY <2>2, <2>4, <3>1 DEF Goto, TypeOK
    <3>2. CASE d # c
      <4>1. pc'[d] = pc[d] /\ key'[d] = key[d]
        BY <2>4, <3>2 DEF Goto, TypeOK
      <4>2. ASSUME pc[d] \in {"load", "insert"}
            PROVE  lock'[ShardOf[key[d]]] = d
        <5>1. lock[ShardOf[key[d]]] = d /\ d # Nobody /\ ShardOf[key[d]] \in ShardIds
          BY <4>2 DEF Holding
        <5> QED BY <2>2, <2>4, <5>1 DEF TypeOK
      <4> QED BY <2>1, <4>1, <4>2 DEF Holding
    <3> QED BY <3>1, <3>2
  <2>5. \E removed \in Removals(ShardOf[key[c]], now[c]) :
          \/ Answer(c, "used") /\ UNCHANGED lock
          \/ /\ ~FoundNow(c, Without(removed))
             /\ seen' = Without(removed)
             /\ lock' = [lock EXCEPT ![ShardOf[key[c]]] = c]
             /\ Goto(c, "load") /\ UNCHANGED <<answer, key, now>>
    BY <1>2 DEF Relook
  <2> QED BY <2>3, <2>4, <2>5 DEF items, FoundNow
<1>3. ASSUME NEW c \in Callers, Sweep(c) PROVE Holding'
  <2>1. items' \subseteq items
    BY <1>3, SweepShrinks, ShrinkCounts
  <2>2. /\ UNCHANGED <<lock, key>> /\ pc[c] = "sweep"
        /\ Goto(c, "relook") \/ UNCHANGED pc
    BY <1>3 DEF Sweep
  <2> QED BY <2>1, <2>2 DEF Holding, Goto, TypeOK
<1>4. ASSUME NEW c \in Callers, Check(c) PROVE Holding'
  <2>1. items' = items
    BY <1>4 DEF Check, items
  <2> QED BY <1>4, <2>1 DEF Check, Goto, Holding, TypeOK
<1>5. ASSUME NEW c \in Callers, NEW k \in Keys, Call(c, k) PROVE Holding'
  <2>1. items' = items
    BY <1>5 DEF Call, items
  <2> QED BY <1>5, <2>1 DEF Call, Goto, Holding, TypeOK
<1>6. ASSUME NEW c \in Callers, pc[c] \in {"load", "insert"},
             items' \subseteq items \cup {key[c]},
             Unlock(c), \E what : Answer(c, what)
      PROVE  Holding'
  <2> SUFFICES ASSUME NEW d \in Callers, d # c, pc[d] # "idle"
               PROVE  /\ key[d] \in Keys
                      /\ pc[d] \in {"load", "insert"} =>
                           lock'[ShardOf[key[d]]] = d /\ key[d] \notin items'
    BY <1>6 DEF Holding, Answer, Goto, TypeOK
  <2>1. lock[ShardOf[key[c]]] = c /\ key[c] \in Keys
    BY <1>6 DEF Holding
  <2>2. ASSUME pc[d] \in {"load", "insert"}
        PROVE  lock'[ShardOf[key[d]]] = d /\ key[d] \notin items'
    <3>1. lock[ShardOf[key[d]]] = d /\ key[d] \notin items /\ ShardOf[key[d]] \in ShardIds
      BY <2>2 DEF Holding
    <3>2. ShardOf[key[d]] # ShardOf[key[c]] /\ key[d] # key[c]
      BY <2>1, <3>1
    <3> QED BY <1>6, <3>1, <3>2 DEF Unlock, TypeOK
  <2> QED BY <2>2 DEF Holding
<1>7. ASSUME NEW c \in Callers, Load(c) PROVE Holding'
  <2>1. items' = items /\ pc[c] = "load"
    BY <1>7 DEF Load, items
  <2>2. CASE Unlock(c) /\ \E what : Answer(c, what)
    BY <1>6, <2>1, <2>2
  <2>3. CASE Goto(c, "insert") /\ UNCHANGED <<lock, key>>
    BY <2>1, <2>3 DEF Goto, Holding, TypeOK
  <2> QED BY <1>7, <2>2, <2>3 DEF Load
<1>8. ASSUME NEW c \in Callers, Insert(c) PROVE Holding'
  <2>1. items' = items \cup {key[c]}
    BY <1>8, InsertCounts
  <2>2. pc[c] = "insert" /\ Unlock(c) /\ Answer(c, "used")
    BY <1>8 DEF Insert
  <2> QED BY <1>6, <2>1, <2>2
<1>9. ASSUME NEW k \in Keys, Reset(k) PROVE Holding'
  <2>1. items' \subseteq items
    BY <1>9, ResetShrinks, ShrinkCounts
  <2> QED BY <1>9, <2>1 DEF Reset, Holding
<1>10. CASE Tick \/ UNCHANGED vars
  <2>1. UNCHANGED <<seen, lock, pc, key>>
    BY <1>10 DEF Tick, vars
  <2>2. items' = items
    BY <2>1 DEF items
  <2> QED BY <2>1, <2>2 DEF Holding
<1> QED
  BY <1>1, <1>2, <1>3, <1>4, <1>5, <1>7, <1>8, <1>9, <1>10 DEF Next, CallerStep

---------------------------------------------------------------------------
(* How far MaxKeys is exceeded.                                            *)

\* Callers that hold the shards of their keys are no more than the shards.
LEMMA HoldersFew ==
  ASSUME NEW H, NEW shard \in [H -> ShardIds], NEW held,
         \A c \in H : held[shard[c]] = c
  PROVE  IsFiniteSet(H) /\ Cardinality(H) \in Nat /\ Cardinality(H) <= Shards
<1>1. IsFiniteSet(ShardIds) /\ Cardinality(ShardIds) = Shards
  BY FS_Interval DEF ShardIds
<1>2. shard \in Injection(H, ShardIds)
  BY DEF Injection, IsInjective
<1> QED BY <1>1, <1>2, FS_Injection, FS_CardinalityType

\* So are the callers at the insert.
LEMMA InsertersFew ==
  ASSUME Holding
  PROVE  /\ IsFiniteSet(Inserting) /\ Cardinality(Inserting) \in Nat
         /\ Cardinality(Inserting) <= Shards
<1> DEFINE shard == [c \in Inserting |-> ShardOf[key[c]]]
<1>1. shard \in [Inserting -> ShardIds]
  BY DEF Holding, Inserting
<1>2. \A c \in Inserting : lock[shard[c]] = c
  BY DEF Holding, Inserting
<1> HIDE DEF shard
<1> QED BY <1>1, <1>2, HoldersFew

\* They still are after a step.
LEMMA InsertersFewNext ==
  ASSUME Holding'
  PROVE  Cardinality(Inserting') \in Nat /\ Cardinality(Inserting') <= Shards
<1> DEFINE shard == [c \in Inserting' |-> ShardOf[key'[c]]]
<1>1. shard \in [Inserting' -> ShardIds]
  BY DEF Holding, Inserting
<1>2. \A c \in Inserting' : lock'[shard[c]] = c
  BY DEF Holding, Inserting
<1> HIDE DEF shard
<1> QED BY <1>1, <1>2, HoldersFew

\* The last caller that has seen room adds its key; the others are at most one
\* for each other shard.
LEMMA OvershootStep ==
  ASSUME IInv, Holding', TypeOK', [Next]_vars
  PROVE  OvershootBounded'
<1> USE DEF IInv
<1> SUFFICES ASSUME MaxKeys > 0
             PROVE  Cardinality(items') + Cardinality(Inserting') <= MaxKeys + Shards - 1
  BY DEF OvershootBounded
<1>1. /\ IsFiniteSet(Inserting) /\ Cardinality(Inserting) \in Nat
      /\ Cardinality(items) \in Nat
      /\ Cardinality(items) + Cardinality(Inserting) <= MaxKeys + Shards - 1
      /\ MaxKeys \in Nat /\ Shards \in Nat
  BY InsertersFew, FS_CardinalityType DEF Counted, OvershootBounded
<1>2. ASSUME Inserting' \subseteq Inserting, Cardinality(items') <= Cardinality(items),
             Cardinality(items') \in Nat
      PROVE  Cardinality(items') + Cardinality(Inserting') <= MaxKeys + Shards - 1
  <2>1. Cardinality(Inserting') \in Nat /\ Cardinality(Inserting') <= Cardinality(Inserting)
    BY <1>1, <1>2, FS_Subset, FS_CardinalityType
  <2> QED BY <1>1, <1>2, <2>1
<1>3. ASSUME items' \subseteq items, Inserting' \subseteq Inserting
      PROVE  Cardinality(items') + Cardinality(Inserting') <= MaxKeys + Shards - 1
  <2>1. Cardinality(items') \in Nat /\ Cardinality(items') <= Cardinality(items)
    BY <1>3, FS_Subset, FS_CardinalityType DEF Counted
  <2> QED BY <1>2, <1>3, <2>1
<1>4. ASSUME NEW c \in Callers, Look(c) \/ Relook(c)
      PROVE  Cardinality(items') + Cardinality(Inserting') <= MaxKeys + Shards - 1
  <2>1. items' \subseteq items
    BY <1>4, LookShrinks, ShrinkCounts
  <2>2. \E step \in {"idle", "check", "load"} : Goto(c, step)
    BY <1>4 DEF Look, Relook, Answer
  <2>3. Inserting' \subseteq Inserting
    BY <2>2 DEF Inserting, Goto, TypeOK
  <2> QED BY <1>3, <2>1, <2>3
<1>5. ASSUME NEW c \in Callers, Sweep(c)
      PROVE  Cardinality(items') + Cardinality(Inserting') <= MaxKeys + Shards - 1
  <2>1. items' \subseteq items
    BY <1>5, SweepShrinks, ShrinkCounts
  <2>2. Goto(c, "relook") \/ UNCHANGED pc
    BY <1>5 DEF Sweep
  <2>3. Inserting' \subseteq Inserting
    BY <2>2 DEF Inserting, Goto, TypeOK
  <2> QED BY <1>3, <2>1, <2>3
<1>6. ASSUME NEW c \in Callers, Check(c) \/ \E k \in Keys : Call(c, k)
      PROVE  Cardinality(items') + Cardinality(Inserting') <= MaxKeys + Shards - 1
  <2>1. seen' = seen /\ \E step \in {"sweep", "relook", "look"} : Goto(c, step)
    BY <1>6 DEF Check, Call
  <2>2. items' = items /\ Inserting' \subseteq Inserting
    BY <2>1 DEF items, Inserting, Goto, TypeOK
  <2> QED BY <1>3, <2>2
<1>7. ASSUME NEW c \in Callers, Load(c)
      PROVE  Cardinality(items') + Cardinality(Inserting') <= MaxKeys + Shards - 1
  <2>1. items' = items
    BY <1>7 DEF Load, items
  <2>2. CASE Goto(c, "idle")
    <3>1. Inserting' \subseteq Inserting
      BY <2>2 DEF Inserting, Goto, TypeOK
    <3> QED BY <1>3, <2>1, <3>1
  <2>3. CASE ~FullOnLoad
    <3>1. Cardinality(items) <= MaxKeys - 1
      BY <1>1, <2>3 DEF FullOnLoad, IsFull, Counted, CountExact
    <3>2. Cardinality(Inserting') \in Nat /\ Cardinality(Inserting') <= Shards
      BY InsertersFewNext
    <3> QED BY <1>1, <2>1, <3>1, <3>2
  <2> QED BY <1>7, <2>2, <2>3 DEF Load, Answer
<1>8. ASSUME NEW c \in Callers, Insert(c)
      PROVE  Cardinality(items') + Cardinality(Inserting') <= MaxKeys + Shards - 1
  <2>1. items' = items \cup {key[c]} /\ key[c] \notin items
    BY <1>8, InsertCounts DEF Insert, Holding
  <2>2. Inserting' = Inserting \ {c} /\ c \in Inserting
    BY <1>8 DEF Insert, Answer, Goto, Inserting, TypeOK
  <2>3. Cardinality(items') = Cardinality(items) + 1
    BY <2>1, FS_AddElement DEF Counted
  <2>4. Cardinality(Inserting') = Cardinality(Inserting) - 1
    BY <1>1, <2>2, FS_RemoveElement
  <2> QED BY <1>1, <2>3, <2>4
<1>9. ASSUME NEW k \in Keys, Reset(k)
       PROVE  Cardinality(items') + Cardinality(Inserting') <= MaxKeys + Shards - 1
  <2>1. items' \subseteq items
    BY <1>9, ResetShrinks, ShrinkCounts
  <2>2. Inserting' = Inserting
    BY <1>9 DEF Reset, Inserting
  <2> QED BY <1>3, <2>1, <2>2
<1>10. CASE Tick \/ UNCHANGED vars
  <2>1. items' = items /\ Inserting' = Inserting
    BY <1>10 DEF Tick, vars, items, Inserting
  <2> QED BY <1>3, <2>1
<1> QED
  BY <1>4, <1>5, <1>6, <1>7, <1>8, <1>9, <1>10 DEF Next, CallerStep

---------------------------------------------------------------------------

\* The invariant is one of the specification.
LEMMA Invariant == Spec => []IInv
<1>1. IInv /\ [Next]_vars => IInv'
  <2> SUFFICES ASSUME IInv, [Next]_vars PROVE IInv'
    OBVIOUS
  <2>1. TypeOK' /\ Holding' /\ Counted'
    BY TypeStep, HoldingStep, CountedStep DEF IInv
  <2> QED BY <2>1, OvershootStep DEF IInv
<1> QED BY IInvInit, <1>1, PTL DEF Spec

\* States are well typed; the clock a caller read is a time of the clock.
THEOREM ShardedTypeCorrect == Spec => []TypeOK
<1>1. IInv => TypeOK
  BY DEF IInv
<1> QED BY Invariant, <1>1, PTL

\* For any number of goroutines and shards, the counter that MaxKeys is checked
\* against is the number of keys, however inserts, cleanups and resets interleave.
THEOREM CountAlwaysExact == Spec => []CountExact
<1>1. IInv => CountExact
  BY DEF IInv, Counted
<1> QED BY Invariant, <1>1, PTL

\* For any number of goroutines, the state exceeds MaxKeys by less than the
\* number of shards.
THEOREM OvershootAlwaysBounded == Spec => []OvershootBounded
<1>1. IInv => OvershootBounded
  BY DEF IInv
<1> QED BY Invariant, <1>1, PTL

\* No insert replaces the state of a key in use.
THEOREM InsertAlwaysFresh == Spec => []InsertIsFresh
<1>1. IInv => InsertIsFresh
  BY DEF IInv, Holding, Inserting, InsertIsFresh
<1> QED BY Invariant, <1>1, PTL

=============================================================================
