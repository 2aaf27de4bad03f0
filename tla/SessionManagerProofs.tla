------------------------ MODULE SessionManagerProofs ------------------------
(***************************************************************************)
(* Proofs about SessionManager, for any number of starts and ids, any      *)
(* buffer, limit and TTL, and answers of any length.                       *)
(*                                                                         *)
(* The table: a run is "running" exactly while its goroutine has work to   *)
(* do before finish, and is then listed; so the sessions that Start counts *)
(* and Close cancels are exactly the live ones (ActiveIsAlive).            *)
(*                                                                         *)
(* The channel: what was sent and what is left of the current stream event *)
(* is always the start and the deltas received so far.                     *)
(***************************************************************************)
EXTENDS SessionManager, FiniteSetTheorems, SequenceTheorems, TLAPS

\* How far a run is, told by its state.
StateInv ==
  \A r \in Runs :
    /\ r \in Alive => state[r] = "running"
    /\ pc[r] \in {"new", "refused"} => state[r] = "none"
    /\ pc[r] \in {"last", "finish", "close", "closed"} => final[r] \in Outcomes
    /\ pc[r] \in {"close", "closed"} => state[r] \in {final[r], "expired"}

ListedInv == \A r \in Listed : pc[r] \notin {"new", "refused"}

\* Everything was told, or the run gave up half way because it was cancelled.
ToldInv(r) ==
  \/ log[r] = Told(r) \o <<EventOf(final[r])>>
  \/ cancelled[r] /\ final[r] = "interrupted" /\ IsPrefix(log[r], Told(r))

RunLog(r) ==
  /\ pc[r] \in {"new", "begin"} => log[r] = <<>>
  /\ pc[r] \in {"new", "begin", "call"} => taken[r] = <<>> /\ todo[r] = <<>>
  /\ pc[r] \in {"call", "loop"} => log[r] \o todo[r] = Told(r)
  /\ pc[r] = "last" => log[r] = Told(r)
  /\ pc[r] \in {"finish", "close", "closed"} => ToldInv(r)

LogInv == \A r \in Runs : RunLog(r)

TableInv == StateInv /\ ListedInv /\ AliveIsListed
CountInv == IsFiniteSet(Alive) /\ ActiveBounded

IInv == TypeOK /\ TableInv /\ CountInv /\ CloseReachesAll /\ LogInv

---------------------------------------------------------------------------
(* Types.                                                                  *)

USE SessionAssumption

\* What a stream event carries is a sequence of deltas.
LEMMA EventTypes ==
  /\ StreamEvents \subseteq Seq(Deltas)
  /\ Seq(Deltas) \subseteq Seq(Events)
  /\ <<"started">> \in Seq(Events)
  /\ \A outcome \in Outcomes : EventOf(outcome) \in Events
<1>1. StreamEvents \subseteq Seq(Deltas)
  BY DEF StreamEvents, Deltas
<1>2. Deltas \subseteq Events /\ "started" \in Events
  BY DEF Events
<1>3. \A outcome \in Outcomes : EventOf(outcome) \in Events
  BY DEF EventOf, Outcomes, Events, TerminalEvents
<1>4. Seq(Deltas) \subseteq Seq(Events)
  BY <1>2, SeqMonotonic
<1> QED BY <1>1, <1>2, <1>3, <1>4

\* The invariants hold before anything has started.
LEMMA IInvInit == Init => IInv
<1> SUFFICES ASSUME Init PROVE IInv
  OBVIOUS
<1>1. TypeOK
  <2>1. \A r \in Runs : Len(log[r]) - read[r] \in 0 .. BufferSize
    BY DEF Init
  <2>2. /\ closed \in BOOLEAN /\ sessions \in [Ids -> Runs \cup {None}]
        /\ state \in [Runs -> States] /\ pc \in [Runs -> Steps]
    BY DEF Init, States, Steps
  <2>4. updated \in [Runs -> 0 .. MaxTime] /\ time \in 0 .. MaxTime
    BY DEF Init
  <2>3. /\ todo \in [Runs -> Seq(Deltas)] /\ taken \in [Runs -> Seq(Deltas)]
        /\ log \in [Runs -> Seq(Events)] /\ read \in [Runs -> Nat]
    BY DEF Init
  <2> QED BY <2>1, <2>2, <2>3, <2>4 DEF Init, TypeOK, Outcomes
<1>2. Alive = {} /\ Listed = {}
  BY DEF Init, Alive, Listed
<1>3. TableInv
  BY <1>2 DEF Init, TableInv, StateInv, ListedInv, AliveIsListed
<1>4. CountInv
  <2>1. IsFiniteSet({}) /\ Cardinality({}) = 0
    BY FS_EmptySet
  <2> QED BY <1>2, <2>1 DEF CountInv, ActiveBounded
<1>5. CloseReachesAll /\ LogInv
  BY <1>2 DEF Init, CloseReachesAll, LogInv, RunLog
<1> QED BY <1>1, <1>3, <1>4, <1>5 DEF IInv

\* A send that finds room keeps the channel within its buffer.
LEMMA SendTypes ==
  ASSUME TypeOK, NEW r \in Runs, NEW event \in Events, ~Full(r),
         log' = [log EXCEPT ![r] = Append(@, event)], UNCHANGED read
  PROVE  /\ log' \in [Runs -> Seq(Events)]
         /\ \A s \in Runs : Len(log'[s]) - read'[s] \in 0 .. BufferSize
<1>1. log \in [Runs -> Seq(Events)] /\ read \in [Runs -> Nat]
  BY DEF TypeOK
<1>2. /\ Append(log[r], event) \in Seq(Events)
      /\ Len(Append(log[r], event)) = Len(log[r]) + 1
      /\ Len(log[r]) \in Nat
  BY <1>1
<1>3. log' \in [Runs -> Seq(Events)]
  BY <1>1, <1>2
<1> SUFFICES ASSUME NEW s \in Runs
             PROVE  Len(log'[s]) - read'[s] \in 0 .. BufferSize
  BY <1>3
<1>4. Len(log[s]) - read[s] \in 0 .. BufferSize /\ read[s] \in Nat
  BY <1>1 DEF TypeOK
<1>5. CASE s = r
  BY <1>1, <1>2, <1>4, <1>5 DEF Full
<1>6. CASE s # r
  BY <1>1, <1>4, <1>6
<1> QED BY <1>5, <1>6

\* A run is stamped with the time.
LEMMA StampTypes ==
  ASSUME NEW past, past \in [Runs -> 0 .. MaxTime], NEW now \in 0 .. MaxTime,
         NEW r \in Runs
  PROVE  [past EXCEPT ![r] = now] \in [Runs -> 0 .. MaxTime]
OBVIOUS

\* Every step keeps the types, and the channel within its buffer.
LEMMA TypeStep ==
  ASSUME TypeOK, StateInv, [Next]_vars
  PROVE  TypeOK'
<1> USE DEF TypeOK
<1>1. CASE UNCHANGED vars
  BY <1>1 DEF vars, table
<1>2. ASSUME NEW r \in Runs, NEW id \in Ids \cup {Blank}, Start(r, id) PROVE TypeOK'
  <2>1. CASE Admits(r, id)
    <3>1. id \in Ids
      BY <2>1 DEF Admits
    <3>2. state' \in [Runs -> States] /\ pc' \in [Runs -> Steps]
      BY <1>2, <2>1 DEF Start, States, Steps
    <3>3. /\ sessions' = [sessions EXCEPT ![id] = r]
          /\ updated' = [updated EXCEPT ![r] = time]
      BY <1>2, <2>1 DEF Start
    <3>4. sessions' \in [Ids -> Runs \cup {None}]
      BY <3>1, <3>3
    <3>5. updated' \in [Runs -> 0 .. MaxTime]
      BY <3>3, StampTypes
    <3> QED BY <1>2, <2>1, <3>2, <3>4, <3>5 DEF Start
  <2>2. CASE ~Admits(r, id)
    BY <1>2, <2>2 DEF Start, table, Steps
  <2> QED BY <2>1, <2>2
<1>3. ASSUME NEW id \in Ids, Interrupt(id) PROVE TypeOK'
  BY <1>3 DEF Interrupt, Active, Listed, table
<1>4. CASE Close
  BY <1>4 DEF Close, CancelsOfClose, Active, Listed
<1>5. CASE CleanupExpired
  <2>1. Outdated \subseteq Runs
    BY DEF Outdated, Listed
  <2> QED BY <1>5, <2>1 DEF CleanupExpired, States, Terminal
<1>6. CASE Tick
  BY <1>6 DEF Tick, table
<1>7. ASSUME NEW r \in Runs, Begin(r) PROVE TypeOK'
  <2>1. CASE Send(r, "started", "call")
    <3>1. /\ log' \in [Runs -> Seq(Events)]
          /\ \A s \in Runs : Len(log'[s]) - read'[s] \in 0 .. BufferSize
      BY <1>7, <2>1, SendTypes DEF Begin, Send, Events
    <3> QED BY <1>7, <2>1, <3>1 DEF Begin, Send, table, Steps
  <2>2. CASE SendGivesUp(r)
    BY <1>7, <2>2 DEF Begin, SendGivesUp, table, Steps, Outcomes
  <2> QED BY <1>7, <2>1, <2>2 DEF Begin
<1>8. ASSUME NEW r \in Runs, CallModel(r) PROVE TypeOK'
  BY <1>8 DEF CallModel, EndWith, table, Steps, Outcomes
<1>9. ASSUME NEW r \in Runs, SendDelta(r) PROVE TypeOK'
  <2>1. CASE Send(r, Head(todo[r]), "loop") /\ todo' = [todo EXCEPT ![r] = Tail(@)]
    <3>1. todo[r] \in Seq(Deltas) /\ todo[r] # <<>>
      BY <1>9 DEF SendDelta
    <3>2. Head(todo[r]) \in Events /\ Tail(todo[r]) \in Seq(Deltas)
      BY <3>1 DEF Events
    <3>3. /\ log' \in [Runs -> Seq(Events)]
          /\ \A s \in Runs : Len(log'[s]) - read'[s] \in 0 .. BufferSize
      BY <1>9, <2>1, <3>2, SendTypes DEF SendDelta, Send
    <3> QED BY <1>9, <2>1, <3>2, <3>3 DEF SendDelta, Send, table, Steps
  <2>2. CASE SendGivesUp(r) /\ UNCHANGED todo
    BY <1>9, <2>2 DEF SendDelta, SendGivesUp, table, Steps, Outcomes
  <2> QED BY <1>9, <2>1, <2>2 DEF SendDelta, Remaining
<1>10. ASSUME NEW r \in Runs, SendTerminal(r) PROVE TypeOK'
  <2>1. /\ log' \in [Runs -> Seq(Events)]
        /\ \A s \in Runs : Len(log'[s]) - read'[s] \in 0 .. BufferSize
    BY <1>10, SendTypes, EventTypes DEF SendTerminal, StateInv
  <2> QED BY <1>10, <2>1 DEF SendTerminal, table, Steps
<1>11. ASSUME NEW r \in Runs, Finish(r) PROVE TypeOK'
  <2>1. final[r] \in States
    BY <1>11 DEF Finish, StateInv, Outcomes, States, Terminal
  <2>2. pc' \in [Runs -> Steps]
    BY <1>11 DEF Finish, Steps
  <2>3. state' \in [Runs -> States]
    BY <1>11, <2>1 DEF Finish
  <2>4. updated' \in [Runs -> 0 .. MaxTime]
    BY <1>11, StampTypes DEF Finish
  <2> QED BY <1>11, <2>2, <2>3, <2>4 DEF Finish
<1>12. ASSUME NEW r \in Runs, CloseEvents(r) PROVE TypeOK'
  BY <1>12 DEF CloseEvents, table, Steps
<1>13. ASSUME NEW r \in Runs, Receive(r) PROVE TypeOK'
  <2>1. ASSUME NEW event \in StreamEvents, todo' = [todo EXCEPT ![r] = event],
               taken' = [taken EXCEPT ![r] = @ \o event], UNCHANGED <<pc, final>>
        PROVE  TypeOK'
    <3>1. event \in Seq(Deltas) /\ taken[r] \o event \in Seq(Deltas)
      BY EventTypes
    <3> QED BY <1>13, <2>1, <3>1 DEF Receive, table
  <2>2. CASE EndWith(r, "failed") /\ UNCHANGED <<todo, taken>>
    BY <1>13, <2>2 DEF Receive, EndWith, table, Steps, Outcomes
  <2> QED BY <1>13, <2>1, <2>2 DEF Receive
<1>14. ASSUME NEW r \in Runs, StreamEnds(r) PROVE TypeOK'
  BY <1>14 DEF StreamEnds, EndWith, table, Steps, Outcomes
<1>15. ASSUME NEW r \in Runs, CallCancel(r) PROVE TypeOK'
  BY <1>15 DEF CallCancel, table
<1>16. ASSUME NEW r \in Runs, ReadEvent(r) PROVE TypeOK'
  <2>1. /\ read' \in [Runs -> Nat]
        /\ \A s \in Runs : Len(log'[s]) - read'[s] \in 0 .. BufferSize
    <3> SUFFICES ASSUME NEW s \in Runs
                 PROVE  /\ read' \in [Runs -> Nat]
                        /\ Len(log'[s]) - read'[s] \in 0 .. BufferSize
      BY <1>16 DEF ReadEvent
    <3>1. /\ log[s] \in Seq(Events) /\ Len(log[s]) \in Nat /\ read[s] \in Nat
          /\ read' = [read EXCEPT ![r] = @ + 1] /\ log' = log
          /\ read[r] < Len(log[r]) /\ Len(log[s]) - read[s] \in 0 .. BufferSize
      BY <1>16 DEF ReadEvent
    <3>2. read' \in [Runs -> Nat]
      BY <1>16 DEF ReadEvent
    <3>3. CASE s = r
      <4>1. read'[s] = read[s] + 1
        BY <3>1, <3>3
      <4> QED BY <3>1, <3>2, <3>3, <4>1
    <3>4. CASE s # r
      <4>1. read'[s] = read[s]
        BY <3>1, <3>4
      <4> QED BY <3>1, <3>2, <4>1
    <3> QED BY <3>3, <3>4
  <2> QED BY <1>16, <2>1 DEF ReadEvent, table
<1>17. ASSUME NEW r \in Runs, CallerCancels(r) PROVE TypeOK'
  BY <1>17 DEF CallerCancels, table
<1> QED BY <1>1, <1>2, <1>3, <1>4, <1>5, <1>6, <1>7, <1>8, <1>9, <1>10, <1>11,
           <1>12, <1>13, <1>14, <1>15, <1>16, <1>17 DEF Next, RunStep

---------------------------------------------------------------------------
(* The table.                                                              *)

\* A live goroutine goes on: it has an outcome when it is done with the stream.
GoesTo(r, next) ==
  /\ r \in Alive
  /\ UNCHANGED <<closed, sessions, state, cancels, cancelled>>
  /\ pc' = [pc EXCEPT ![r] = next]
  /\ \/ \E outcome \in Outcomes : final' = [final EXCEPT ![r] = outcome]
     \/ UNCHANGED final /\ next \in {"call", "loop"}
     \/ UNCHANGED final /\ pc[r] = "last" /\ next = "finish"
GoesOn(r) == \E next \in {"call", "loop", "last", "finish"} : GoesTo(r, next)

\* The steps that the table, the ends of goroutines and the cancels consist of.
LEMMA StepKinds ==
  ASSUME TypeOK, [Next]_vars
  PROVE  \/ /\ UNCHANGED <<sessions, state, pc, final>>
            /\ \/ UNCHANGED <<closed, cancels, cancelled>>
               \/ Close
               \/ \E id \in Ids : Interrupt(id)
               \/ \E r \in Runs : CallCancel(r) \/ CallerCancels(r)
         \/ CleanupExpired
         \/ \E r \in Runs :
              \/ GoesOn(r) \/ Finish(r) \/ CloseEvents(r)
              \/ \E id \in Ids \cup {Blank} : Start(r, id)
<1> USE DEF table
<1>1. CASE UNCHANGED vars
  BY <1>1 DEF vars
<1>2. ASSUME NEW r \in Runs, Begin(r) \/ SendDelta(r)
      PROVE  GoesOn(r) \/ UNCHANGED <<sessions, state, pc, final, closed, cancels, cancelled>>
  <2>1. CASE SendGivesUp(r) /\ UNCHANGED <<closed, sessions, state, cancels, cancelled>>
    BY <1>2, <2>1 DEF Begin, SendDelta, SendGivesUp, GoesOn, GoesTo, Alive, Outcomes
  <2>2. CASE Begin(r) /\ Send(r, "started", "call")
    <3>1. /\ pc' = [pc EXCEPT ![r] = "call"] /\ pc[r] = "begin"
          /\ UNCHANGED <<closed, sessions, state, cancels, cancelled, final>>
      BY <2>2 DEF Begin, Send
    <3>2. GoesTo(r, "call")
      BY <3>1 DEF GoesTo, Alive
    <3> QED BY <3>2 DEF GoesOn
  <2>3. CASE SendDelta(r) /\ Send(r, Head(todo[r]), "loop")
    <3>1. /\ pc' = [pc EXCEPT ![r] = "loop"] /\ pc[r] = "loop"
          /\ UNCHANGED <<closed, sessions, state, cancels, cancelled, final>>
      BY <2>3 DEF SendDelta, Send
    <3>2. GoesTo(r, "loop")
      BY <3>1 DEF GoesTo, Alive
    <3> QED BY <3>2 DEF GoesOn
  <2> QED BY <1>2, <2>1, <2>2, <2>3 DEF Begin, SendDelta
<1>3. ASSUME NEW r \in Runs, CallModel(r) \/ StreamEnds(r) PROVE GoesOn(r)
  <2>1. /\ UNCHANGED <<closed, sessions, state, cancels, cancelled>>
        /\ pc[r] \in {"call", "loop"}
    BY <1>3 DEF CallModel, StreamEnds
  <2>2. \/ \E outcome \in Outcomes : EndWith(r, outcome)
        \/ pc' = [pc EXCEPT ![r] = "loop"] /\ UNCHANGED final
    BY <1>3 DEF CallModel, StreamEnds, Outcomes
  <2>3. GoesTo(r, "last") \/ GoesTo(r, "loop")
    BY <2>1, <2>2 DEF EndWith, GoesTo, Alive
  <2> QED BY <2>3 DEF GoesOn
<1>4. ASSUME NEW r \in Runs, Receive(r)
      PROVE  GoesOn(r) \/ UNCHANGED <<sessions, state, pc, final, closed, cancels, cancelled>>
  BY <1>4 DEF Receive, EndWith, GoesOn, GoesTo, Alive, Outcomes
<1>5. ASSUME NEW r \in Runs, SendTerminal(r) PROVE GoesOn(r)
  BY <1>5 DEF SendTerminal, GoesOn, GoesTo, Alive
<1>6. ASSUME NEW r \in Runs, ReadEvent(r)
      PROVE  UNCHANGED <<sessions, state, pc, final, closed, cancels, cancelled>>
  BY <1>6 DEF ReadEvent
<1>7. CASE Tick
  BY <1>7 DEF Tick
<1>8. ASSUME NEW r \in Runs, CallCancel(r) \/ CallerCancels(r)
      PROVE  UNCHANGED <<sessions, state, pc, final>>
  BY <1>8 DEF CallCancel, CallerCancels
<1>9. Close \/ (\E id \in Ids : Interrupt(id)) => UNCHANGED <<sessions, state, pc, final>>
  BY DEF Close, Interrupt
<1> QED BY <1>1, <1>2, <1>3, <1>4, <1>5, <1>6, <1>7, <1>8, <1>9 DEF Next, RunStep

\* The sessions that are listed and not ended are the live ones: what Start
\* counts and what Close cancels.
LEMMA ActiveIsAlive ==
  ASSUME TypeOK, TableInv
  PROVE  Active = Alive
<1>1. \A r \in Active : r \in Alive
  <2> SUFFICES ASSUME NEW r \in Active PROVE r \in Alive
    OBVIOUS
  <2>1. r \in Runs /\ state[r] \notin Terminal /\ pc[r] \notin {"new", "refused"}
    BY DEF Active, Listed, TypeOK, TableInv, ListedInv
  <2>2. pc[r] \notin {"close", "closed"}
    BY <2>1 DEF TableInv, StateInv, Outcomes, Terminal
  <2> QED BY <2>1, <2>2 DEF Alive, TypeOK, Steps
<1>2. \A r \in Alive : r \in Active
  BY DEF Active, Listed, Alive, TableInv, StateInv, AliveIsListed, Terminal,
     SessionAssumption
<1> QED BY <1>1, <1>2

\* A live run is listed, as running.
LEMMA LiveListed ==
  ASSUME TableInv, NEW r \in Alive
  PROVE  \E id \in Ids : sessions[id] = r /\ state[r] = "running"
<1>1. r \in Runs /\ state[r] = "running"
  BY DEF Alive, TableInv, StateInv
<1> QED BY <1>1 DEF TableInv, AliveIsListed

\* The table knows of every live run.
LEMMA TableStep ==
  ASSUME TypeOK, TableInv, [Next]_vars
  PROVE  TableInv'
<1> USE DEF TableInv, TypeOK
<1>1. CASE UNCHANGED <<sessions, state, pc, final>>
  BY <1>1 DEF StateInv, ListedInv, AliveIsListed, Listed, Alive, Status
<1>2. ASSUME NEW r \in Runs, GoesOn(r) PROVE TableInv'
  <2>1. \A s \in Runs \ {r} : pc'[s] = pc[s] /\ final'[s] = final[s]
    BY <1>2 DEF GoesOn, GoesTo
  <2>2. /\ pc'[r] \in {"call", "loop", "last", "finish"}
        /\ pc'[r] \in {"last", "finish"} => final'[r] \in Outcomes
        /\ pc[r] \in {"begin", "call", "loop", "last", "finish"}
    BY <1>2 DEF GoesOn, GoesTo, StateInv, Alive
  <2>3. Alive' = Alive /\ UNCHANGED <<sessions, state>>
    BY <1>2, <2>1, <2>2 DEF GoesOn, GoesTo, Alive
  <2>4. StateInv'
    <3> SUFFICES ASSUME NEW s \in Runs
                 PROVE  /\ s \in Alive => state[s] = "running"
                        /\ pc'[s] \in {"new", "refused"} => state[s] = "none"
                        /\ pc'[s] \in {"last", "finish", "close", "closed"} =>
                             final'[s] \in Outcomes
                        /\ pc'[s] \in {"close", "closed"} =>
                             state[s] \in {final'[s], "expired"}
      BY <2>3 DEF StateInv
    <3>1. CASE s = r
      BY <2>2, <3>1 DEF StateInv
    <3>2. CASE s # r
      BY <2>1, <3>2 DEF StateInv
    <3> QED BY <3>1, <3>2
  <2>5. Listed' = Listed /\ \A s \in Listed : s \in Runs
    BY <2>3 DEF Listed
  <2>6. ListedInv'
    BY <2>1, <2>2, <2>5 DEF ListedInv
  <2>7. AliveIsListed'
    BY <2>3 DEF AliveIsListed, Status
  <2> QED BY <2>4, <2>6, <2>7
<1>3. ASSUME NEW r \in Runs, Finish(r) PROVE TableInv'
  <2>1. /\ pc' = [pc EXCEPT ![r] = "close"] /\ UNCHANGED <<sessions, final>>
        /\ pc[r] = "finish" /\ r \in Alive /\ state[r] = "running"
        /\ state' = [state EXCEPT ![r] = final[r]] /\ final[r] \in Outcomes
    BY <1>3 DEF Finish, StateInv, Alive, Terminal
  <2>2. Alive' = Alive \ {r}
    BY <2>1 DEF Alive
  <2>3. StateInv'
    BY <2>1, <2>2 DEF StateInv
  <2>4. ListedInv'
    BY <2>1 DEF ListedInv, Listed
  <2>5. AliveIsListed'
    <3> SUFFICES ASSUME NEW s \in Alive, s # r
                 PROVE  \E i \in Ids : sessions'[i] = s /\ Status(i)' = "running"
      BY <2>2 DEF AliveIsListed
    <3>1. s \in Runs
      BY DEF Alive
    <3>2. PICK i \in Ids : sessions[i] = s /\ state[s] = "running"
      BY LiveListed
    <3>3. sessions'[i] = s /\ state'[s] = "running" /\ s # None
      BY <2>1, <3>1, <3>2, SessionAssumption
    <3> QED BY <3>3 DEF Status
  <2> QED BY <2>3, <2>4, <2>5
<1>4. ASSUME NEW r \in Runs, CloseEvents(r) PROVE TableInv'
  <2>1. /\ pc' = [pc EXCEPT ![r] = "closed"] /\ UNCHANGED <<sessions, state, final>>
        /\ pc[r] = "close"
    BY <1>4 DEF CloseEvents, table
  <2>2. Alive' = Alive
    BY <2>1 DEF Alive
  <2>3. StateInv'
    BY <2>1, <2>2 DEF StateInv
  <2>4. ListedInv'
    <3>1. Listed' = Listed /\ Listed \subseteq Runs
      BY <2>1 DEF Listed
    <3>2. \A s \in Listed : pc'[s] \notin {"new", "refused"}
      BY <2>1, <3>1 DEF ListedInv
    <3> QED BY <3>1, <3>2 DEF ListedInv
  <2>5. AliveIsListed'
    BY <2>1, <2>2 DEF AliveIsListed, Status
  <2> QED BY <2>3, <2>4, <2>5
<1>5. ASSUME NEW r \in Runs, NEW id \in Ids \cup {Blank}, Start(r, id), ~Admits(r, id)
      PROVE  TableInv'
  <2>1. /\ pc' = [pc EXCEPT ![r] = "refused"] /\ UNCHANGED <<sessions, state, final>>
        /\ pc[r] = "new"
    BY <1>5 DEF Start, table
  <2>2. Alive' = Alive
    BY <2>1 DEF Alive
  <2>3. StateInv'
    BY <2>1, <2>2 DEF StateInv
  <2>4. ListedInv'
    <3>1. Listed' = Listed /\ Listed \subseteq Runs
      BY <2>1 DEF Listed
    <3>2. \A s \in Listed : pc'[s] \notin {"new", "refused"}
      <4>1. \A s \in Listed : s # r
        BY <2>1 DEF ListedInv
      <4> QED BY <2>1, <3>1, <4>1 DEF ListedInv
    <3> QED BY <3>1, <3>2 DEF ListedInv
  <2>5. AliveIsListed'
    BY <2>1, <2>2 DEF AliveIsListed, Status
  <2> QED BY <2>3, <2>4, <2>5
<1>6. ASSUME NEW r \in Runs, NEW id \in Ids \cup {Blank}, Start(r, id), Admits(r, id)
      PROVE  TableInv'
  <2>1. /\ pc' = [pc EXCEPT ![r] = "begin"] /\ pc[r] = "new" /\ id \in Ids
        /\ sessions' = [sessions EXCEPT ![id] = r]
        /\ state' = [state EXCEPT ![r] = "running"] /\ UNCHANGED final
        /\ ~IdInUse(id)
    BY <1>6 DEF Start, Admits
  <2>2. Alive' = Alive \cup {r} /\ r \notin Alive
    BY <2>1 DEF Alive
  <2>3. StateInv'
    BY <2>1, <2>2 DEF StateInv
  <2>4. Listed' \subseteq Listed \cup {r}
    BY <2>1 DEF Listed
  <2>5. ListedInv'
    BY <2>1, <2>4 DEF ListedInv, Listed
  <2>6. AliveIsListed'
    <3>1. sessions'[id] = r /\ state'[r] = "running"
      BY <2>1
    <3>2. ASSUME NEW s \in Alive
          PROVE  \E i \in Ids : sessions'[i] = s /\ state'[s] = "running"
      <4>1. PICK i \in Ids : sessions[i] = s /\ state[s] = "running"
        BY LiveListed
      <4>2. i # id /\ s # r /\ s \in Runs
        BY <2>1, <2>2, <4>1, SessionAssumption DEF IdInUse, Alive
      <4> QED BY <2>1, <4>1, <4>2
    <3> QED BY <2>1, <2>2, <3>1, <3>2, SessionAssumption DEF AliveIsListed, Status, Alive
  <2> QED BY <2>3, <2>5, <2>6
<1>7. CASE CleanupExpired
  <2>1. \A s \in Outdated : s \notin Alive
    BY DEF Outdated, Terminal, StateInv, Alive
  <2>2. /\ Alive' = Alive /\ UNCHANGED <<pc, final>>
        /\ \A s \in Runs : state'[s] = IF s \in Outdated THEN "expired" ELSE state[s]
        /\ \A i \in Ids : sessions'[i] =
             IF sessions[i] \in Outdated THEN None ELSE sessions[i]
    BY <1>7 DEF CleanupExpired, Alive
  <2>3. \A s \in Outdated : pc[s] \notin {"new", "refused"} /\ s \in Runs
    BY DEF Outdated, ListedInv, Listed
  <2>4. StateInv'
    BY <2>1, <2>2, <2>3 DEF StateInv, Alive
  <2>5. Listed' \subseteq Listed
    BY <2>2 DEF Listed
  <2>6. ListedInv'
    BY <2>2, <2>5 DEF ListedInv
  <2>7. AliveIsListed'
    <3> SUFFICES ASSUME NEW s \in Alive
                 PROVE  \E i \in Ids : sessions'[i] = s /\ Status(i)' = "running"
      BY <2>2 DEF AliveIsListed
    <3>1. s \in Runs /\ s \notin Outdated
      BY <2>1 DEF Alive
    <3>2. PICK i \in Ids : sessions[i] = s /\ state[s] = "running"
      BY LiveListed
    <3>3. sessions'[i] = s /\ state'[s] = "running" /\ s # None
      BY <2>2, <3>1, <3>2, SessionAssumption
    <3> QED BY <3>3 DEF Status
  <2> QED BY <2>4, <2>6, <2>7
<1> QED BY <1>1, <1>2, <1>3, <1>4, <1>5, <1>6, <1>7, StepKinds

---------------------------------------------------------------------------
(* The limit and Close.                                                    *)

\* A step lets one run start, and only when the table has room for it, or none.
LEMMA AliveStep ==
  ASSUME TypeOK, TableInv, [Next]_vars
  PROVE  \/ Alive' \subseteq Alive
         \/ /\ ~closed /\ ~closed'
            /\ MaxActive > 0 => ~(Cardinality(Alive) >= MaxActive)
            /\ \E r \in Runs : r \notin Alive /\ Alive' = Alive \cup {r}
<1>1. CASE UNCHANGED pc
  BY <1>1 DEF Alive
<1>2. CASE CleanupExpired
  BY <1>2 DEF CleanupExpired, Alive
<1>3. ASSUME NEW r \in Runs, GoesOn(r) \/ Finish(r) \/ CloseEvents(r)
      PROVE  Alive' \subseteq Alive
  <2>1. /\ r \in Alive \/ pc'[r] = "closed"
        /\ \A s \in Runs \ {r} : pc'[s] = pc[s]
    BY <1>3 DEF GoesOn, GoesTo, Finish, CloseEvents, Alive, TypeOK
  <2> QED BY <2>1 DEF Alive
<1>4. ASSUME NEW r \in Runs, NEW id \in Ids \cup {Blank}, Start(r, id), ~Admits(r, id)
      PROVE  Alive' \subseteq Alive
  BY <1>4 DEF Start, Alive, TypeOK
<1>5. ASSUME NEW r \in Runs, NEW id \in Ids \cup {Blank}, Start(r, id), Admits(r, id)
      PROVE  /\ ~closed /\ ~closed'
             /\ MaxActive > 0 => ~(Cardinality(Alive) >= MaxActive)
             /\ r \notin Alive /\ Alive' = Alive \cup {r}
  <2>1. ~closed /\ ~closed' /\ ~AtLimit
    BY <1>5 DEF Start, Admits
  <2>2. pc[r] = "new" /\ pc' = [pc EXCEPT ![r] = "begin"]
    BY <1>5 DEF Start
  <2>3. r \notin Alive /\ Alive' = Alive \cup {r}
    BY <2>2 DEF Alive, TypeOK
  <2> QED BY <2>1, <2>3, ActiveIsAlive DEF AtLimit
<1> QED BY <1>1, <1>2, <1>3, <1>4, <1>5, StepKinds

\* The limit on live sessions is kept.
LEMMA CountStep ==
  ASSUME TypeOK, TableInv, CountInv, [Next]_vars
  PROVE  CountInv'
<1>1. CASE Alive' \subseteq Alive
  <2>1. /\ IsFiniteSet(Alive') /\ Cardinality(Alive') <= Cardinality(Alive)
        /\ Cardinality(Alive) \in Nat /\ Cardinality(Alive') \in Nat
    BY <1>1, FS_Subset, FS_CardinalityType DEF CountInv
  <2> QED BY <2>1 DEF CountInv, ActiveBounded
<1>2. CASE /\ MaxActive > 0 => ~(Cardinality(Alive) >= MaxActive)
           /\ \E r \in Runs : r \notin Alive /\ Alive' = Alive \cup {r}
  <2>1. PICK r \in Runs : r \notin Alive /\ Alive' = Alive \cup {r}
    BY <1>2
  <2>2. /\ IsFiniteSet(Alive') /\ Cardinality(Alive') = Cardinality(Alive) + 1
        /\ Cardinality(Alive) \in Nat
    BY <2>1, FS_AddElement, FS_CardinalityType DEF CountInv
  <2>3. MaxActive > 0 => Cardinality(Alive') <= MaxActive
    BY <1>2, <2>2
  <2> QED BY <2>2, <2>3 DEF CountInv, ActiveBounded
<1> QED BY <1>1, <1>2, AliveStep

\* After Close no live session is without a cancel that came or will come.
LEMMA CloseStep ==
  ASSUME TypeOK, TableInv, CloseReachesAll, [Next]_vars
  PROVE  CloseReachesAll'
<1>1. CASE Close
  BY <1>1, ActiveIsAlive DEF Close, CancelsOfClose, CloseReachesAll, Alive
<1>2. ASSUME closed' = closed, \A r \in Runs : cancelled[r] => cancelled'[r],
             \A r \in cancels : r \in cancels' \/ cancelled'[r]
      PROVE  CloseReachesAll'
  BY <1>2, AliveStep DEF CloseReachesAll, Alive
<1>3. CASE UNCHANGED <<closed, cancels, cancelled>>
  BY <1>2, <1>3
<1>4. ASSUME NEW id \in Ids, Interrupt(id) PROVE CloseReachesAll'
  BY <1>2, <1>4 DEF Interrupt, table
<1>5. ASSUME NEW r \in Runs, CallCancel(r) \/ CallerCancels(r) PROVE CloseReachesAll'
  BY <1>2, <1>5 DEF CallCancel, CallerCancels, table, TypeOK
<1>6. CASE CleanupExpired
  BY <1>3, <1>6 DEF CleanupExpired
<1>7. ASSUME NEW r \in Runs, GoesOn(r) \/ Finish(r) \/ CloseEvents(r)
      PROVE  UNCHANGED <<closed, cancels, cancelled>>
  BY <1>7 DEF GoesOn, GoesTo, Finish, CloseEvents, table
<1>8. ASSUME NEW r \in Runs, NEW id \in Ids \cup {Blank}, Start(r, id)
      PROVE  UNCHANGED <<closed, cancels, cancelled>>
  BY <1>8 DEF Start, table
<1> QED BY <1>1, <1>3, <1>4, <1>5, <1>6, <1>7, <1>8, StepKinds

---------------------------------------------------------------------------
(* The channel.                                                            *)

\* What was sent is a prefix of what was sent and what is left.
LEMMA PrefixOfConcat ==
  ASSUME NEW sent \in Seq(Events), NEW left \in Seq(Events)
  PROVE  IsPrefix(sent, sent \o left)
<1>1. Len(sent) \in Nat /\ Len(left) \in Nat /\ Len(sent \o left) = Len(sent) + Len(left)
  BY ConcatProperties
<1>2. SubSeq(sent \o left, 1, Len(sent)) = SubSeq(sent, 1, Len(sent))
  <2>1. CASE Len(sent) = 0
    BY <2>1, SubSeqEmpty
  <2>2. CASE Len(sent) > 0
    BY <1>1, <2>2, SubSeqOfConcat1
  <2> QED BY <1>1, <2>1, <2>2
<1> QED BY <1>1, <1>2 DEF IsPrefix

\* Logs are joined in any grouping.
LEMMA EventsJoin ==
  \A s, t, u \in Seq(Events) : (s \o t) \o u = s \o (t \o u)
BY ConcatAssociative

\* Sending the first of the deltas that are left moves it to what was sent.
LEMMA SendMovesHead ==
  ASSUME NEW sent \in Seq(Events), NEW left \in Seq(Events), left # <<>>
  PROVE  Append(sent, Head(left)) \o Tail(left) = sent \o left
<1>1. Head(left) \in Events /\ Tail(left) \in Seq(Events) /\ <<Head(left)>> \in Seq(Events)
  BY HeadTailProperties
<1>2. left = <<Head(left)>> \o Tail(left)
  <2>1. Len(left) \in 1 .. Len(left) /\ 1 \in 1 .. Len(left) /\ Len(left) \in Nat
    BY EmptySeq
  <2>2. SubSeq(left, 1, Len(left)) = <<left[1]>> \o SubSeq(left, 1 + 1, Len(left))
    BY <2>1, SubSeqRecursiveFirst
  <2>3. SubSeq(left, 1, Len(left)) = left
    BY SubSeqFull
  <2>4. Tail(left) = SubSeq(left, 2, Len(left)) /\ Head(left) = left[1]
    BY TailIsSubSeq
  <2> QED BY <2>2, <2>3, <2>4
<1>3. Append(sent, Head(left)) = sent \o <<Head(left)>>
  BY <1>1, AppendIsConcat
<1> QED BY <1>1, <1>2, <1>3, ConcatAssociative

\* A run that a step leaves alone keeps its log, cancelled or not.
LEMMA QuietRun ==
  ASSUME NEW r \in Runs, RunLog(r), pc'[r] = pc[r], log'[r] = log[r],
         taken'[r] = taken[r], todo'[r] = todo[r], final'[r] = final[r],
         cancelled[r] => cancelled'[r]
  PROVE  RunLog(r)'
BY DEF RunLog, ToldInv, Told

\* A run that is done with its answer, or gives up on it, has sent what it says.
LEMMA GivesUp ==
  ASSUME TypeOK, LogInv, NEW r \in Runs, pc[r] \in {"begin", "loop"}, SendGivesUp(r),
         UNCHANGED <<cancelled, taken, todo>>
  PROVE  RunLog(r)'
<1>1. /\ pc'[r] = "finish" /\ final'[r] = "interrupted" /\ cancelled'[r]
      /\ UNCHANGED <<log, taken>>
  BY DEF SendGivesUp, TypeOK
<1>2. /\ log[r] \in Seq(Events) /\ todo[r] \in Seq(Events) /\ taken[r] \in Seq(Events)
      /\ <<"started">> \in Seq(Events) /\ <<>> \in Seq(Events)
  BY EventTypes DEF TypeOK
<1>3. IsPrefix(log[r], Told(r))
  <2>1. CASE pc[r] = "begin"
    <3>1. log[r] = <<>> /\ Told(r) \in Seq(Events)
      BY <1>2, <2>1, ConcatProperties DEF LogInv, RunLog, Told
    <3>2. <<>> \o Told(r) = Told(r)
      BY <3>1, ConcatEmptySeq
    <3> QED BY <1>2, <3>1, <3>2, PrefixOfConcat
  <2>2. CASE pc[r] = "loop"
    BY <1>2, <2>2, PrefixOfConcat DEF LogInv, RunLog
  <2> QED BY <2>1, <2>2
<1>4. ToldInv(r)'
  BY <1>1, <1>3 DEF ToldInv, Told
<1> QED BY <1>1, <1>4 DEF RunLog

\* Every step keeps the account of what was sent.
LEMMA LogStep ==
  ASSUME TypeOK, StateInv, LogInv, [Next]_vars
  PROVE  LogInv'
<1>1. ASSUME UNCHANGED <<pc, log, taken, todo, final>>,
             \A r \in Runs : cancelled[r] => cancelled'[r]
      PROVE  LogInv'
  BY <1>1, QuietRun DEF LogInv
<1>2. ASSUME NEW r \in Runs, RunLog(r)', UNCHANGED cancelled,
             \A s \in Runs \ {r} : /\ pc'[s] = pc[s] /\ log'[s] = log[s]
                                   /\ taken'[s] = taken[s] /\ todo'[s] = todo[s]
                                   /\ final'[s] = final[s]
      PROVE  LogInv'
  BY <1>2, QuietRun DEF LogInv
<1>3. \A r \in Runs : /\ log[r] \in Seq(Events) /\ todo[r] \in Seq(Events)
                      /\ taken[r] \in Seq(Events) /\ Told(r) \in Seq(Events)
                      /\ taken[r] \in Seq(Deltas) /\ todo[r] \in Seq(Deltas)
  BY EventTypes, ConcatProperties DEF TypeOK, Told
<1>4. <<>> \in Seq(Events) /\ <<"started">> \in Seq(Events) /\ "started" \in Events
  BY EventTypes DEF Events
<1>5. CASE UNCHANGED vars
  BY <1>1, <1>5 DEF vars, table
<1>6. (\E id \in Ids : Interrupt(id)) \/ Close \/ CleanupExpired \/ Tick => LogInv'
  BY <1>1 DEF Interrupt, Close, CleanupExpired, Tick, table
<1>7. ASSUME NEW r \in Runs, CallCancel(r) \/ ReadEvent(r) \/ CallerCancels(r)
      PROVE  LogInv'
  BY <1>1, <1>7 DEF CallCancel, ReadEvent, CallerCancels, table, TypeOK
<1>8. ASSUME NEW r \in Runs, NEW id \in Ids \cup {Blank}, Start(r, id)
      PROVE  LogInv'
  <2>1. /\ pc[r] = "new" /\ \A s \in Runs \ {r} : pc'[s] = pc[s]
        /\ pc'[r] \in {"begin", "refused"}
        /\ UNCHANGED <<cancelled, log, taken, todo, final>>
    BY <1>8 DEF Start, TypeOK
  <2>2. RunLog(r)'
    BY <2>1 DEF LogInv, RunLog
  <2> QED BY <1>2, <2>1, <2>2
<1>9. ASSUME NEW r \in Runs, Begin(r) PROVE LogInv'
  <2>1. pc[r] = "begin" /\ log[r] = <<>> /\ taken[r] = <<>> /\ todo[r] = <<>>
    BY <1>9 DEF Begin, LogInv, RunLog
  <2>2. CASE Send(r, "started", "call")
    <3>1. /\ pc'[r] = "call" /\ log'[r] = Append(<<>>, "started")
          /\ UNCHANGED <<cancelled, taken, todo, final>>
          /\ \A s \in Runs \ {r} : pc'[s] = pc[s] /\ log'[s] = log[s]
      BY <1>9, <2>1, <2>2 DEF Begin, Send, TypeOK
    <3>2. log'[r] = <<"started">> /\ <<"started">> \o <<>> = <<"started">>
      BY <1>4, <3>1, ConcatEmptySeq
    <3>3. RunLog(r)'
      BY <2>1, <3>1, <3>2 DEF RunLog, Told
    <3> QED BY <1>2, <3>1, <3>3
  <2>3. CASE SendGivesUp(r)
    <3>1. RunLog(r)' /\ UNCHANGED <<cancelled, taken, todo>>
      BY <1>9, <2>1, <2>3, GivesUp DEF Begin
    <3> QED BY <1>2, <2>3, <3>1 DEF SendGivesUp, TypeOK
  <2> QED BY <1>9, <2>2, <2>3 DEF Begin
<1>10. ASSUME NEW r \in Runs, CallModel(r) PROVE LogInv'
  <2>1. /\ pc[r] = "call" /\ pc'[r] \in {"loop", "last"}
        /\ UNCHANGED <<cancelled, log, taken, todo>>
        /\ \A s \in Runs \ {r} : pc'[s] = pc[s] /\ final'[s] = final[s]
    BY <1>10 DEF CallModel, EndWith, TypeOK
  <2>2. log[r] \o todo[r] = Told(r) /\ todo[r] = <<>> /\ log[r] \o <<>> = log[r]
    BY <1>3, <2>1, ConcatEmptySeq DEF LogInv, RunLog
  <2>3. RunLog(r)'
    BY <2>1, <2>2 DEF RunLog, Told
  <2> QED BY <1>2, <2>1, <2>3
<1>11. ASSUME NEW r \in Runs, SendDelta(r) PROVE LogInv'
  <2>1. pc[r] = "loop" /\ todo[r] # <<>> /\ log[r] \o todo[r] = Told(r)
    BY <1>11 DEF SendDelta, LogInv, RunLog
  <2>2. CASE Send(r, Head(todo[r]), "loop") /\ todo' = [todo EXCEPT ![r] = Tail(@)]
    <3>1. /\ pc'[r] = "loop" /\ log'[r] = Append(log[r], Head(todo[r]))
          /\ todo'[r] = Tail(todo[r]) /\ UNCHANGED <<cancelled, taken, final>>
          /\ \A s \in Runs \ {r} :
               pc'[s] = pc[s] /\ log'[s] = log[s] /\ todo'[s] = todo[s]
      BY <1>11, <2>2 DEF SendDelta, Send, TypeOK
    <3>2. log'[r] \o todo'[r] = Told(r)
      BY <1>3, <2>1, <3>1, SendMovesHead
    <3>3. RunLog(r)'
      BY <3>1, <3>2 DEF RunLog, Told
    <3> QED BY <1>2, <3>1, <3>3
  <2>3. CASE SendGivesUp(r) /\ UNCHANGED todo
    <3>1. RunLog(r)' /\ UNCHANGED <<cancelled, taken, todo>>
      BY <1>11, <2>1, <2>3, GivesUp DEF SendDelta
    <3> QED BY <1>2, <2>3, <3>1 DEF SendGivesUp, TypeOK
  <2> QED BY <1>11, <2>2, <2>3 DEF SendDelta, Remaining
<1>12. ASSUME NEW r \in Runs, SendTerminal(r) PROVE LogInv'
  <2>1. /\ pc[r] = "last" /\ pc'[r] = "finish" /\ log[r] = Told(r)
        /\ log'[r] = Append(log[r], EventOf(final[r])) /\ final[r] \in Outcomes
        /\ UNCHANGED <<cancelled, taken, todo, final>>
        /\ \A s \in Runs \ {r} : pc'[s] = pc[s] /\ log'[s] = log[s]
    BY <1>12 DEF SendTerminal, TypeOK, LogInv, RunLog, StateInv
  <2>2. log'[r] = Told(r) \o <<EventOf(final[r])>>
    BY <1>3, <2>1, EventTypes, AppendIsConcat
  <2>3. RunLog(r)'
    BY <2>1, <2>2 DEF RunLog, ToldInv, Told
  <2> QED BY <1>2, <2>1, <2>3
<1>13. ASSUME NEW r \in Runs, Finish(r) \/ CloseEvents(r) PROVE LogInv'
  <2>1. /\ pc[r] \in {"finish", "close"} /\ pc'[r] \in {"close", "closed"}
        /\ UNCHANGED <<cancelled, log, taken, todo, final>>
        /\ \A s \in Runs \ {r} : pc'[s] = pc[s]
    BY <1>13 DEF Finish, CloseEvents, TypeOK
  <2>2. ToldInv(r) /\ ToldInv(r)' = ToldInv(r)
    BY <2>1 DEF LogInv, RunLog, ToldInv, Told
  <2>3. RunLog(r)'
    BY <2>1, <2>2 DEF RunLog
  <2> QED BY <1>2, <2>1, <2>3
<1>14. ASSUME NEW r \in Runs, Receive(r) \/ StreamEnds(r) PROVE LogInv'
  <2>1. pc[r] = "loop" /\ todo[r] = <<>> /\ UNCHANGED <<cancelled, log>>
    BY <1>14 DEF Receive, StreamEnds
  <2>2. log[r] = Told(r)
    <3>1. log[r] \o todo[r] = Told(r) /\ log[r] \o <<>> = log[r]
      BY <1>3, <2>1, ConcatEmptySeq DEF LogInv, RunLog
    <3> QED BY <2>1, <3>1
  <2>3. ASSUME NEW outcome, EndWith(r, outcome), UNCHANGED <<todo, taken>>
        PROVE  LogInv'
    <3>1. /\ pc'[r] = "last"
          /\ \A s \in Runs \ {r} : pc'[s] = pc[s] /\ final'[s] = final[s]
      BY <2>3 DEF EndWith, TypeOK
    <3>2. RunLog(r)'
      BY <2>1, <2>2, <2>3, <3>1 DEF RunLog, Told
    <3> QED BY <1>2, <2>1, <2>3, <3>1, <3>2
  <2>4. ASSUME NEW event \in StreamEvents, todo' = [todo EXCEPT ![r] = event],
               taken' = [taken EXCEPT ![r] = @ \o event], UNCHANGED <<pc, final>>
        PROVE  LogInv'
    <3>1. /\ todo'[r] = event /\ taken'[r] = taken[r] \o event /\ event \in Seq(Events)
          /\ \A s \in Runs \ {r} : todo'[s] = todo[s] /\ taken'[s] = taken[s]
      BY <2>4, EventTypes DEF TypeOK
    <3>2. (<<"started">> \o taken[r]) \o event = <<"started">> \o (taken[r] \o event)
      <4>1. taken[r] \in Seq(Events) /\ event \in Seq(Events)
        BY <1>3, <3>1
      <4> QED BY <1>4, <4>1, EventsJoin
    <3>3. log'[r] \o todo'[r] = Told(r)'
      BY <2>1, <2>2, <3>1, <3>2 DEF Told
    <3>4. RunLog(r)'
      BY <2>1, <2>4, <3>3 DEF RunLog
    <3> QED BY <1>2, <2>1, <2>4, <3>1, <3>4
  <2> QED BY <1>14, <2>3, <2>4 DEF Receive, StreamEnds
<1> QED BY <1>5, <1>6, <1>7, <1>8, <1>9, <1>10, <1>11, <1>12, <1>13, <1>14
        DEF Next, RunStep

---------------------------------------------------------------------------
(* The theorems.                                                           *)

\* Every reachable state satisfies the invariants.
THEOREM Invariant == Spec => []IInv
<1>1. IInv /\ [Next]_vars => IInv'
  BY TypeStep, TableStep, CountStep, CloseStep, LogStep DEF IInv, TableInv
<1> QED BY <1>1, IInvInit, PTL DEF Spec

\* Type correctness: no run ever has more events waiting than the channel of
\* runSession holds.
THEOREM SessionTypes == Spec => []TypeOK
BY Invariant, PTL DEF IInv

\* Start, finish and CleanupExpired in any order keep every live goroutine in
\* the table, under an id that answers Status with "running".
THEOREM LiveRunsAreListed == Spec => []AliveIsListed
BY Invariant, PTL DEF IInv, TableInv

\* Start's limit holds for the goroutines, not only for the table it counts.
THEOREM LimitHolds == Spec => []ActiveBounded
BY Invariant, PTL DEF IInv, CountInv

\* However Start, Interrupt and Close interleave, a closed manager has no live
\* session that is not cancelled and that nobody is about to cancel.
THEOREM CloseMissesNobody == Spec => []CloseReachesAll
BY Invariant, PTL DEF IInv

\* The channel of a session that has ended tells the whole answer and how it
\* ended, as the table does; or it stops short, after a cancel.
THEOREM ChannelTellsAll == Spec => []ClosedTellsAll
<1>1. IInv => ClosedTellsAll
  BY DEF IInv, TableInv, StateInv, LogInv, RunLog, ToldInv, ClosedTellsAll
<1> QED BY <1>1, Invariant, PTL

=============================================================================
