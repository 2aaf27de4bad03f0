--------------------------- MODULE SessionManager ---------------------------
(***************************************************************************)
(* The session manager: a table of sessions behind one mutex, and for each *)
(* session a goroutine (runSession) that copies the model's stream into a  *)
(* bounded channel of events, ends with at most one terminal event, sets   *)
(* the session's state and closes the channel.                             *)
(*                                                                         *)
(* A run is one call of Start and the goroutine it may spawn.  Interrupt   *)
(* and Close read cancel functions under the mutex and call them after the *)
(* unlock: cancels holds the calls that are still to come, from any number *)
(* of callers.  The caller of Start owns the parent context and reads the  *)
(* channel; the model streamer is external and may send, fail, end or hang.*)
(***************************************************************************)
EXTENDS Integers, Sequences, FiniteSets, SequencesExt

CONSTANTS
  Runs,        \* calls of Start
  Ids,         \* session ids
  Blank,       \* an id that is empty once trimmed
  BufferSize,  \* capacity of a session's event channel
  MaxActive,   \* maxActiveSessions; 0 is no limit
  TTL,         \* sessionTTL
  MaxTime,     \* bound: the clock stops here
  MaxStream,   \* bound: stream events that one model answer may have
  None         \* no session under an id

Terminal == {"interrupted", "completed", "failed", "expired"}
Outcomes == {"interrupted", "completed", "failed"}
States == {"none", "running"} \cup Terminal
Deltas == {"text", "tool"}
TerminalEvents == {"finished", "interrupted", "failed"}
Events == {"started"} \cup Deltas \cup TerminalEvents
Steps == {"new", "begin", "call", "loop", "last", "finish", "close", "closed",
          "refused"}

\* A stream event carries text, a tool call, or both.
StreamEvents == {<<"text">>, <<"tool">>, <<"text", "tool">>}

ASSUME SessionAssumption ==
  /\ BufferSize \in Nat \ {0}
  /\ MaxActive \in Nat
  /\ TTL \in Nat \ {0}
  /\ MaxTime \in Nat
  /\ MaxStream \in Nat
  /\ None \notin Runs
  /\ Blank \notin Ids

VARIABLES
  closed,    \* Manager.closed
  sessions,  \* Manager.sessions: the run under each id
  state,     \* sessionState.state of each run
  updated,   \* sessionState.updatedAt
  time,      \* Manager.clock
  cancelled, \* whether the run's context is done
  cancels,   \* runs whose cancel function some Interrupt or Close will call
  pc,        \* the step of the run
  todo,      \* deltas of the current stream event that are not sent yet
  taken,     \* deltas of all stream events the run has received
  final,     \* the state finish will set
  log,       \* events sent to the channel so far
  read       \* how many of them the caller has received

table == <<closed, sessions, state, updated>>
vars == <<table, time, cancelled, cancels, pc, todo, taken, final, log, read>>

Init ==
  /\ closed = FALSE
  /\ sessions = [id \in Ids |-> None]
  /\ state = [r \in Runs |-> "none"]
  /\ updated = [r \in Runs |-> 0]
  /\ time = 0
  /\ cancelled = [r \in Runs |-> FALSE]
  /\ cancels = {}
  /\ pc = [r \in Runs |-> "new"]
  /\ todo = [r \in Runs |-> <<>>]
  /\ taken = [r \in Runs |-> <<>>]
  /\ final = [r \in Runs |-> "none"]
  /\ log = [r \in Runs |-> <<>>]
  /\ read = [r \in Runs |-> 0]

---------------------------------------------------------------------------
(* The table.                                                              *)

Listed == {sessions[id] : id \in Ids} \ {None}
Active == {r \in Listed : state[r] \notin Terminal}

NoLimit == FALSE
AtLimit == MaxActive > 0 /\ Cardinality(Active) >= MaxActive

\* The id is in use; an expired session would not count, and is never listed.
IdInUse(id) == sessions[id] # None /\ state[sessions[id]] # "expired"

\* The checks of Start, all of them under the mutex but the first two.
Admits(r, id) ==
  id # Blank /\ ~cancelled[r] /\ ~closed /\ ~IdInUse(id) /\ ~AtLimit

Start(r, id) ==
  /\ pc[r] = "new"
  /\ \/ /\ ~Admits(r, id)
        /\ pc' = [pc EXCEPT ![r] = "refused"]
        /\ UNCHANGED table
     \/ /\ Admits(r, id)
        /\ sessions' = [sessions EXCEPT ![id] = r]
        /\ state' = [state EXCEPT ![r] = "running"]
        /\ updated' = [updated EXCEPT ![r] = time]
        /\ pc' = [pc EXCEPT ![r] = "begin"]
        /\ UNCHANGED closed
  /\ UNCHANGED <<time, cancelled, cancels, todo, taken, final, log, read>>

\* Interrupt up to its unlock; on a terminal or missing session it does nothing.
Interrupt(id) ==
  /\ sessions[id] \in Active
  /\ cancels' = cancels \cup {sessions[id]}
  /\ UNCHANGED <<table, time, cancelled, pc, todo, taken, final, log, read>>

\* Close up to its unlock.
CancelsNothing == {}
CancelsOfClose == Active
Close ==
  /\ ~closed
  /\ closed' = TRUE
  /\ cancels' = cancels \cup CancelsOfClose
  /\ UNCHANGED <<sessions, state, updated, time, cancelled, pc, todo, taken,
                 final, log, read>>

DropsTheCancel(r) ==
  /\ r \in cancels
  /\ cancels' = cancels \ {r}
  /\ UNCHANGED <<table, time, cancelled, pc, todo, taken, final, log, read>>

\* Some Interrupt or Close gets to call the cancel function it holds.
CallCancel(r) ==
  /\ r \in cancels
  /\ cancels' = cancels \ {r}
  /\ cancelled' = [cancelled EXCEPT ![r] = TRUE]
  /\ UNCHANGED <<table, time, pc, todo, taken, final, log, read>>

\* What Status reports for an id.
Status(id) == IF sessions[id] = None THEN "not_found" ELSE state[sessions[id]]

\* The sessions CleanupExpired removes.
AnyAge == {r \in Listed : time - updated[r] > TTL}
Outdated ==
  {r \in Listed : state[r] \in Terminal \ {"expired"} /\ time - updated[r] > TTL}

CleanupExpired ==
  /\ Outdated # {}
  /\ state' = [r \in Runs |-> IF r \in Outdated THEN "expired" ELSE state[r]]
  /\ sessions' = [id \in Ids |->
       IF sessions[id] \in Outdated THEN None ELSE sessions[id]]
  /\ UNCHANGED <<closed, updated, time, cancelled, cancels, pc, todo, taken,
                 final, log, read>>

---------------------------------------------------------------------------
(* runSession.                                                             *)

NeverFull(r) == FALSE
Full(r) == Len(log[r]) - read[r] >= BufferSize

\* Manager.send: when the channel has room and the context is done, select may
\* take either branch; without room it waits for one of them.
Send(r, event, next) ==
  /\ ~Full(r)
  /\ log' = [log EXCEPT ![r] = Append(@, event)]
  /\ pc' = [pc EXCEPT ![r] = next]
  /\ UNCHANGED final
SendGivesUp(r) ==
  /\ cancelled[r]
  /\ pc' = [pc EXCEPT ![r] = "finish"]
  /\ final' = [final EXCEPT ![r] = "interrupted"]
  /\ UNCHANGED log

\* The terminal event is sent before the state is set.
EndWith(r, outcome) ==
  /\ pc' = [pc EXCEPT ![r] = "last"]
  /\ final' = [final EXCEPT ![r] = outcome]

Begin(r) ==
  /\ pc[r] = "begin"
  /\ Send(r, "started", "call") \/ SendGivesUp(r)
  /\ UNCHANGED <<table, time, cancelled, cancels, todo, taken, read>>

\* client.Stream returns a stream or an error.
CallModel(r) ==
  /\ pc[r] = "call"
  /\ \/ pc' = [pc EXCEPT ![r] = "loop"] /\ UNCHANGED final
     \/ EndWith(r, IF cancelled[r] THEN "interrupted" ELSE "failed")
  /\ UNCHANGED <<table, time, cancelled, cancels, todo, taken, log, read>>

\* The stream delivers an event, an error, or its end.
Receive(r) ==
  /\ pc[r] = "loop"
  /\ todo[r] = <<>>
  /\ \/ \E event \in StreamEvents :
          /\ Len(taken[r]) < MaxStream
          /\ todo' = [todo EXCEPT ![r] = event]
          /\ taken' = [taken EXCEPT ![r] = @ \o event]
          /\ UNCHANGED <<pc, final>>
     \/ EndWith(r, "failed") /\ UNCHANGED <<todo, taken>>
  /\ UNCHANGED <<table, time, cancelled, cancels, log, read>>

StreamEnds(r) ==
  /\ pc[r] = "loop"
  /\ todo[r] = <<>>
  /\ EndWith(r, IF cancelled[r] THEN "interrupted" ELSE "completed")
  /\ UNCHANGED <<table, time, cancelled, cancels, todo, taken, log, read>>

\* One delta of the event goes to the channel: the text before the tool call.
SkipsTheTool(deltas) == <<>>
Remaining(deltas) == Tail(deltas)
SendDelta(r) ==
  /\ pc[r] = "loop"
  /\ todo[r] # <<>>
  /\ \/ /\ Send(r, Head(todo[r]), "loop")
        /\ todo' = [todo EXCEPT ![r] = Remaining(@)]
     \/ SendGivesUp(r) /\ UNCHANGED todo
  /\ UNCHANGED <<table, time, cancelled, cancels, taken, read>>

EventOf(outcome) ==
  CASE outcome = "completed" -> "finished"
    [] outcome = "interrupted" -> "interrupted"
    [] outcome = "failed" -> "failed"

\* sendTerminal waits for room, whatever happens to the context.
SendTerminal(r) ==
  /\ pc[r] = "last"
  /\ ~Full(r)
  /\ log' = [log EXCEPT ![r] = Append(@, EventOf(final[r]))]
  /\ pc' = [pc EXCEPT ![r] = "finish"]
  /\ UNCHANGED <<table, time, cancelled, cancels, todo, taken, final, read>>

\* finish sets the state unless it is terminal already.
Finish(r) ==
  /\ pc[r] = "finish"
  /\ IF state[r] \in Terminal
     THEN UNCHANGED <<state, updated>>
     ELSE /\ state' = [state EXCEPT ![r] = final[r]]
          /\ updated' = [updated EXCEPT ![r] = time]
  /\ pc' = [pc EXCEPT ![r] = "close"]
  /\ UNCHANGED <<closed, sessions, time, cancelled, cancels, todo, taken, final,
                 log, read>>

\* The deferred close of the channel.
CloseEvents(r) ==
  /\ pc[r] = "close"
  /\ pc' = [pc EXCEPT ![r] = "closed"]
  /\ UNCHANGED <<table, time, cancelled, cancels, todo, taken, final, log, read>>

---------------------------------------------------------------------------
(* The caller and the clock.                                               *)

ReadEvent(r) ==
  /\ read[r] < Len(log[r])
  /\ read' = [read EXCEPT ![r] = @ + 1]
  /\ UNCHANGED <<table, time, cancelled, cancels, pc, todo, taken, final, log>>

\* The context the caller gave to Start ends, before or while the run uses it.
CallerCancels(r) ==
  /\ ~cancelled[r]
  /\ pc[r] \notin {"close", "closed", "refused"}
  /\ cancelled' = [cancelled EXCEPT ![r] = TRUE]
  /\ UNCHANGED <<table, time, cancels, pc, todo, taken, final, log, read>>

Tick ==
  /\ time < MaxTime
  /\ time' = time + 1
  /\ UNCHANGED <<table, cancelled, cancels, pc, todo, taken, final, log, read>>

RunStep(r) ==
  \/ Begin(r) \/ CallModel(r) \/ SendDelta(r) \/ SendTerminal(r) \/ Finish(r)
  \/ CloseEvents(r)

Next ==
  \/ \E r \in Runs, id \in Ids \cup {Blank} : Start(r, id)
  \/ \E id \in Ids : Interrupt(id)
  \/ Close
  \/ CleanupExpired
  \/ Tick
  \/ \E r \in Runs :
       \/ RunStep(r) \/ Receive(r) \/ StreamEnds(r)
       \/ CallCancel(r) \/ ReadEvent(r) \/ CallerCancels(r)

\* Goroutines run; callers drain the channel they were given; a cancel that was
\* fetched is called; and a stream whose context is done ends, as the streams
\* of internal/model do.  A model may hang as long as nobody cancels.
Fairness ==
  \A r \in Runs :
    /\ WF_vars(RunStep(r))
    /\ WF_vars(ReadEvent(r))
    /\ WF_vars(CallCancel(r))
    /\ WF_vars(cancelled[r] /\ (StreamEnds(r) \/ Receive(r)))

Spec == Init /\ [][Next]_vars /\ Fairness

---------------------------------------------------------------------------
(* Properties.                                                             *)

TypeOK ==
  /\ closed \in BOOLEAN
  /\ sessions \in [Ids -> Runs \cup {None}]
  /\ state \in [Runs -> States]
  /\ updated \in [Runs -> 0 .. MaxTime]
  /\ time \in 0 .. MaxTime
  /\ cancelled \in [Runs -> BOOLEAN]
  /\ cancels \subseteq Runs
  /\ pc \in [Runs -> Steps]
  /\ todo \in [Runs -> Seq(Deltas)]
  /\ taken \in [Runs -> Seq(Deltas)]
  /\ final \in [Runs -> {"none"} \cup Outcomes]
  /\ log \in [Runs -> Seq(Events)]
  /\ read \in [Runs -> Nat]
  /\ \A r \in Runs : Len(log[r]) - read[r] \in 0 .. BufferSize

\* Runs whose goroutine has work to do before finish.
Alive == {r \in Runs :
            pc[r] \in {"begin", "call", "loop", "last", "finish"}}

\* A live session can always be reached: it is listed as running under an id
\* until its goroutine is through with it, so Interrupt, Status and Close see
\* it, no second Start takes its id and no cleanup forgets it.
AliveIsListed ==
  \A r \in Alive : \E id \in Ids : sessions[id] = r /\ Status(id) = "running"

\* No interleaving of starts, ends and cleanups has more sessions talking to
\* the model than maxActiveSessions.
ActiveBounded == MaxActive > 0 => Cardinality(Alive) <= MaxActive

\* Once the manager is closed, every live session is cancelled or about to be:
\* none slips between the flag and the list that Close takes.
CloseReachesAll == closed => \A r \in Alive : cancelled[r] \/ r \in cancels

Told(r) == <<"started">> \o taken[r]

\* What the caller has when the channel is closed: the start, every delta of the
\* model in order and once, and last a terminal event, the one that matches the
\* state Status reports; or a part of it from the start and no terminal event,
\* and then the context was done.
ClosedTellsAll ==
  \A r \in Runs : pc[r] = "closed" =>
    /\ final[r] \in Outcomes
    /\ state[r] \in {final[r], "expired"}
    /\ \/ log[r] = Told(r) \o <<EventOf(final[r])>>
       \/ /\ cancelled[r] /\ final[r] = "interrupted"
          /\ IsPrefix(log[r], Told(r))

\* A session that is interrupted, or that the manager is closed on, ends: its
\* channel is closed, whatever the model does, if its caller keeps reading.
InterruptEnds == \A r \in Runs : r \in cancels ~> pc[r] \in {"closed", "refused"}

=============================================================================
