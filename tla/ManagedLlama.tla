---------------------------- MODULE ManagedLlama ----------------------------
(***************************************************************************)
(* Embedders that start a llama.cpp server of their own.                   *)
(*                                                                         *)
(* NewManagedLlamaCPPEmbedder downloads the model file if there is none,   *)
(* starts a child process and dials its port until something answers.  A   *)
(* goroutine waits for the child; Close kills it and takes what that       *)
(* goroutine reports.  Owners are processes that share the port and the    *)
(* model file, as two with default settings do; an owner that dies leaves  *)
(* its child behind.  The child, the port and the origin of the model are  *)
(* external.                                                               *)
(***************************************************************************)
EXTENDS Integers, FiniteSets

CONSTANTS
  Owners,      \* processes with a managed embedder
  MaxClosers,  \* bound: callers of Close of one embedder
  MaxDeaths    \* bound: owners that die

ASSUME BoundAssumption == MaxClosers \in Nat \ {0} /\ MaxDeaths \in Nat

Getting == {"stat", "get", "copy", "rename"}
Launching == {"launch", "dial", "wait", "build", "failing"}
Steps == {"off", "up", "closed", "failed"} \cup Getting \cup Launching

\* A child that has ended is "dead" until the goroutine has waited for it.
Children == {"none", "booting", "listening", "dead", "reaped"}
Running == {"booting", "listening"}

VARIABLES
  model,      \* the file at the model path
  temp,       \* the temporary file of each download
  pc,         \* where each owner is
  ended,      \* whether its context, or its startup timeout, is over
  child,      \* its child process
  cancelled,  \* whether the child's context is cancelled
  done,       \* whether the channel done holds the result of Wait
  once,       \* the sync.Once of Close
  calls,      \* calls of Close that have not returned
  stray,      \* a process on or after the port that nobody here owns
  deaths,     \* owners that have died so far
  shared,     \* history: whether two were after the port at once
  lost        \* history: owners whose child ended by itself after it had listened

process == <<child, cancelled, done>>
closing == <<once, calls>>
vars == <<model, temp, pc, ended, process, closing, stray, deaths, shared, lost>>

Init ==
  /\ model \in {"absent", "empty", "whole"}
  /\ temp = [o \in Owners |-> "none"]
  /\ pc = [o \in Owners |-> "off"]
  /\ ended = [o \in Owners |-> FALSE]
  /\ child = [o \in Owners |-> "none"]
  /\ cancelled = [o \in Owners |-> FALSE]
  /\ done = [o \in Owners |-> FALSE]
  /\ once = [o \in Owners |-> "free"]
  /\ calls = [o \in Owners |-> 0]
  /\ stray \in {"none", "listening"}
  /\ deaths = 0
  /\ shared = FALSE
  /\ lost = {}

Goto(o, step) == pc' = [pc EXCEPT ![o] = step]

\* o is at a step with nothing left of an embedder it had.
Fresh(o, step) ==
  /\ Goto(o, step)
  /\ ended' = [ended EXCEPT ![o] = FALSE]
  /\ child' = [child EXCEPT ![o] = "none"]
  /\ cancelled' = [cancelled EXCEPT ![o] = FALSE]
  /\ done' = [done EXCEPT ![o] = FALSE]
  /\ once' = [once EXCEPT ![o] = "free"]
  /\ lost' = lost \ {o}

\* The owner starts an embedder, its first or the next.
Begin(o) ==
  /\ pc[o] \in {"off", "closed", "failed"}
  /\ calls[o] = 0
  /\ Fresh(o, "stat")
  /\ UNCHANGED <<model, temp, calls, stray, deaths, shared>>

---------------------------------------------------------------------------
(* The model file.                                                         *)

\* llamaCPPModelFileReady: an empty file is an invalid configuration.
Stat(o) ==
  /\ pc[o] = "stat"
  /\ Goto(o, CASE model = "absent" -> "get"
               [] model = "empty" -> "failed"
               [] OTHER -> "launch")
  /\ UNCHANGED <<model, temp, ended, process, closing, stray, deaths, shared, lost>>

\* The request of the download is answered, with an empty body maybe.
Get(o) ==
  /\ pc[o] = "get"
  /\ ~ended[o]
  /\ Goto(o, "copy")
  /\ temp' = [temp EXCEPT ![o] = "partial"]
  /\ UNCHANGED <<model, ended, process, closing, stray, deaths, shared, lost>>

\* io.Copy to the temporary file, to the end of the body.
CopyInPlace(o) ==
  /\ pc[o] = "copy"
  /\ ~ended[o]
  /\ \/ model' = "torn" /\ UNCHANGED <<pc, temp>>
     \/ /\ model = "torn"
        /\ \E content \in {"whole", "empty"} :
             model' = content /\ temp' = [temp EXCEPT ![o] = content]
        /\ Goto(o, "rename")
  /\ UNCHANGED <<ended, process, closing, stray, deaths, shared, lost>>
Copy(o) ==
  /\ pc[o] = "copy"
  /\ ~ended[o]
  /\ \E content \in {"whole", "empty"} : temp' = [temp EXCEPT ![o] = content]
  /\ Goto(o, "rename")
  /\ UNCHANGED <<model, ended, process, closing, stray, deaths, shared, lost>>

\* An error status, a broken connection, a full disk, or the context's end; the
\* temporary file is removed.
FailDownload(o) ==
  /\ pc[o] \in {"get", "copy"}
  /\ Goto(o, "failed")
  /\ temp' = [temp EXCEPT ![o] = "none"]
  /\ UNCHANGED <<model, ended, process, closing, stray, deaths, shared, lost>>

\* The rename; when it fails, a file that another owner has put there will do.
Rename(o) ==
  /\ pc[o] = "rename"
  /\ \/ model' = temp[o] /\ Goto(o, "launch")
     \/ /\ Goto(o, IF model \in {"absent", "empty"} THEN "failed" ELSE "launch")
        /\ UNCHANGED model
  /\ temp' = [temp EXCEPT ![o] = "none"]
  /\ UNCHANGED <<ended, process, closing, stray, deaths, shared, lost>>

---------------------------------------------------------------------------
(* The start of the child.                                                 *)

\* Other owners that are after the port: their child is, or they dial it.
Others(o) ==
  {p \in Owners \ {o} : child[p] \in Running \/ pc[p] \in {"dial", "wait"}}

\* newLlamaCPPLaunchConfig refuses the configuration, or the command starts, or
\* it does not.
Launch(o) ==
  /\ pc[o] = "launch"
  /\ \/ /\ Goto(o, "dial")
        /\ child' = [child EXCEPT ![o] = "booting"]
        /\ shared' = (shared \/ stray # "none" \/ Others(o) # {})
     \/ /\ Goto(o, "failed")
        /\ UNCHANGED <<child, shared>>
  /\ UNCHANGED <<model, temp, ended, cancelled, done, closing, stray, deaths, lost>>

\* Somebody answers at the port.
Answered == stray = "listening" \/ \E o \in Owners : child[o] = "listening"

\* waitForLlamaCPP dials before it looks at its context.
TakesAnything(o) ==
  /\ pc[o] = "dial"
  /\ Goto(o, "build")
  /\ UNCHANGED <<model, temp, ended, process, closing, stray, deaths, shared, lost>>
Dial(o) ==
  /\ pc[o] = "dial"
  /\ Goto(o, IF Answered THEN "build" ELSE "wait")
  /\ UNCHANGED <<model, temp, ended, process, closing, stray, deaths, shared, lost>>

\* Then it waits for the next tick or the end of the context; when both are
\* there, select takes either.
Retry(o) ==
  /\ pc[o] = "wait"
  /\ Goto(o, "dial")
  /\ UNCHANGED <<model, temp, ended, process, closing, stray, deaths, shared, lost>>
NeverGivesUp(o) == FALSE
GiveUp(o) ==
  /\ pc[o] = "wait"
  /\ ended[o]
  /\ Goto(o, "failing")
  /\ calls' = [calls EXCEPT ![o] = 1]
  /\ UNCHANGED <<model, temp, ended, process, once, stray, deaths, shared, lost>>

\* NewLlamaCPPEmbedder accepts the configuration, or the child is closed again.
Build(o) ==
  /\ pc[o] = "build"
  /\ \/ Goto(o, "up") /\ UNCHANGED calls
     \/ Goto(o, "failing") /\ calls' = [calls EXCEPT ![o] = 1]
  /\ UNCHANGED <<model, temp, ended, process, once, stray, deaths, shared, lost>>

\* The caller's context ends at any time before the start does, the startup
\* timeout while it dials.
ContextEnds(o) ==
  /\ pc[o] \in Getting \cup {"launch", "dial", "wait"}
  /\ ~ended[o]
  /\ ended' = [ended EXCEPT ![o] = TRUE]
  /\ UNCHANGED <<model, temp, pc, process, closing, stray, deaths, shared, lost>>

---------------------------------------------------------------------------
(* Close, by anybody who has the embedder, or by the start that failed.    *)

CallClose(o) ==
  /\ pc[o] = "up"
  /\ calls[o] < MaxClosers
  /\ calls' = [calls EXCEPT ![o] = @ + 1]
  /\ UNCHANGED <<model, temp, pc, ended, process, once, stray, deaths, shared, lost>>

\* The first caller cancels; the others wait for it inside of once.
CancelChild(o) ==
  /\ calls[o] > 0
  /\ once[o] = "free"
  /\ once' = [once EXCEPT ![o] = "held"]
  /\ cancelled' = [cancelled EXCEPT ![o] = TRUE]
  /\ UNCHANGED <<model, temp, pc, ended, child, done, calls, stray, deaths,
                 shared, lost>>
SkipsTheWait(o) ==
  /\ once[o] = "held"
  /\ once' = [once EXCEPT ![o] = "over"]
  /\ UNCHANGED <<model, temp, pc, ended, process, calls, stray, deaths, shared, lost>>
TakeDone(o) ==
  /\ once[o] = "held"
  /\ done[o]
  /\ done' = [done EXCEPT ![o] = FALSE]
  /\ once' = [once EXCEPT ![o] = "over"]
  /\ UNCHANGED <<model, temp, pc, ended, child, cancelled, calls, stray, deaths,
                 shared, lost>>

\* Close returns to one of its callers.
Returns(o) ==
  /\ calls' = [calls EXCEPT ![o] = @ - 1]
  /\ pc' = [pc EXCEPT ![o] = CASE @ = "up" -> "closed" [] @ = "failing" -> "failed"
                               [] OTHER -> @]
CloseReturns(o) ==
  /\ calls[o] > 0
  /\ once[o] = "over"
  /\ Returns(o)
  /\ UNCHANGED <<model, temp, ended, process, once, stray, deaths, shared, lost>>

---------------------------------------------------------------------------
(* The child, the goroutine that waits for it, and the deaths of owners.   *)

\* The child has read its model and takes the port; it ends if there is
\* something wrong with the one or somebody on the other.
Listen(o) ==
  /\ child[o] = "booting"
  /\ child' = [child EXCEPT ![o] =
       IF model = "whole" /\ ~Answered THEN "listening" ELSE "dead"]
  /\ UNCHANGED <<model, temp, pc, ended, cancelled, done, closing, stray, deaths,
                 shared, lost>>

\* A cancelled context kills it; it may also end by itself.
Die(o) ==
  /\ child[o] \in Running
  /\ child' = [child EXCEPT ![o] = "dead"]
  /\ lost' = IF cancelled[o] THEN lost ELSE lost \cup {o}
  /\ UNCHANGED <<model, temp, pc, ended, cancelled, done, closing, stray, deaths,
                 shared>>

\* cmd.Wait returns and its result goes to done, which has room for one.
Reap(o) ==
  /\ child[o] = "dead"
  /\ child' = [child EXCEPT ![o] = "reaped"]
  /\ done' = [done EXCEPT ![o] = TRUE]
  /\ UNCHANGED <<model, temp, pc, ended, cancelled, closing, stray, deaths,
                 shared, lost>>

\* The owner's process ends without its deferred calls; the child stays, and of
\* several strays only one can have the port.
OwnerDies(o) ==
  /\ pc[o] # "off"
  /\ deaths < MaxDeaths
  /\ deaths' = deaths + 1
  /\ Fresh(o, "off")
  /\ stray' = CASE "listening" \in {stray, child[o]} -> "listening"
                [] "booting" \in {stray, child[o]} -> "booting"
                [] OTHER -> "none"
  /\ temp' = [temp EXCEPT ![o] = "none"]
  /\ calls' = [calls EXCEPT ![o] = 0]
  /\ UNCHANGED <<model, shared>>

\* A stray takes the port or ends.
StrayStep ==
  /\ stray # "none"
  /\ \/ stray' = "none"
     \/ stray = "booting" /\ model = "whole" /\ ~Answered /\ stray' = "listening"
  /\ UNCHANGED <<model, temp, pc, ended, process, closing, deaths, shared, lost>>

StartStep(o) ==
  \/ Stat(o) \/ Rename(o) \/ Launch(o) \/ Dial(o) \/ Retry(o) \/ Build(o)
CloseStep(o) == CancelChild(o) \/ TakeDone(o) \/ CloseReturns(o)

Next ==
  \/ StrayStep
  \/ \E o \in Owners :
       \/ Begin(o) \/ StartStep(o) \/ Get(o) \/ Copy(o) \/ FailDownload(o)
       \/ GiveUp(o) \/ ContextEnds(o) \/ CallClose(o) \/ CloseStep(o)
       \/ Listen(o) \/ Die(o) \/ Reap(o) \/ OwnerDies(o)

\* The goroutines run, the startup timer fires, a child that is killed ends and
\* is waited for.  A download goes on for as long as its context allows.
\* Go's select picks among ready branches at random, so one that is ready again
\* and again is taken in the end.
Fairness ==
  \A o \in Owners :
    /\ WF_vars(StartStep(o)) /\ WF_vars(CloseStep(o))
    /\ WF_vars(pc[o] \in {"dial", "wait"} /\ ContextEnds(o))
    /\ WF_vars(ended[o] /\ FailDownload(o))
    /\ SF_vars(GiveUp(o))
    /\ WF_vars(cancelled[o] /\ Die(o))
    /\ WF_vars(Reap(o))

Spec == Init /\ [][Next]_vars /\ Fairness

---------------------------------------------------------------------------
(* Properties.                                                             *)

\* The types; a model file is never found half written, whoever downloads it at
\* the same time or dies while doing so.
TypeOK ==
  /\ model \in {"absent", "empty", "whole"}
  /\ temp \in [Owners -> {"none", "partial", "empty", "whole"}]
  /\ pc \in [Owners -> Steps]
  /\ ended \in [Owners -> BOOLEAN]
  /\ child \in [Owners -> Children]
  /\ cancelled \in [Owners -> BOOLEAN]
  /\ done \in [Owners -> BOOLEAN]
  /\ once \in [Owners -> {"free", "held", "over"}]
  /\ calls \in [Owners -> 0 .. MaxClosers]
  /\ stray \in {"none", "booting", "listening"}
  /\ deaths \in 0 .. MaxDeaths
  /\ shared \in BOOLEAN /\ lost \subseteq Owners

\* When a start has failed or a Close has returned, to any of its callers, the
\* child has ended and has been waited for.
NoChildLeft ==
  \A o \in Owners : pc[o] \in {"failed", "closed"} => child[o] \in {"none", "reaped"}

\* An embedder that is up and was not closed talks to the child it has started,
\* until that one ends, as long as nobody else is after its port.
OwnServer ==
  ~shared => \A o \in Owners :
    pc[o] \in {"build", "up"} /\ once[o] = "free" =>
      child[o] = "listening" \/ o \in lost

\* A start that needs no more of the download, or may not go on with it, or a
\* call of Close.
Busy(o) ==
  pc[o] \in Launching \/ (pc[o] \in Getting /\ ended[o]) \/ calls[o] > 0

\* A start ends once the model file is there or its context is over, and Close
\* returns to all of its callers, however the child ends.
EverythingReturns == \A o \in Owners : Busy(o) ~> ~Busy(o)

=============================================================================
