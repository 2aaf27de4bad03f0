------------------------------ MODULE QAStream ------------------------------
(***************************************************************************)
(* A question from the command line to the model and back.                 *)
(*                                                                         *)
(* Five parties hand each answer on: the provider's body of data lines, a  *)
(* goroutine of the model client that scans it (the producer), the HTTP    *)
(* handler that turns its events into server-sent events and at the end    *)
(* saves the turn as a memory, a goroutine of the CLI's client that scans  *)
(* those (the scanner), and the CLI itself.  Both channels between them    *)
(* are unbuffered, so a send and its receive are one step.                 *)
(*                                                                         *)
(* The text of an answer is the number of its deltas: everybody appends    *)
(* what comes next, so texts differ only in how far they go, and 0 is the  *)
(* blank answer.  The request context of the server is done once the       *)
(* handler has returned or the server has noticed that the client is gone. *)
(* How saveMemory succeeds or fails is the subject of MemoryStore.         *)
(***************************************************************************)
EXTENDS Integers, Sequences, FiniteSets, FiniteSetsExt

CONSTANTS
  MaxTurns,     \* bound: questions the user asks
  MaxLines,     \* bound: data lines of one answer
  MaxBeats,     \* bound: heartbeats during one answer
  MaxMessages,  \* messagesMaxCount
  MaxChars,     \* messagesMaxTotalChars; a question counts 1, a delta 1
  LineLimit     \* the longest answer whose finished event the scanner can read

Turns == 1 .. MaxTurns
NotSaved == 0

\* Server-sent events; "broken" is an error the scanner makes itself.
Kinds == {"none", "text", "error", "heartbeat", "warning", "finished", "broken"}
Event == [kind : Kinds, answer : 0 .. MaxLines, saved : BOOLEAN]
Plain(kind) == [kind |-> kind, answer |-> 0, saved |-> FALSE]

ASSUME QAAssumption ==
  /\ MaxTurns \in Nat \ {0} /\ MaxLines \in Nat /\ MaxBeats \in Nat
  /\ MaxMessages \in Nat /\ MaxChars \in Nat /\ LineLimit \in Nat

VARIABLES
  app,      \* what the CLI is doing
  turn,     \* the question it is at
  talk,     \* Conversation.messages: the turns after the system prompt
  stopped,  \* whether the CLI's context is done
  hpc,      \* the handler of each turn
  refused,  \* whether it answered with an error status
  answer,   \* its answerBuilder
  beats,    \* heartbeats it has sent
  saved,    \* the answer in the memory of the turn, or NotSaved
  ended,    \* whether its request context is done
  ppc,      \* the producer of each turn
  held,     \* the stream event it is sending
  lines,    \* data lines it has read
  body,     \* how the provider's body ended: with [DONE], broken off, bad, or
            \* stopped short because the request context was done
  wire,     \* server-sent events between the handler and the scanner
  linked,   \* whether the connection is up
  spc,      \* the scanner of each turn
  picked,   \* the event it is sending
  shown,    \* deltas the CLI has shown
  warned    \* whether the CLI has shown a warning

cli == <<app, turn, talk, stopped, shown, warned>>
handler == <<hpc, refused, answer, beats, saved, ended>>
producer == <<ppc, held, lines, body>>
link == <<wire, linked>>
scanner == <<spc, picked>>
vars == <<cli, handler, producer, link, scanner>>

All(x) == [t \in Turns |-> x]
Init ==
  /\ app = "prompt" /\ turn = 0 /\ talk = <<>> /\ stopped = FALSE
  /\ shown = All(0) /\ warned = All(FALSE)
  /\ hpc = All("none") /\ refused = All(FALSE) /\ answer = All(0)
  /\ beats = All(0) /\ saved = All(NotSaved) /\ ended = All(FALSE)
  /\ ppc = All("none") /\ held = All("none") /\ lines = All(0)
  /\ body = All("open")
  /\ wire = All(<<>>) /\ linked = All(TRUE)
  /\ spc = All("none") /\ picked = All(Plain("none"))

---------------------------------------------------------------------------
(* The CLI: Run, handleLine and answer.                                    *)

\* A question; a blank line does nothing.
Ask ==
  /\ app = "prompt"
  /\ ~stopped
  /\ turn < MaxTurns
  /\ turn' = turn + 1
  /\ app' = "connect"
  /\ UNCHANGED <<talk, stopped, shown, warned, handler, producer, link, scanner>>

Clear ==
  /\ app = "prompt"
  /\ ~stopped
  /\ talk' = <<>>
  /\ UNCHANGED <<app, turn, stopped, shown, warned, handler, producer, link,
                 scanner>>

\* exit, quit, the end of the input, or a context that is done.  The process
\* ends, and with it its connections.
Leave ==
  /\ app = "prompt"
  /\ app' = "exit"
  /\ linked' = All(FALSE)
  /\ UNCHANGED <<turn, talk, stopped, shown, warned, handler, producer, wire,
                 scanner>>

CtrlC ==
  /\ ~stopped
  /\ app # "exit"
  /\ stopped' = TRUE
  /\ UNCHANGED <<app, turn, talk, shown, warned, handler, producer, link, scanner>>

\* qaStreamRequest.validate of the system prompt, the conversation and the
\* question, all of them sent again every time.
Chars(turns) == MapThenSumSet(LAMBDA i : turns[i].answer + 1, DOMAIN turns)
NeverTooLong(turns) == FALSE
TooLong(turns) == 2 * Len(turns) + 2 > MaxMessages \/ Chars(turns) + 2 > MaxChars

\* StreamQA posts the request: the server is away, refuses it or takes it.
Connect ==
  /\ app = "connect"
  /\ \/ /\ app' = "prompt"
        /\ UNCHANGED <<hpc, refused, ended>>
     \/ /\ ~stopped
        /\ app' = "await"
        /\ hpc' = [hpc EXCEPT ![turn] = IF TooLong(talk) THEN "done" ELSE "model"]
        /\ refused' = [refused EXCEPT ![turn] = TooLong(talk)]
        /\ ended' = [ended EXCEPT ![turn] = TooLong(talk)]
  /\ UNCHANGED <<turn, talk, stopped, shown, warned, answer, beats, saved,
                 producer, link, scanner>>

\* The response arrives, or the connection or the context ends before it does.
GetResponse ==
  /\ app = "await"
  /\ \/ /\ hpc[turn] # "model"
        /\ ~refused[turn]
        /\ app' = "receive"
        /\ spc' = [spc EXCEPT ![turn] = "scan"]
        /\ UNCHANGED linked
     \/ /\ refused[turn] \/ stopped \/ ~linked[turn]
        /\ app' = "prompt"
        /\ linked' = [linked EXCEPT ![turn] = FALSE]
        /\ UNCHANGED spc
  /\ UNCHANGED <<turn, talk, stopped, shown, warned, handler, producer, wire,
                 picked>>

\* What a finished event adds to the conversation: its answer, or what was
\* shown when it has none, unless that is blank too.
AddsUnseen(event, t) == Append(talk, [turn |-> t, answer |-> event.answer + 1])
AddTurn(event, t) ==
  LET text == IF event.answer > 0 THEN event.answer ELSE shown[t]
  IN IF text = 0 THEN talk ELSE Append(talk, [turn |-> t, answer |-> text])

\* answer takes an event from the scanner.  An error ends the question and a
\* finished event completes it; the scanner stops after an error of its own
\* and reads on after anything the server sent.
TakeEvent ==
  LET event == picked[turn]
  IN /\ app = "receive"
     /\ spc[turn] = "send"
     /\ shown' = [shown EXCEPT ![turn] = IF event.kind = "text" THEN @ + 1 ELSE @]
     /\ warned' = [warned EXCEPT ![turn] = @ \/ event.kind = "warning"]
     /\ talk' = IF event.kind = "finished" THEN AddTurn(event, turn) ELSE talk
     /\ app' = IF event.kind \in {"finished", "error", "broken"} THEN "prompt"
               ELSE app
     /\ spc' = [spc EXCEPT ![turn] = IF event.kind = "broken" THEN "gone" ELSE "scan"]
     /\ picked' = [picked EXCEPT ![turn] = Plain("none")]
     /\ linked' = [linked EXCEPT ![turn] = @ /\ event.kind # "broken"]
     /\ UNCHANGED <<turn, stopped, handler, producer, wire>>

\* Writing the event to the terminal fails: the question ends with an error,
\* nothing is kept, and the scanner has nobody to read from it any more.  When
\* the error cannot be written either, Run returns, as it may from any prompt.
WriteFails ==
  /\ app = "receive"
  /\ spc[turn] = "send"
  /\ picked[turn].kind \in {"text", "warning", "finished"}
  /\ app' = "prompt"
  /\ spc' = [spc EXCEPT ![turn] = "scan"]
  /\ picked' = [picked EXCEPT ![turn] = Plain("none")]
  /\ UNCHANGED <<turn, talk, stopped, shown, warned, handler, producer, link>>

\* The scanner closed the channel and there was no finished event.
NoFinish ==
  /\ app = "receive"
  /\ spc[turn] = "gone"
  /\ app' = "prompt"
  /\ UNCHANGED <<turn, talk, stopped, shown, warned, handler, producer, link,
                 scanner>>

---------------------------------------------------------------------------
(* The scanner: streamEvents of the CLI's client.                          *)

\* It returns, and its deferred calls close the channel and the body.
ScannerReturns(t) ==
  /\ spc' = [spc EXCEPT ![t] = "gone"]
  /\ linked' = [linked EXCEPT ![t] = FALSE]
  /\ UNCHANGED picked

Pick(t, event) ==
  /\ spc' = [spc EXCEPT ![t] = "send"]
  /\ picked' = [picked EXCEPT ![t] = event]
  /\ UNCHANGED linked

\* The next event; heartbeats are dropped, and a line over the buffer's limit,
\* which the whole answer in a finished event may be, is an error.
ScanEvent(t) ==
  /\ spc[t] = "scan"
  /\ wire[t] # <<>>
  /\ wire' = [wire EXCEPT ![t] = Tail(@)]
  /\ LET event == Head(wire[t])
     IN \/ event.kind = "heartbeat" /\ UNCHANGED <<scanner, linked>>
        \/ event.answer > LineLimit /\ Pick(t, Plain("broken"))
        \/ /\ event.kind # "heartbeat" /\ event.answer <= LineLimit
           /\ Pick(t, event)
  /\ UNCHANGED <<cli, handler, producer>>

\* The body ends: cleanly once the handler has returned, broken otherwise.
ScanEnd(t) ==
  /\ spc[t] = "scan"
  /\ wire[t] = <<>>
  /\ \/ linked[t] /\ hpc[t] = "done" /\ ScannerReturns(t)
     \/ ~linked[t] /\ Pick(t, Plain("broken"))
  /\ UNCHANGED <<cli, handler, producer, wire>>

\* Every read and every send gives up when the CLI's context is done.
NeverStops(t) == FALSE
ScanGivesUp(t) == stopped /\ spc[t] \in {"scan", "send"}
ScanStop(t) ==
  /\ ScanGivesUp(t)
  /\ ScannerReturns(t)
  /\ UNCHANGED <<cli, handler, producer, wire>>

---------------------------------------------------------------------------
(* The handler: qaStream and persistQATurn.                                *)

\* The handler returns, and net/http ends the request context.
Return(t) ==
  /\ hpc' = [hpc EXCEPT ![t] = "done"]
  /\ ended' = [ended EXCEPT ![t] = TRUE]

\* writeSSE, and where the handler goes on.  Once the connection is down the
\* event is lost, and the write may fail or not.
WriteSSE(t, event, next) ==
  \/ /\ wire' = [wire EXCEPT ![t] = IF linked[t] THEN Append(@, event) ELSE @]
     /\ IF next = "done" THEN Return(t)
        ELSE hpc' = [hpc EXCEPT ![t] = next] /\ UNCHANGED ended
  \/ ~linked[t] /\ Return(t) /\ UNCHANGED wire

\* modelStreamer.Stream: an error status, or the headers of the event stream.
CallModel(t) ==
  /\ hpc[t] = "model"
  /\ \/ Return(t) /\ refused' = [refused EXCEPT ![t] = TRUE] /\ UNCHANGED ppc
     \/ /\ ~ended[t]
        /\ hpc' = [hpc EXCEPT ![t] = "loop"]
        /\ ppc' = [ppc EXCEPT ![t] = "scan"]
        /\ UNCHANGED <<refused, ended>>
  /\ UNCHANGED <<cli, answer, beats, saved, held, lines, body, link, scanner>>

\* answerBuilder.WriteString of one delta.
WritesTwice(text) == text + 2
WriteDelta(text) == text + 1

\* An event of the stream, taken from the producer.
TakeDelta(t) ==
  /\ hpc[t] = "loop"
  /\ ppc[t] = "send"
  /\ \/ /\ held[t] = "error"
        /\ WriteSSE(t, Plain("error"), "done")
        /\ ppc' = [ppc EXCEPT ![t] = "gone"]
        /\ UNCHANGED answer
     \/ /\ held[t] = "text"
        /\ answer' = [answer EXCEPT ![t] = WriteDelta(@)]
        /\ WriteSSE(t, Plain("text"), "loop")
        /\ ppc' = [ppc EXCEPT ![t] = "scan"]
     \/ /\ held[t] = "other"
        /\ ppc' = [ppc EXCEPT ![t] = "scan"]
        /\ UNCHANGED <<hpc, ended, answer, wire>>
  /\ held' = [held EXCEPT ![t] = "none"]
  /\ UNCHANGED <<cli, refused, beats, saved, lines, body, linked, scanner>>

\* The stream is closed: a blank answer is not saved.
StreamClosed(t) ==
  /\ hpc[t] = "loop"
  /\ ppc[t] = "gone"
  /\ hpc' = [hpc EXCEPT ![t] = IF answer[t] = 0 THEN "finish" ELSE "embed"]
  /\ UNCHANGED <<cli, refused, answer, beats, saved, ended, producer, link, scanner>>

\* The request context is done; when the stream is closed too, select takes
\* either branch.
ContextDone(t) ==
  /\ hpc[t] = "loop"
  /\ ended[t]
  /\ Return(t)
  /\ UNCHANGED <<cli, refused, answer, beats, saved, producer, link, scanner>>

Heartbeat(t) ==
  /\ hpc[t] = "loop"
  /\ beats[t] < MaxBeats
  /\ beats' = [beats EXCEPT ![t] = @ + 1]
  /\ WriteSSE(t, Plain("heartbeat"), "loop")
  /\ UNCHANGED <<cli, refused, answer, saved, producer, linked, scanner>>

\* A failure to embed or to save is a warning, and the turn goes on.
SaysNothing(t) == hpc' = [hpc EXCEPT ![t] = "finish"] /\ UNCHANGED <<wire, ended>>
Warn(t) == WriteSSE(t, Plain("warning"), "finish")

\* The embedder looks at the context before it starts.
NeverLooks(t) == TRUE
ContextAlive(t) == ~ended[t]
Embed(t) ==
  /\ hpc[t] = "embed"
  /\ \/ /\ ContextAlive(t)
        /\ hpc' = [hpc EXCEPT ![t] = "save"]
        /\ UNCHANGED <<wire, ended>>
     \/ Warn(t)
  /\ UNCHANGED <<cli, refused, answer, beats, saved, producer, linked, scanner>>

\* saveMemory looks at no context.
Save(t) ==
  /\ hpc[t] = "save"
  /\ \/ /\ saved' = [saved EXCEPT ![t] = answer[t]]
        /\ hpc' = [hpc EXCEPT ![t] = "finish"]
        /\ UNCHANGED <<wire, ended>>
     \/ Warn(t) /\ UNCHANGED saved
  /\ UNCHANGED <<cli, refused, answer, beats, producer, linked, scanner>>

Finish(t) ==
  /\ hpc[t] = "finish"
  /\ WriteSSE(t, [kind |-> "finished", answer |-> answer[t],
                  saved |-> saved[t] # NotSaved], "done")
  /\ UNCHANGED <<cli, refused, answer, beats, saved, producer, linked, scanner>>

---------------------------------------------------------------------------
(* The producer: the goroutine of OpenAICompatibleClient.Stream.           *)

\* The next data line: a delta of text, something without text (a tool call,
\* usage, a finish reason), or data that does not decode.
ScanLine(t) ==
  /\ ppc[t] = "scan"
  /\ lines[t] < MaxLines
  /\ lines' = [lines EXCEPT ![t] = @ + 1]
  /\ ppc' = [ppc EXCEPT ![t] = "send"]
  /\ \E what \in {"text", "other", "error"} :
       /\ held' = [held EXCEPT ![t] = what]
       /\ body' = [body EXCEPT ![t] = IF what = "error" THEN "bad" ELSE @]
  /\ UNCHANGED <<cli, handler, link, scanner>>

\* The last line, [DONE]; or the scan stops at the end of the body, a line over
\* its limit, a lost connection or the client's timeout, or at a context that is
\* done.  scanner.Err is not looked at, so all of them close the channel alike.
BodyEnds(t) ==
  /\ ppc[t] = "scan"
  /\ ppc' = [ppc EXCEPT ![t] = "gone"]
  /\ \E how \in {"done", "cut"} \cup (IF ended[t] THEN {"stopped"} ELSE {}) :
       body' = [body EXCEPT ![t] = how]
  /\ UNCHANGED <<cli, handler, held, lines, link, scanner>>

\* The send of an event gives up with the request context; the send of an error
\* does not.
WaitsForever(t) == FALSE
SendGivesUp(t) == ended[t] /\ held[t] # "error"
ProducerStop(t) ==
  /\ ppc[t] = "send"
  /\ SendGivesUp(t)
  /\ ppc' = [ppc EXCEPT ![t] = "gone"]
  /\ held' = [held EXCEPT ![t] = "none"]
  /\ body' = [body EXCEPT ![t] = "stopped"]
  /\ UNCHANGED <<cli, handler, lines, link, scanner>>

---------------------------------------------------------------------------
(* The network.                                                            *)

\* The connection breaks, and events on their way may be lost.
Drop(t) ==
  /\ hpc[t] # "none"
  /\ linked[t]
  /\ linked' = [linked EXCEPT ![t] = FALSE]
  /\ \E n \in 0 .. Len(wire[t]) : wire' = [wire EXCEPT ![t] = SubSeq(@, 1, n)]
  /\ UNCHANGED <<cli, handler, producer, scanner>>

\* The server's background read finds that the client is gone.
Notice(t) ==
  /\ hpc[t] # "none"
  /\ ~linked[t]
  /\ ~ended[t]
  /\ ended' = [ended EXCEPT ![t] = TRUE]
  /\ UNCHANGED <<cli, hpc, refused, answer, beats, saved, producer, link, scanner>>

CliStep == Connect \/ GetResponse \/ TakeEvent \/ NoFinish \/ (stopped /\ Leave)
HandlerStep(t) ==
  \/ CallModel(t) \/ TakeDelta(t) \/ StreamClosed(t) \/ ContextDone(t)
  \/ Embed(t) \/ Save(t) \/ Finish(t)
ProducerStep(t) == ScanLine(t) \/ BodyEnds(t) \/ ProducerStop(t)
ScannerStep(t) == ScanEvent(t) \/ ScanEnd(t) \/ ScanStop(t)

Next ==
  \/ Ask \/ Clear \/ Leave \/ CtrlC \/ CliStep \/ WriteFails
  \/ \E t \in Turns :
       \/ HandlerStep(t) \/ Heartbeat(t) \/ ProducerStep(t) \/ ScannerStep(t)
       \/ Drop(t) \/ Notice(t)

\* The goroutines of the CLI run, and a CLI that is stopped leaves its prompt.
\* Nothing is assumed of the server here: it may hang with its connections open,
\* and the CLI's http.Client has no timeout.
ClientFairness ==
  WF_vars(CliStep) /\ \A t \in Turns : WF_vars(ScannerStep(t))

\* The goroutines of the server run.  The model client's http.Client always has
\* a timeout, which covers its body: a call, and a scan, of a model that hangs
\* fails in the end.  net/http reads in the background and finds out about a
\* lost client.
ServerFairness ==
  \A t \in Turns :
    WF_vars(HandlerStep(t)) /\ WF_vars(ProducerStep(t)) /\ WF_vars(Notice(t))

Spec == Init /\ [][Next]_vars /\ ClientFairness

---------------------------------------------------------------------------
(* Properties.                                                             *)

TypeOK ==
  /\ app \in {"prompt", "connect", "await", "receive", "exit"}
  /\ turn \in 0 .. MaxTurns
  /\ talk \in Seq([turn : Turns, answer : 1 .. MaxLines])
  /\ stopped \in BOOLEAN
  /\ shown \in [Turns -> 0 .. MaxLines] /\ warned \in [Turns -> BOOLEAN]
  /\ hpc \in [Turns -> {"none", "model", "loop", "embed", "save", "finish", "done"}]
  /\ refused \in [Turns -> BOOLEAN]
  /\ answer \in [Turns -> 0 .. MaxLines]
  /\ beats \in [Turns -> 0 .. MaxBeats]
  /\ saved \in [Turns -> 0 .. MaxLines]
  /\ ended \in [Turns -> BOOLEAN]
  /\ ppc \in [Turns -> {"none", "scan", "send", "gone"}]
  /\ held \in [Turns -> {"none", "text", "other", "error"}]
  /\ lines \in [Turns -> 0 .. MaxLines]
  /\ body \in [Turns -> {"open", "done", "cut", "bad", "stopped"}]
  /\ wire \in [Turns -> Seq(Event)] /\ linked \in [Turns -> BOOLEAN]
  /\ spc \in [Turns -> {"none", "scan", "send", "gone"}]
  /\ picked \in [Turns -> Event]

Kept == {talk[i] : i \in DOMAIN talk}

\* A turn that enters the conversation, and that every later request repeats to
\* the model, is what the user was shown and what the server collected, through
\* two goroutines, a connection that may break and a text that is sent twice.
TalkFaithful ==
  \A k \in Kept : k.answer = shown[k.turn] /\ k.answer = answer[k.turn]

\* A turn that is kept but is not a memory came with a warning that the user
\* has seen: no failure of embedding or saving passes in silence.
UnsavedIsWarned ==
  \A k \in Kept : saved[k.turn] = k.answer \/ warned[k.turn]

\* Nothing is saved or kept of an answer whose stream carried an error, nor of
\* one that was stopped because its client was gone: when the context is done
\* and the stream is closed, select may take the closed stream and go on to
\* persistQATurn, where only the embedder is left to refuse the part of it.
BadStreamEnds ==
  \A t \in Turns : body[t] \in {"bad", "stopped"} =>
    saved[t] = NotSaved /\ \A k \in Kept : k.turn # t

\* The conversation never outgrows what the server takes by more than the turn
\* that filled it, however questions fail, repeat or clear it in between.
TalkBounded == 2 * Len(talk) <= MaxMessages

\* "expected no finished event on stream error": an answer that broke off is
\* not reported as finished.
FinishedIsWhole == \A k \in Kept : body[k.turn] = "done"

\* After Ctrl-C the CLI exits from every point where it may be waiting, whatever
\* the server, the model and the connection do, a server that hangs included.
CtrlCExits == stopped ~> app = "exit"

\* On a server that runs, every request that reached the model ends: the handler
\* returns, and so does the producer, unless it holds an error for a handler
\* that is gone, which it sends without a look at the context.
TurnsEnd ==
  ServerFairness => \A t \in Turns : hpc[t] = "model" ~>
    hpc[t] = "done" /\ (ppc[t] \in {"none", "gone"} \/ held[t] = "error")

=============================================================================
