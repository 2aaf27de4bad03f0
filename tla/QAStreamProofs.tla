--------------------------- MODULE QAStreamProofs ---------------------------
(***************************************************************************)
(* Proofs about QAStream, for any number of questions, answers of any      *)
(* length and any limits.                                                  *)
(*                                                                         *)
(* Texts are counted along the stream: what the CLI has shown, what the    *)
(* scanner holds and what is on the wire add up to the answer the handler  *)
(* has built, as long as the connection is up, and to a part of it after.  *)
(* A finished event stands behind all of its text, and behind the warning  *)
(* if the answer was not saved.                                            *)
(***************************************************************************)
EXTENDS QAStream, TLAPS

---------------------------------------------------------------------------
(* Counting texts.                                                         *)

IsText(event) == IF event.kind = "text" THEN 1 ELSE 0

\* f counts, from what it starts with, the texts of a sequence of events.
Tally(f, events) ==
  /\ f \in [0 .. Len(events) -> Nat]
  /\ \A i \in 1 .. Len(events) : f[i] = f[i - 1] + IsText(events[i])
  /\ \A i, j \in 0 .. Len(events) : i <= j => f[i] <= f[j]

\* Texts that the scanner has taken off the wire and not handed on.
Ahead(t) == IF spc[t] = "send" THEN IsText(picked[t]) ELSE 0

\* The texts shown, picked and on the wire are the answer, or its beginning.
Adds(f, t) ==
  /\ Tally(f, wire[t])
  /\ f[0] = shown[t] + Ahead(t)
  /\ f[Len(wire[t])] <= answer[t]
  /\ linked[t] => f[Len(wire[t])] = answer[t]
  /\ \A i \in 1 .. Len(wire[t]) : wire[t][i].kind = "finished" =>
       wire[t][i].answer = answer[t] /\ f[i] = answer[t]

---------------------------------------------------------------------------
(* The invariant.                                                          *)

\* What the answer and its parts are bounded by.
BoundInv ==
  \A t \in Turns :
    /\ answer[t] + (IF ppc[t] = "send" /\ held[t] = "text" THEN 1 ELSE 0) <= lines[t]
    /\ shown[t] <= answer[t]

\* A question that is not asked yet, or not sent.
Future(t) == t > turn \/ (t = turn /\ app = "connect")
EarlyInv ==
  \A t \in Turns :
    /\ Future(t) => /\ hpc[t] = "none" /\ wire[t] = <<>> /\ spc[t] = "none"
                    /\ shown[t] = 0
    /\ hpc[t] \in {"none", "model"} =>
         ppc[t] = "none" /\ body[t] = "open" /\ answer[t] = 0
    /\ t = turn /\ app = "await" => spc[t] = "none"

\* Only a finished event has an answer, and the handler returns with it.
HasFinished(t) ==
  \/ picked[t].kind = "finished"
  \/ \E i \in 1 .. Len(wire[t]) : wire[t][i].kind = "finished"
FinishedInv ==
  \A t \in Turns :
    /\ HasFinished(t) => hpc[t] = "done"
    /\ \A i \in 1 .. Len(wire[t]) :
         wire[t][i].kind # "finished" => wire[t][i].answer = 0

\* An answer that got past the loop of the handler had a stream without error.
Completed(t) ==
  \/ hpc[t] \in {"embed", "save", "finish"} \/ saved[t] # NotSaved
  \/ HasFinished(t) \/ \E k \in Kept : k.turn = t
EndInv ==
  \A t \in Turns :
    /\ hpc[t] = "loop" /\ body[t] = "bad" => ppc[t] = "send" /\ held[t] = "error"
    /\ Completed(t) => ppc[t] = "gone" /\ body[t] # "bad"

\* A request context ends with its handler or with a connection that is down,
\* so of an answer that was stopped for it no finished event gets through, and
\* nothing is saved after the embedder has looked.
StopInv ==
  \A t \in Turns :
    /\ ended[t] => hpc[t] = "done" \/ ~linked[t]
    /\ body[t] = "stopped" =>
         /\ ended[t] /\ hpc[t] # "save" /\ saved[t] = NotSaved
         /\ ~HasFinished(t) /\ \A k \in Kept : k.turn # t

\* The CLI waits for events of this question.
Live == app \in {"await", "receive"} /\ spc[turn] # "gone"

CountInv == Live => \E f \in [0 .. Len(wire[turn]) -> Nat] : Adds(f, turn)

\* The turn is saved, or a warning is on the way, at most n events off.
SavedOrSeen(t) == answer[t] = 0 \/ saved[t] = answer[t] \/ warned[t]
Told(t, n) ==
  \/ SavedOrSeen(t)
  \/ spc[t] = "send" /\ picked[t].kind = "warning"
  \/ \E j \in 1 .. n : wire[t][j].kind = "warning"
Warns(t) ==
  /\ hpc[t] = "finish" /\ linked[t] => Told(t, Len(wire[t]))
  /\ \A i \in 1 .. Len(wire[t]) : wire[t][i].kind = "finished" => Told(t, i - 1)
  /\ spc[t] = "send" /\ picked[t].kind = "finished" =>
       SavedOrSeen(t) /\ picked[t].answer = answer[t] /\ shown[t] = answer[t]
WarnInv == Live => Warns(turn)

\* A turn that is kept is over for everybody.
KeptInv ==
  \A k \in Kept :
    /\ k.turn < turn \/ (k.turn = turn /\ app \in {"prompt", "exit"})
    /\ hpc[k.turn] = "done"
    /\ k.answer = answer[k.turn] /\ k.answer = shown[k.turn]
    /\ saved[k.turn] = k.answer \/ warned[k.turn]

\* There is room for the turn that is on its way.
Room == 2 * Len(talk) + 2 <= MaxMessages
RoomInv ==
  /\ TalkBounded
  /\ app = "await" => refused[turn] \/ Room
  /\ app = "receive" => Room

\* There is a turn whenever the CLI is at one.
TurnInv == app \in {"connect", "await", "receive"} => turn \in Turns

IInv ==
  /\ TypeOK /\ BoundInv /\ EarlyInv /\ FinishedInv /\ EndInv /\ StopInv
  /\ CountInv /\ WarnInv /\ KeptInv /\ RoomInv /\ TurnInv

---------------------------------------------------------------------------
(* Lemmas about sequences of events.                                       *)

\* An event sent is counted at the end.
LEMMA TallyAppend ==
  ASSUME NEW events \in Seq(Event), NEW event \in Event, NEW f, Tally(f, events)
  PROVE  \E g \in [0 .. Len(events) + 1 -> Nat] :
           /\ Tally(g, Append(events, event))
           /\ \A i \in 0 .. Len(events) : g[i] = f[i]
           /\ g[Len(events) + 1] = f[Len(events)] + IsText(event)
<1> DEFINE n == Len(events)
           g == [i \in 0 .. n + 1 |-> IF i <= n THEN f[i] ELSE f[n] + IsText(event)]
           longer == Append(events, event)
<1>1. n \in Nat /\ f \in [0 .. n -> Nat] /\ IsText(event) \in {0, 1}
  BY DEF Tally, IsText
<1>2. g \in [0 .. n + 1 -> Nat] /\ \A i \in 0 .. n : g[i] = f[i]
  BY <1>1
<1>3. g[n + 1] = f[n] + IsText(event)
  BY <1>1
<1>4. Len(longer) = n + 1 /\ longer[n + 1] = event /\ \A i \in 1 .. n : longer[i] = events[i]
  OBVIOUS
<1>5. ASSUME NEW i \in 1 .. n + 1 PROVE g[i] = g[i - 1] + IsText(longer[i])
  <2>1. CASE i <= n
    BY <1>1, <1>2, <1>4, <2>1 DEF Tally
  <2>2. CASE i = n + 1
    BY <1>1, <1>2, <1>3, <1>4, <2>2
  <2> QED BY <1>1, <2>1, <2>2
<1>6. ASSUME NEW i \in 0 .. n + 1, NEW j \in 0 .. n + 1, i <= j PROVE g[i] <= g[j]
  <2>1. CASE j <= n
    BY <1>1, <1>2, <1>6, <2>1 DEF Tally
  <2>2. CASE j = n + 1 /\ i <= n
    <3>1. f[i] <= f[n] /\ f[i] \in Nat /\ f[n] \in Nat
      BY <1>1, <2>2 DEF Tally
    <3> QED BY <1>1, <1>2, <1>3, <2>2, <3>1
  <2>3. CASE i = n + 1 /\ j = n + 1
    BY <1>1, <1>2, <2>3
  <2> QED BY <1>1, <1>6, <2>1, <2>2, <2>3
<1> HIDE DEF g
<1>7. Tally(g, longer)
  BY <1>2, <1>4, <1>5, <1>6 DEF Tally
<1> QED BY <1>2, <1>3, <1>7

\* The count goes on behind an event that is taken off.
LEMMA TallyTail ==
  ASSUME NEW events \in Seq(Event), events # <<>>, NEW f, Tally(f, events)
  PROVE  \E g \in [0 .. Len(events) - 1 -> Nat] :
           /\ Tally(g, Tail(events))
           /\ \A i \in 0 .. Len(events) - 1 : g[i] = f[i + 1]
<1> DEFINE n == Len(events)
           g == [i \in 0 .. n - 1 |-> f[i + 1]]
<1>1. n \in Nat \ {0} /\ f \in [0 .. n -> Nat]
  BY DEF Tally
<1>2. g \in [0 .. n - 1 -> Nat] /\ \A i \in 0 .. n - 1 : g[i] = f[i + 1]
  BY <1>1
<1>3. Len(Tail(events)) = n - 1 /\ \A i \in 1 .. n - 1 : Tail(events)[i] = events[i + 1]
  OBVIOUS
<1> HIDE DEF g
<1>4. ASSUME NEW i \in 1 .. n - 1 PROVE g[i] = g[i - 1] + IsText(Tail(events)[i])
  <2>1. f[i + 1] = f[i] + IsText(events[i + 1])
    BY <1>1 DEF Tally
  <2>2. g[i] = f[i + 1] /\ g[i - 1] = f[i]
    BY <1>1, <1>2
  <2> QED BY <1>3, <2>1, <2>2
<1>5. ASSUME NEW i \in 0 .. n - 1, NEW j \in 0 .. n - 1, i <= j PROVE g[i] <= g[j]
  BY <1>1, <1>2, <1>5 DEF Tally
<1>6. Tally(g, Tail(events))
  BY <1>2, <1>3, <1>4, <1>5 DEF Tally
<1> QED BY <1>2, <1>6

\* Events that a broken connection loses are the last ones.
LEMMA TallyPrefix ==
  ASSUME NEW events \in Seq(Event), NEW f, Tally(f, events), NEW n \in 0 .. Len(events)
  PROVE  \E g \in [0 .. n -> Nat] :
           /\ Tally(g, SubSeq(events, 1, n))
           /\ \A i \in 0 .. n : g[i] = f[i]
<1> DEFINE g == [i \in 0 .. n |-> f[i]]
<1>1. Len(events) \in Nat /\ n \in Nat /\ n <= Len(events) /\ f \in [0 .. Len(events) -> Nat]
  BY DEF Tally
<1>2. g \in [0 .. n -> Nat] /\ \A i \in 0 .. n : g[i] = f[i]
  BY <1>1
<1>3. /\ Len(SubSeq(events, 1, n)) = n
      /\ \A i \in 1 .. n : SubSeq(events, 1, n)[i] = events[i]
  BY <1>1
<1> HIDE DEF g
<1>4. \A i \in 1 .. n : g[i] = g[i - 1] + IsText(SubSeq(events, 1, n)[i])
  BY <1>1, <1>2, <1>3 DEF Tally
<1>5. \A i, j \in 0 .. n : i <= j => g[i] <= g[j]
  BY <1>1, <1>2 DEF Tally
<1>6. Tally(g, SubSeq(events, 1, n))
  BY <1>2, <1>3, <1>4, <1>5 DEF Tally
<1> QED BY <1>2, <1>6

USE QAAssumption

\* The invariants hold before the first question.
LEMMA IInvInit == Init => IInv
<1> SUFFICES ASSUME Init PROVE IInv
  OBVIOUS
<1>1. Plain("none") \in Event /\ Plain("none").kind = "none"
  BY DEF Plain, Event, Kinds
<1>2. wire \in [Turns -> Seq(Event)] /\ \A t \in Turns : wire[t] = <<>>
  BY DEF Init, All
<1>3. TypeOK
  <2>1. /\ shown \in [Turns -> 0 .. MaxLines] /\ answer \in [Turns -> 0 .. MaxLines]
        /\ saved \in [Turns -> 0 .. MaxLines] /\ lines \in [Turns -> 0 .. MaxLines]
        /\ beats \in [Turns -> 0 .. MaxBeats] /\ turn \in 0 .. MaxTurns
    BY DEF Init, All, NotSaved
  <2>2. /\ warned \in [Turns -> BOOLEAN] /\ refused \in [Turns -> BOOLEAN]
        /\ ended \in [Turns -> BOOLEAN] /\ linked \in [Turns -> BOOLEAN]
        /\ picked \in [Turns -> Event]
    BY <1>1 DEF Init, All
  <2>3. /\ hpc \in [Turns -> {"none", "model", "loop", "embed", "save", "finish", "done"}]
        /\ ppc \in [Turns -> {"none", "scan", "send", "gone"}]
        /\ held \in [Turns -> {"none", "text", "other", "error"}]
        /\ body \in [Turns -> {"open", "done", "cut", "bad", "stopped"}]
        /\ spc \in [Turns -> {"none", "scan", "send", "gone"}]
    BY DEF Init, All
  <2>4. app = "prompt" /\ stopped = FALSE /\ talk = <<>>
    BY DEF Init
  <2>5. talk \in Seq([turn : Turns, answer : 1 .. MaxLines])
    BY <2>4
  <2> QED BY <1>2, <2>1, <2>2, <2>3, <2>4, <2>5 DEF TypeOK
<1>4. Kept = {} /\ \A t \in Turns : ~HasFinished(t)
  BY <1>1, <1>2 DEF Init, All, Kept, HasFinished
<1>5. BoundInv /\ EarlyInv
  BY DEF Init, All, BoundInv, EarlyInv
<1>6. FinishedInv /\ EndInv /\ StopInv
  BY <1>2, <1>4 DEF Init, All, FinishedInv, EndInv, StopInv, Completed
<1>7. CountInv /\ WarnInv /\ KeptInv /\ TurnInv
  BY <1>4 DEF Init, CountInv, WarnInv, KeptInv, TurnInv, Live
<1>8. RoomInv
  BY DEF Init, RoomInv, TalkBounded
<1> QED BY <1>3, <1>5, <1>6, <1>7, <1>8 DEF IInv

---------------------------------------------------------------------------
(* What steps do to the types.                                             *)

\* An event that is written goes on the wire of its turn while the connection is
\* up, and the handler goes on; else it is lost, and the handler may end.
Written(t, event, next) ==
  /\ wire' = [wire EXCEPT ![t] = IF linked[t] THEN Append(@, event) ELSE @]
  /\ hpc' = [hpc EXCEPT ![t] = next] \/ (~linked[t] /\ hpc' = [hpc EXCEPT ![t] = "done"])
  /\ ended' = ended \/ ended' = [ended EXCEPT ![t] = TRUE]
LEMMA Writing ==
  ASSUME TypeOK, NEW t \in Turns, NEW event, NEW next, WriteSSE(t, event, next)
  PROVE  Written(t, event, next)
<1>1. wire' = [wire EXCEPT ![t] = IF linked[t] THEN Append(@, event) ELSE @]
  BY DEF WriteSSE, TypeOK
<1>2. hpc' = [hpc EXCEPT ![t] = next] \/ (~linked[t] /\ hpc' = [hpc EXCEPT ![t] = "done"])
  BY DEF WriteSSE, Return
<1>3. ended' = ended \/ ended' = [ended EXCEPT ![t] = TRUE]
  BY DEF WriteSSE, Return
<1> QED BY <1>1, <1>2, <1>3 DEF Written

\* Events that are written are events.
LEMMA WriteTypes ==
  ASSUME TypeOK, NEW t \in Turns
  PROVE  \A event \in Event, next \in {"loop", "finish", "done"} :
           WriteSSE(t, event, next) =>
             /\ wire' \in [Turns -> Seq(Event)] /\ ended' \in [Turns -> BOOLEAN]
             /\ hpc' \in [Turns -> {"none", "model", "loop", "embed", "save", "finish",
                                    "done"}]
<1> SUFFICES ASSUME NEW event \in Event, NEW next \in {"loop", "finish", "done"},
                    WriteSSE(t, event, next)
             PROVE  /\ wire' \in [Turns -> Seq(Event)] /\ ended' \in [Turns -> BOOLEAN]
                    /\ hpc' \in [Turns -> {"none", "model", "loop", "embed", "save",
                                           "finish", "done"}]
  OBVIOUS
<1>1. Written(t, event, next)
  BY Writing
<1>2. /\ wire \in [Turns -> Seq(Event)] /\ ended \in [Turns -> BOOLEAN]
      /\ hpc \in [Turns -> {"none", "model", "loop", "embed", "save", "finish", "done"}]
  BY DEF TypeOK
<1>3. Append(wire[t], event) \in Seq(Event)
  BY <1>2
<1>4. wire' \in [Turns -> Seq(Event)]
  BY <1>1, <1>2, <1>3 DEF Written
<1> QED BY <1>1, <1>2, <1>4 DEF Written

\* Events that are made on the way have no answer.
LEMMA PlainTypes ==
  \A kind \in Kinds : /\ Plain(kind) \in Event /\ Plain(kind).kind = kind
                      /\ Plain(kind).answer = 0
BY DEF Plain, Event

\* What is picked and what is next on the wire is an event.
LEMMA EventTypes ==
  ASSUME TypeOK, NEW t \in Turns
  PROVE  /\ picked[t] \in Event /\ picked[t].kind \in Kinds
         /\ picked[t].answer \in 0 .. MaxLines
         /\ wire[t] \in Seq(Event) /\ Len(wire[t]) \in Nat
         /\ \A i \in 1 .. Len(wire[t]) : /\ wire[t][i] \in Event
                                         /\ wire[t][i].kind \in Kinds
                                         /\ wire[t][i].answer \in 0 .. MaxLines
         /\ wire[t] # <<>> => /\ Head(wire[t]) = wire[t][1] /\ Len(wire[t]) >= 1
                              /\ Tail(wire[t]) \in Seq(Event)
                              /\ Len(Tail(wire[t])) = Len(wire[t]) - 1
                              /\ \A i \in 1 .. Len(wire[t]) - 1 :
                                   Tail(wire[t])[i] = wire[t][i + 1]
<1>1. picked[t] \in Event /\ wire[t] \in Seq(Event)
  BY DEF TypeOK
<1>2. \A event \in Event : event.kind \in Kinds /\ event.answer \in 0 .. MaxLines
  BY DEF Event
<1>3. \A i \in 1 .. Len(wire[t]) : wire[t][i] \in Event
  BY <1>1
<1>4. wire[t] # <<>> => /\ Head(wire[t]) = wire[t][1] /\ Len(wire[t]) >= 1
                        /\ Tail(wire[t]) \in Seq(Event)
                        /\ Len(Tail(wire[t])) = Len(wire[t]) - 1
                        /\ \A i \in 1 .. Len(wire[t]) - 1 :
                             Tail(wire[t])[i] = wire[t][i + 1]
  BY <1>1
<1> QED BY <1>1, <1>2, <1>3, <1>4

\* A text in the hands of the scanner is part of the answer.
LEMMA TextIsMore ==
  ASSUME TypeOK, CountInv, Live, turn \in Turns
  PROVE  shown[turn] + Ahead(turn) <= answer[turn]
<1>1. PICK f \in [0 .. Len(wire[turn]) -> Nat] : Adds(f, turn)
  BY DEF CountInv
<1>2. f[0] = shown[turn] + Ahead(turn) /\ f[Len(wire[turn])] <= answer[turn]
  BY <1>1 DEF Adds
<1>3. Len(wire[turn]) \in Nat
  BY EventTypes
<1>4. f[0] <= f[Len(wire[turn])] /\ f[0] \in Nat /\ f[Len(wire[turn])] \in Nat
  BY <1>1, <1>3 DEF Adds, Tally
<1>5. answer[turn] \in Nat
  BY DEF TypeOK
<1> QED BY <1>2, <1>4, <1>5

\* The steps of the CLI keep the types.
LEMMA CliTypes ==
  ASSUME TypeOK, BoundInv, EarlyInv, CountInv, WarnInv, TurnInv,
         Ask \/ Clear \/ Leave \/ CtrlC \/ CliStep \/ WriteFails
  PROVE  TypeOK'
<1> USE DEF TypeOK, cli, handler, producer, link, scanner
<1>1. CASE Ask
  BY <1>1 DEF Ask
<1>2. CASE Clear
  <2>1. talk' = <<>> /\ talk' \in Seq([turn : Turns, answer : 1 .. MaxLines])
    BY <1>2 DEF Clear
  <2> QED BY <1>2, <2>1 DEF Clear
<1>3. CASE Leave
  BY <1>3 DEF Leave, All
<1>4. CASE CtrlC
  BY <1>4 DEF CtrlC
<1>5. CASE Connect
  <2>1. CASE UNCHANGED <<hpc, refused, ended>> /\ app' = "prompt"
    BY <1>5, <2>1 DEF Connect
  <2>2. ASSUME NEW long \in BOOLEAN, app' = "await",
               hpc' = [hpc EXCEPT ![turn] = IF long THEN "done" ELSE "model"],
               refused' = [refused EXCEPT ![turn] = long],
               ended' = [ended EXCEPT ![turn] = long]
        PROVE  TypeOK'
    BY <1>5, <2>2 DEF Connect
  <2>3. TooLong(talk) \in BOOLEAN
    BY DEF TooLong
  <2> QED BY <1>5, <2>1, <2>2, <2>3 DEF Connect
<1>6. CASE GetResponse
  BY <1>6 DEF GetResponse
<1>7. CASE TakeEvent
  <2>1. /\ app = "receive" /\ spc[turn] = "send" /\ turn \in Turns /\ Live
        /\ UNCHANGED <<turn, stopped, handler, producer, wire>>
    BY <1>7 DEF TakeEvent, TurnInv, Live
  <2>2. shown' \in [Turns -> 0 .. MaxLines]
    <3>1. CASE picked[turn].kind = "text"
      <4>1. shown[turn] + 1 <= answer[turn] /\ answer[turn] <= MaxLines
        <5>1. Ahead(turn) = 1
          BY <2>1, <3>1 DEF Ahead, IsText
        <5>2. shown[turn] + Ahead(turn) <= answer[turn]
          BY <2>1, TextIsMore
        <5> QED BY <2>1, <5>1, <5>2
      <4>2. shown[turn] + 1 \in 0 .. MaxLines
        BY <2>1, <4>1
      <4> QED BY <1>7, <3>1, <4>2 DEF TakeEvent
    <3>2. CASE picked[turn].kind # "text"
      BY <1>7, <3>2 DEF TakeEvent
    <3> QED BY <3>1, <3>2
  <2>3. talk' \in Seq([turn : Turns, answer : 1 .. MaxLines])
    <3>1. CASE picked[turn].kind = "finished"
      <4>1. /\ picked[turn].answer = answer[turn] /\ shown[turn] = answer[turn]
            /\ answer[turn] \in 0 .. MaxLines
        BY <2>1, <3>1 DEF WarnInv, Warns
      <4>2. talk' = IF answer[turn] = 0 THEN talk
                    ELSE Append(talk, [turn |-> turn, answer |-> answer[turn]])
        BY <1>7, <3>1, <4>1 DEF TakeEvent, AddTurn
      <4>3. answer[turn] # 0 => [turn |-> turn, answer |-> answer[turn]]
                                  \in [turn : Turns, answer : 1 .. MaxLines]
        BY <2>1, <4>1
      <4>4. ASSUME NEW turns \in Seq([turn : Turns, answer : 1 .. MaxLines]),
                   NEW kept \in [turn : Turns, answer : 1 .. MaxLines]
            PROVE  Append(turns, kept) \in Seq([turn : Turns, answer : 1 .. MaxLines])
        OBVIOUS
      <4>5. CASE answer[turn] = 0
        BY <4>2, <4>5
      <4>6. CASE answer[turn] # 0
        BY <4>2, <4>3, <4>4, <4>6
      <4> QED BY <4>5, <4>6
    <3>2. CASE picked[turn].kind # "finished"
      BY <1>7, <3>2 DEF TakeEvent
    <3> QED BY <3>1, <3>2
  <2>4. warned' \in [Turns -> BOOLEAN] /\ linked' \in [Turns -> BOOLEAN]
    BY <1>7 DEF TakeEvent
  <2>5. /\ app' \in {"prompt", "connect", "await", "receive", "exit"}
        /\ spc' \in [Turns -> {"none", "scan", "send", "gone"}]
    BY <1>7 DEF TakeEvent
  <2>6. picked' \in [Turns -> Event]
    BY <1>7, PlainTypes DEF TakeEvent, Kinds
  <2> QED BY <2>1, <2>2, <2>3, <2>4, <2>5, <2>6
<1>8. CASE WriteFails
  <2>1. picked' \in [Turns -> Event]
    BY <1>8, PlainTypes DEF WriteFails, Kinds
  <2> QED BY <1>8, <2>1 DEF WriteFails
<1>9. CASE NoFinish
  BY <1>9 DEF NoFinish
<1> QED BY <1>1, <1>2, <1>3, <1>4, <1>5, <1>6, <1>7, <1>8, <1>9 DEF CliStep

\* The steps of the scanner and of the network keep the types.
LEMMA ScannerTypes ==
  ASSUME TypeOK, NEW t \in Turns, ScannerStep(t) \/ Drop(t) \/ Notice(t)
  PROVE  TypeOK'
<1> USE DEF TypeOK, cli, handler, producer, link, scanner
<1>1. CASE ScanEvent(t)
  <2>1. wire' \in [Turns -> Seq(Event)]
    BY <1>1, EventTypes DEF ScanEvent
  <2>2. /\ spc' \in [Turns -> {"none", "scan", "send", "gone"}]
        /\ picked' \in [Turns -> Event] /\ UNCHANGED linked
    <3>1. Head(wire[t]) \in Event /\ Plain("broken") \in Event
      BY <1>1, EventTypes, PlainTypes DEF ScanEvent, Kinds
    <3>2. UNCHANGED <<scanner, linked>> \/ \E event \in Event : Pick(t, event)
      BY <1>1, <3>1 DEF ScanEvent
    <3>3. ASSUME NEW event \in Event, Pick(t, event)
          PROVE  /\ spc' \in [Turns -> {"none", "scan", "send", "gone"}]
                 /\ picked' \in [Turns -> Event] /\ UNCHANGED linked
      BY <3>3 DEF Pick
    <3>4. CASE UNCHANGED <<scanner, linked>>
      BY <3>4
    <3> QED BY <3>2, <3>3, <3>4
  <2> QED BY <1>1, <2>1, <2>2 DEF ScanEvent
<1>2. CASE ScanEnd(t)
  <2>1. Plain("broken") \in Event
    BY PlainTypes DEF Kinds
  <2>2. CASE ScannerReturns(t)
    BY <1>2, <2>2 DEF ScanEnd, ScannerReturns
  <2>3. CASE Pick(t, Plain("broken"))
    BY <1>2, <2>1, <2>3 DEF ScanEnd, Pick
  <2> QED BY <1>2, <2>2, <2>3 DEF ScanEnd
<1>3. CASE ScanStop(t)
  BY <1>3 DEF ScanStop, ScannerReturns
<1>4. CASE Drop(t)
  <2>1. \A n \in 0 .. Len(wire[t]) : SubSeq(wire[t], 1, n) \in Seq(Event)
    BY EventTypes
  <2>2. wire' \in [Turns -> Seq(Event)]
    BY <1>4, <2>1 DEF Drop
  <2> QED BY <1>4, <2>2 DEF Drop
<1>5. CASE Notice(t)
  BY <1>5 DEF Notice
<1> QED BY <1>1, <1>2, <1>3, <1>4, <1>5 DEF ScannerStep

\* The steps of the producer keep the types.
LEMMA ProducerTypes ==
  ASSUME TypeOK, NEW t \in Turns, ProducerStep(t)
  PROVE  TypeOK'
<1> USE DEF TypeOK, cli, handler, producer, link, scanner
<1>1. CASE ScanLine(t)
  <2>1. lines' \in [Turns -> 0 .. MaxLines]
    BY <1>1 DEF ScanLine
  <2>2. /\ held' \in [Turns -> {"none", "text", "other", "error"}]
        /\ body' \in [Turns -> {"open", "done", "cut", "bad", "stopped"}]
        /\ ppc' \in [Turns -> {"none", "scan", "send", "gone"}]
    BY <1>1 DEF ScanLine
  <2> QED BY <1>1, <2>1, <2>2 DEF ScanLine
<1>2. CASE BodyEnds(t)
  <2>1. \E how \in {"done", "cut", "stopped"} : body' = [body EXCEPT ![t] = how]
    BY <1>2 DEF BodyEnds
  <2>2. body' \in [Turns -> {"open", "done", "cut", "bad", "stopped"}]
    BY <2>1
  <2> QED BY <1>2, <2>2 DEF BodyEnds
<1>3. CASE ProducerStop(t)
  BY <1>3 DEF ProducerStop
<1> QED BY <1>1, <1>2, <1>3 DEF ProducerStep

\* The steps of the handler keep the types.
LEMMA HandlerTypes ==
  ASSUME TypeOK, BoundInv, NEW t \in Turns, HandlerStep(t) \/ Heartbeat(t)
  PROVE  TypeOK'
<1>1. \A kind \in Kinds : Plain(kind) \in Event
  BY PlainTypes
<1>2. ASSUME NEW kind \in {"text", "error", "heartbeat", "warning"},
             NEW next \in {"loop", "finish", "done"}, WriteSSE(t, Plain(kind), next)
      PROVE  /\ wire' \in [Turns -> Seq(Event)] /\ ended' \in [Turns -> BOOLEAN]
             /\ hpc' \in [Turns -> {"none", "model", "loop", "embed", "save", "finish", "done"}]
  <2>1. Plain(kind) \in Event
    BY <1>1 DEF Kinds
  <2> QED BY <1>2, <2>1, WriteTypes, Zenon
<1> USE DEF TypeOK, cli, handler, producer, link, scanner
<1>3. CASE CallModel(t)
  BY <1>3 DEF CallModel, Return
<1>4. CASE TakeDelta(t)
  <2>1. /\ ppc' \in [Turns -> {"none", "scan", "send", "gone"}]
        /\ held' \in [Turns -> {"none", "text", "other", "error"}]
        /\ UNCHANGED <<cli, refused, beats, saved, lines, body, linked, scanner>>
    BY <1>4 DEF TakeDelta
  <2>2. CASE held[t] = "error"
    <3>1. WriteSSE(t, Plain("error"), "done") /\ UNCHANGED answer
      BY <1>4, <2>2 DEF TakeDelta
    <3> QED BY <1>2, <2>1, <3>1
  <2>3. CASE held[t] = "text"
    <3>1. /\ WriteSSE(t, Plain("text"), "loop") /\ ppc[t] = "send"
          /\ answer' = [answer EXCEPT ![t] = @ + 1]
      BY <1>4, <2>3 DEF TakeDelta, WriteDelta
    <3>2. answer[t] + 1 <= lines[t] /\ answer[t] \in 0 .. MaxLines /\ lines[t] \in 0 .. MaxLines
      BY <2>3, <3>1 DEF BoundInv
    <3>3. answer' \in [Turns -> 0 .. MaxLines]
      BY <3>1, <3>2
    <3> QED BY <1>2, <2>1, <3>1, <3>3
  <2>4. CASE held[t] = "other"
    BY <1>4, <2>1, <2>4 DEF TakeDelta
  <2> QED BY <1>4, <2>2, <2>3, <2>4 DEF TakeDelta
<1>5. CASE StreamClosed(t)
  BY <1>5 DEF StreamClosed
<1>6. CASE ContextDone(t)
  BY <1>6 DEF ContextDone, Return
<1>7. CASE Heartbeat(t)
  <2>1. beats' \in [Turns -> 0 .. MaxBeats]
    BY <1>7 DEF Heartbeat
  <2> QED BY <1>2, <1>7, <2>1 DEF Heartbeat
<1>8. CASE Embed(t)
  <2>1. CASE WriteSSE(t, Plain("warning"), "finish")
    BY <1>2, <1>8, <2>1 DEF Embed
  <2>2. CASE hpc' = [hpc EXCEPT ![t] = "save"] /\ UNCHANGED <<wire, ended>>
    BY <1>8, <2>2 DEF Embed
  <2> QED BY <1>8, <2>1, <2>2 DEF Embed, Warn
<1>9. CASE Save(t)
  <2>1. CASE WriteSSE(t, Plain("warning"), "finish") /\ UNCHANGED saved
    BY <1>2, <1>9, <2>1 DEF Save
  <2>2. CASE /\ saved' = [saved EXCEPT ![t] = answer[t]] /\ UNCHANGED <<wire, ended>>
             /\ hpc' = [hpc EXCEPT ![t] = "finish"]
    BY <1>9, <2>2 DEF Save
  <2> QED BY <1>9, <2>1, <2>2 DEF Save, Warn
<1>10. CASE Finish(t)
  <2>1. [kind |-> "finished", answer |-> answer[t], saved |-> saved[t] # NotSaved] \in Event
    BY DEF Event, Kinds
  <2>2. /\ wire' \in [Turns -> Seq(Event)] /\ ended' \in [Turns -> BOOLEAN]
        /\ hpc' \in [Turns -> {"none", "model", "loop", "embed", "save", "finish", "done"}]
    BY <1>10, <2>1, WriteTypes DEF Finish
  <2> QED BY <1>10, <2>2 DEF Finish
<1> QED BY <1>3, <1>4, <1>5, <1>6, <1>7, <1>8, <1>9, <1>10 DEF HandlerStep

\* Every step keeps the types.
LEMMA TypeStep ==
  ASSUME TypeOK, BoundInv, EarlyInv, CountInv, WarnInv, TurnInv, [Next]_vars
  PROVE  TypeOK'
<1>1. CASE UNCHANGED vars
  BY <1>1 DEF TypeOK, vars, cli, handler, producer, link, scanner
<1> QED BY <1>1, CliTypes, ScannerTypes, ProducerTypes, HandlerTypes DEF Next

---------------------------------------------------------------------------
(* The server's side.                                                      *)

\* Whatever the CLI does, it does not touch the server's goroutines.
LEMMA CliFrame ==
  ASSUME Ask \/ Clear \/ Leave \/ CtrlC \/ CliStep \/ WriteFails
  PROVE  /\ UNCHANGED <<answer, beats, saved, producer, wire>>
         /\ Connect \/ UNCHANGED <<hpc, refused, ended>>
         /\ TakeEvent \/ UNCHANGED <<shown, warned>>
         /\ Clear \/ TakeEvent \/ UNCHANGED talk
<1> USE DEF cli, handler, producer, link, scanner
<1>1. CASE Ask \/ Clear \/ Leave \/ CtrlC
  BY <1>1 DEF Ask, Clear, Leave, CtrlC
<1>2. CASE Connect \/ GetResponse
  BY <1>2 DEF Connect, GetResponse
<1>3. CASE TakeEvent
  BY <1>3 DEF TakeEvent
<1>4. CASE WriteFails \/ NoFinish
  BY <1>4 DEF WriteFails, NoFinish
<1> QED BY <1>1, <1>2, <1>3, <1>4 DEF CliStep

\* Scanner and network touch neither the CLI nor the server's goroutines.
LEMMA ScannerFrame ==
  ASSUME NEW t \in Turns, ScannerStep(t) \/ Drop(t) \/ Notice(t)
  PROVE  /\ UNCHANGED <<cli, producer, hpc, refused, answer, beats, saved>>
         /\ Notice(t) \/ UNCHANGED ended
BY DEF ScannerStep, ScanEvent, ScanEnd, ScanStop, Drop, Notice, cli, handler,
   producer, link, scanner

\* Nor does the producer touch anybody else.
LEMMA ProducerFrame ==
  ASSUME NEW t \in Turns, ProducerStep(t)
  PROVE  UNCHANGED <<cli, handler, link, scanner>>
BY DEF ProducerStep, ScanLine, BodyEnds, ProducerStop

\* The handler writes to the wire of its own turn only, and takes from its own
\* producer.
LEMMA HandlerFrame ==
  ASSUME TypeOK, NEW t \in Turns, HandlerStep(t) \/ Heartbeat(t)
  PROVE  /\ UNCHANGED <<cli, linked, scanner, lines, body>>
         /\ \A s \in Turns \ {t} :
              /\ hpc'[s] = hpc[s] /\ refused'[s] = refused[s] /\ answer'[s] = answer[s]
              /\ saved'[s] = saved[s] /\ wire'[s] = wire[s]
              /\ ppc'[s] = ppc[s] /\ held'[s] = held[s]
<1> USE DEF cli, handler, producer, link, scanner
<1>1. ASSUME NEW event, NEW next, WriteSSE(t, event, next)
      PROVE  \A s \in Turns \ {t} : hpc'[s] = hpc[s] /\ wire'[s] = wire[s]
  <2>1. Written(t, event, next)
    BY <1>1, Writing
  <2> QED BY <2>1 DEF Written, TypeOK
<1>2. CASE CallModel(t) \/ StreamClosed(t) \/ ContextDone(t)
  BY <1>2 DEF CallModel, StreamClosed, ContextDone, Return, TypeOK
<1>3. CASE TakeDelta(t)
  <2>1. /\ UNCHANGED <<cli, refused, beats, saved, lines, body, linked, scanner>>
        /\ \A s \in Turns \ {t} :
             /\ answer'[s] = answer[s] /\ ppc'[s] = ppc[s] /\ held'[s] = held[s]
    BY <1>3 DEF TakeDelta, TypeOK
  <2>2. \A s \in Turns \ {t} : hpc'[s] = hpc[s] /\ wire'[s] = wire[s]
    BY <1>1, <1>3 DEF TakeDelta
  <2> QED BY <2>1, <2>2
<1>4. CASE Heartbeat(t) \/ Finish(t)
  <2>1. UNCHANGED <<cli, refused, answer, saved, producer, linked, scanner>>
    BY <1>4 DEF Heartbeat, Finish
  <2>2. \A s \in Turns \ {t} : hpc'[s] = hpc[s] /\ wire'[s] = wire[s]
    BY <1>1, <1>4 DEF Heartbeat, Finish
  <2> QED BY <2>1, <2>2
<1>5. CASE Embed(t) \/ Save(t)
  <2>1. /\ UNCHANGED <<cli, refused, answer, producer, linked, scanner>>
        /\ \A s \in Turns \ {t} : saved'[s] = saved[s]
    BY <1>5 DEF Embed, Save, TypeOK
  <2>2. \A s \in Turns \ {t} : hpc'[s] = hpc[s] /\ wire'[s] = wire[s]
    BY <1>1, <1>5 DEF Embed, Save, Warn, TypeOK
  <2> QED BY <2>1, <2>2
<1> QED BY <1>2, <1>3, <1>4, <1>5 DEF HandlerStep

\* An answer is no longer than the lines read for it, and never shorter than what
\* the CLI has shown.
LEMMA BoundStep ==
  ASSUME TypeOK, BoundInv, CountInv, EarlyInv, TurnInv, [Next]_vars
  PROVE  BoundInv'
<1>1. CASE UNCHANGED <<shown, answer, ppc, held, lines>>
  BY <1>1 DEF BoundInv
<1>2. CASE TakeEvent
  <2>1. /\ UNCHANGED <<answer, producer>> /\ turn \in Turns /\ Live
        /\ spc[turn] = "send"
    BY <1>2 DEF TakeEvent, Live, TurnInv, handler
  <2>2. shown[turn] + IsText(picked[turn]) <= answer[turn]
    <3>1. shown[turn] + Ahead(turn) <= answer[turn]
      BY <2>1, TextIsMore
    <3> QED BY <2>1, <3>1 DEF Ahead
  <2>3. \A t \in Turns : shown'[t] <= answer[t]
    BY <1>2, <2>1, <2>2 DEF TakeEvent, IsText, BoundInv, TypeOK
  <2> QED BY <2>1, <2>3 DEF BoundInv, producer
<1>3. ASSUME Ask \/ Clear \/ Leave \/ CtrlC \/ CliStep \/ WriteFails PROVE BoundInv'
  BY <1>1, <1>2, <1>3, CliFrame DEF producer
<1>4. ASSUME NEW t \in Turns, ScannerStep(t) \/ Drop(t) \/ Notice(t) PROVE BoundInv'
  BY <1>1, <1>4, ScannerFrame DEF producer, cli
<1>5. ASSUME NEW t \in Turns, ProducerStep(t) PROVE BoundInv'
  <2>1. UNCHANGED <<shown, answer>>
    BY <1>5, ProducerFrame DEF cli, handler
  <2>2. \A s \in Turns : answer[s] \in Nat /\ lines[s] \in Nat
    BY DEF TypeOK
  <2>3. \A s \in Turns \ {t} : lines'[s] = lines[s] /\ ppc'[s] = ppc[s] /\ held'[s] = held[s]
    BY <1>5 DEF ProducerStep, ScanLine, BodyEnds, ProducerStop, TypeOK
  <2>4. \/ lines'[t] = lines[t] + 1 /\ ppc[t] = "scan"
        \/ lines'[t] = lines[t] /\ ppc'[t] = "gone"
    BY <1>5 DEF ProducerStep, ScanLine, BodyEnds, ProducerStop, TypeOK
  <2>5. \A s \in Turns : answer[s] + (IF ppc'[s] = "send" /\ held'[s] = "text" THEN 1 ELSE 0)
                           <= lines'[s]
    <3> SUFFICES ASSUME NEW s \in Turns
                 PROVE  answer[s] + (IF ppc'[s] = "send" /\ held'[s] = "text" THEN 1 ELSE 0)
                          <= lines'[s]
      OBVIOUS
    <3>1. CASE s = t
      BY <2>2, <2>4, <3>1 DEF BoundInv
    <3>2. CASE s # t
      BY <2>3, <3>2 DEF BoundInv
    <3> QED BY <3>1, <3>2
  <2> QED BY <2>1, <2>5 DEF BoundInv
<1>6. ASSUME NEW t \in Turns, HandlerStep(t) \/ Heartbeat(t) PROVE BoundInv'
  <2>1. /\ UNCHANGED <<shown, lines>>
        /\ \A s \in Turns \ {t} :
             answer'[s] = answer[s] /\ ppc'[s] = ppc[s] /\ held'[s] = held[s]
    BY <1>6, HandlerFrame DEF cli
  <2>2. \/ answer'[t] = answer[t] /\ (ppc'[t] = "send" => ppc'[t] = ppc[t] /\ held'[t] = held[t])
        \/ /\ answer'[t] = answer[t] + 1 /\ ppc[t] = "send" /\ held[t] = "text"
           /\ ppc'[t] = "scan"
    <3>1. CASE TakeDelta(t)
      BY <3>1 DEF TakeDelta, WriteDelta, TypeOK
    <3>2. CASE CallModel(t)
      BY <3>2 DEF CallModel, TypeOK
    <3>3. CASE StreamClosed(t) \/ ContextDone(t) \/ Embed(t) \/ Save(t) \/ Finish(t) \/ Heartbeat(t)
      BY <3>3 DEF StreamClosed, ContextDone, Embed, Save, Finish, Heartbeat, producer
    <3> QED BY <1>6, <3>1, <3>2, <3>3 DEF HandlerStep
  <2>3. \A s \in Turns : answer[s] \in Nat /\ lines[s] \in Nat /\ shown[s] \in Nat
    BY DEF TypeOK
  <2>4. \A s \in Turns :
          /\ answer'[s] + (IF ppc'[s] = "send" /\ held'[s] = "text" THEN 1 ELSE 0) <= lines[s]
          /\ shown[s] <= answer'[s]
    <3> SUFFICES ASSUME NEW s \in Turns
                 PROVE  /\ answer'[s] + (IF ppc'[s] = "send" /\ held'[s] = "text"
                                          THEN 1 ELSE 0) <= lines[s]
                        /\ shown[s] <= answer'[s]
      OBVIOUS
    <3>1. CASE s = t
      BY <2>2, <2>3, <3>1 DEF BoundInv
    <3>2. CASE s # t
      BY <2>1, <3>2 DEF BoundInv
    <3> QED BY <3>1, <3>2
  <2> QED BY <2>1, <2>4 DEF BoundInv
<1>7. CASE UNCHANGED vars
  BY <1>1, <1>7 DEF vars, cli, handler, producer
<1> QED BY <1>3, <1>4, <1>5, <1>6, <1>7 DEF Next

\* The handler's goroutine runs while it is between its first step and its last.
LEMMA HandlerRuns ==
  ASSUME TypeOK, NEW t \in Turns, HandlerStep(t) \/ Heartbeat(t)
  PROVE  /\ hpc[t] \in {"model", "loop", "embed", "save", "finish"}
         /\ hpc'[t] \in {"loop", "embed", "save", "finish", "done"}
<1>1. ASSUME NEW event, NEW next \in {"loop", "finish", "done"}, WriteSSE(t, event, next)
      PROVE  hpc'[t] \in {"loop", "finish", "done"}
  BY <1>1 DEF WriteSSE, Return, TypeOK
<1>2. CASE CallModel(t) \/ StreamClosed(t) \/ ContextDone(t)
  BY <1>2 DEF CallModel, StreamClosed, ContextDone, Return, TypeOK
<1>3. CASE TakeDelta(t)
  BY <1>1, <1>3 DEF TakeDelta
<1>4. CASE Heartbeat(t) \/ Finish(t)
  BY <1>1, <1>4 DEF Heartbeat, Finish
<1>5. CASE Embed(t) \/ Save(t)
  BY <1>1, <1>5 DEF Embed, Save, Warn, TypeOK
<1> QED BY <1>2, <1>3, <1>4, <1>5 DEF HandlerStep

\* A question that was not sent has left no trace.
LEMMA EarlyStep ==
  ASSUME TypeOK, EarlyInv, TurnInv, [Next]_vars
  PROVE  EarlyInv'
<1> USE DEF Future
<1>1. CASE UNCHANGED <<turn, app, hpc, wire, spc, shown, ppc, body, answer>>
  BY <1>1 DEF EarlyInv
<1>2. CASE Ask \/ Clear \/ Leave \/ CtrlC \/ CliStep \/ WriteFails
  <2>1. UNCHANGED <<wire, ppc, body, answer>>
    BY <1>2, CliFrame DEF producer
  <2>2. \A t \in Turns : Future(t)' =>
          Future(t) /\ hpc'[t] = hpc[t] /\ spc'[t] = spc[t] /\ shown'[t] = shown[t]
    <3> SUFFICES ASSUME NEW t \in Turns, Future(t)'
                 PROVE  /\ Future(t) /\ hpc'[t] = hpc[t] /\ spc'[t] = spc[t]
                        /\ shown'[t] = shown[t]
      OBVIOUS
    <3>1. turn \in Nat /\ t \in Nat
      BY DEF TypeOK, Turns
    <3>2. CASE Ask
      BY <3>1, <3>2 DEF Ask, cli, handler, scanner
    <3>3. CASE Clear \/ Leave \/ CtrlC
      BY <3>3 DEF Clear, Leave, CtrlC, handler, scanner
    <3>4. CASE Connect \/ GetResponse \/ TakeEvent \/ WriteFails \/ NoFinish
      <4>1. t > turn /\ t # turn
        BY <3>1, <3>4 DEF Connect, GetResponse, TakeEvent, WriteFails, NoFinish
      <4>2. /\ \/ hpc' = hpc \/ \E x : hpc' = [hpc EXCEPT ![turn] = x]
            /\ \/ spc' = spc \/ \E x : spc' = [spc EXCEPT ![turn] = x]
            /\ \/ shown' = shown \/ \E x : shown' = [shown EXCEPT ![turn] = x]
        BY <3>4 DEF Connect, GetResponse, TakeEvent, WriteFails, NoFinish, cli, handler,
                    scanner
      <4> QED BY <4>1, <4>2 DEF TypeOK
    <3> QED BY <1>2, <3>2, <3>3, <3>4 DEF CliStep
  <2>3. \A t \in Turns : hpc'[t] = hpc[t] \/ (t = turn /\ app = "connect")
    BY <1>2, CliFrame DEF Connect, TypeOK
  <2>4. \A t \in Turns : t = turn' /\ app' = "await" => spc'[t] = "none"
    <3> USE DEF cli, handler, scanner, EarlyInv
    <3>1. CASE Ask \/ Clear \/ Leave \/ CtrlC
      BY <3>1 DEF Ask, Clear, Leave, CtrlC
    <3>2. CASE Connect \/ GetResponse
      BY <3>2 DEF Connect, GetResponse
    <3>3. CASE TakeEvent \/ WriteFails \/ NoFinish
      BY <3>3 DEF TakeEvent, WriteFails, NoFinish
    <3> QED BY <1>2, <3>1, <3>2, <3>3 DEF CliStep
  <2>5. \A t \in Turns : hpc'[t] \in {"none", "model"} => hpc[t] \in {"none", "model"}
    BY <2>3 DEF EarlyInv
  <2> QED BY <2>1, <2>2, <2>4, <2>5 DEF EarlyInv
<1>3. ASSUME NEW t \in Turns, ScannerStep(t) \/ Drop(t) \/ Notice(t) PROVE EarlyInv'
  <2>1. UNCHANGED <<turn, app, hpc, shown, ppc, body, answer>>
    BY <1>3, ScannerFrame DEF cli, producer
  <2>2. \A s \in Turns \ {t} : wire'[s] = wire[s] /\ spc'[s] = spc[s]
    <3>1. CASE ScannerStep(t)
      BY <3>1 DEF ScannerStep, ScanEvent, ScanEnd, ScanStop, ScannerReturns, Pick,
                  scanner, TypeOK
    <3>2. CASE Drop(t) \/ Notice(t)
      BY <3>2 DEF Drop, Notice, scanner, link, TypeOK
    <3> QED BY <1>3, <3>1, <3>2
  <2>3. \/ spc[t] # "none"
        \/ hpc[t] # "none" /\ spc' = spc
    BY <1>3 DEF ScannerStep, ScanEvent, ScanEnd, ScanStop, ScanGivesUp, Drop, Notice,
                scanner
  <2> QED BY <2>1, <2>2, <2>3 DEF EarlyInv
<1>4. ASSUME NEW t \in Turns, ProducerStep(t) PROVE EarlyInv'
  <2>1. UNCHANGED <<turn, app, hpc, wire, spc, shown, answer>>
    BY <1>4, ProducerFrame DEF cli, handler, link, scanner
  <2>2. \A s \in Turns \ {t} : ppc'[s] = ppc[s] /\ body'[s] = body[s]
    BY <1>4 DEF ProducerStep, ScanLine, BodyEnds, ProducerStop, TypeOK
  <2>3. ppc[t] # "none"
    BY <1>4 DEF ProducerStep, ScanLine, BodyEnds, ProducerStop
  <2> QED BY <2>1, <2>2, <2>3 DEF EarlyInv
<1>5. ASSUME NEW t \in Turns, HandlerStep(t) \/ Heartbeat(t) PROVE EarlyInv'
  <2>1. /\ UNCHANGED <<turn, app, spc, shown, body>>
        /\ \A s \in Turns \ {t} : /\ hpc'[s] = hpc[s] /\ wire'[s] = wire[s]
                                  /\ ppc'[s] = ppc[s] /\ answer'[s] = answer[s]
    BY <1>5, HandlerFrame DEF cli, scanner
  <2>2. hpc[t] # "none" /\ hpc'[t] \notin {"none", "model"}
    BY <1>5, HandlerRuns
  <2> QED BY <2>1, <2>2 DEF EarlyInv
<1>6. CASE UNCHANGED vars
  BY <1>1, <1>6 DEF vars, cli, handler, producer, link, scanner
<1> QED BY <1>2, <1>3, <1>4, <1>5, <1>6 DEF Next

\* A question has a turn, and no two at once.
LEMMA TurnStep ==
  ASSUME TypeOK, TurnInv, [Next]_vars
  PROVE  TurnInv'
<1>1. CASE UNCHANGED cli
  BY <1>1 DEF cli, TurnInv
<1>2. CASE Ask
  BY <1>2 DEF Ask, TurnInv, TypeOK, Turns
<1>3. CASE Clear \/ Leave \/ CtrlC
  BY <1>3 DEF Clear, Leave, CtrlC, TurnInv
<1>4. CASE Connect \/ GetResponse \/ TakeEvent \/ NoFinish \/ WriteFails
  BY <1>4 DEF Connect, GetResponse, TakeEvent, NoFinish, WriteFails, TurnInv
<1>5. CASE UNCHANGED vars
  BY <1>1, <1>5 DEF vars
<1> QED BY <1>1, <1>2, <1>3, <1>4, <1>5, ScannerFrame, ProducerFrame, HandlerFrame
        DEF Next, CliStep

---------------------------------------------------------------------------
(* The wire.                                                               *)

\* The CLI takes from the scanner and leaves the wires alone.
LEMMA CliPicks ==
  ASSUME TypeOK, NEW t \in Turns, Ask \/ Clear \/ Leave \/ CtrlC \/ CliStep \/ WriteFails
  PROVE  picked'[t] = picked[t] \/ picked'[t] = Plain("none")
<1>1. CASE Ask \/ Clear \/ Leave \/ CtrlC \/ Connect \/ GetResponse \/ NoFinish
  BY <1>1 DEF Ask, Clear, Leave, CtrlC, Connect, GetResponse, NoFinish, scanner
<1>2. CASE TakeEvent \/ WriteFails
  <2>1. picked' = [picked EXCEPT ![turn] = Plain("none")]
    BY <1>2 DEF TakeEvent, WriteFails
  <2> QED BY <2>1 DEF TypeOK
<1> QED BY <1>1, <1>2 DEF CliStep

\* The scanner and the network take events off the wire and add none.
LEMMA ScannerTakes ==
  ASSUME TypeOK, NEW t \in Turns, ScannerStep(t) \/ Drop(t) \/ Notice(t)
  PROVE  /\ \A s \in Turns \ {t} : wire'[s] = wire[s] /\ picked'[s] = picked[s]
         /\ \A i \in 1 .. Len(wire'[t]) : \E j \in 1 .. Len(wire[t]) :
              wire'[t][i] = wire[t][j]
         /\ \/ picked'[t] = picked[t] \/ picked'[t] = Plain("broken")
            \/ \E j \in 1 .. Len(wire[t]) : picked'[t] = wire[t][j]
<1> USE DEF scanner, link
<1>1. wire[t] \in Seq(Event) /\ Len(wire[t]) \in Nat
  BY EventTypes
<1>2. CASE ScanEvent(t)
  <2>1. /\ wire[t] # <<>> /\ wire'[t] = Tail(wire[t])
        /\ \A s \in Turns \ {t} : wire'[s] = wire[s]
    BY <1>2 DEF ScanEvent, TypeOK
  <2>2. /\ Head(wire[t]) = wire[t][1] /\ Len(wire[t]) >= 1
        /\ Len(wire'[t]) = Len(wire[t]) - 1
        /\ \A i \in 1 .. Len(wire[t]) - 1 : wire'[t][i] = wire[t][i + 1]
    BY <2>1, EventTypes
  <2>3. \/ picked' = picked
        \/ \E event \in {Plain("broken"), wire[t][1]} : picked' = [picked EXCEPT ![t] = event]
    BY <1>2, <2>2 DEF ScanEvent, Pick
  <2>4. \A i \in 1 .. Len(wire'[t]) : \E j \in 1 .. Len(wire[t]) :
          wire'[t][i] = wire[t][j]
    BY <1>1, <2>2
  <2> QED BY <1>1, <2>1, <2>2, <2>3, <2>4 DEF TypeOK
<1>3. CASE ScanEnd(t) \/ ScanStop(t)
  <2>1. wire' = wire
    BY <1>3 DEF ScanEnd, ScanStop
  <2>2. picked' = picked \/ picked' = [picked EXCEPT ![t] = Plain("broken")]
    BY <1>3 DEF ScanEnd, ScanStop, ScannerReturns, Pick
  <2> QED BY <1>1, <2>1, <2>2 DEF TypeOK
<1>4. CASE Drop(t)
  <2>1. PICK n \in 0 .. Len(wire[t]) : wire' = [wire EXCEPT ![t] = SubSeq(@, 1, n)]
    BY <1>4 DEF Drop
  <2>2. /\ wire'[t] = SubSeq(wire[t], 1, n) /\ UNCHANGED picked
        /\ \A s \in Turns \ {t} : wire'[s] = wire[s]
    BY <1>4, <2>1 DEF Drop, TypeOK
  <2>3. Len(wire'[t]) = n /\ \A i \in 1 .. n : wire'[t][i] = wire[t][i]
    BY <1>1, <2>2
  <2> QED BY <1>1, <2>2, <2>3
<1>5. CASE Notice(t)
  BY <1>5 DEF Notice
<1> QED BY <1>2, <1>3, <1>4, <1>5 DEF ScannerStep

\* What the handler adds: a plain event, where a text goes into the answer too,
\* or at the end the finished event; and it has not finished without saving or
\* warning, as far as the connection lets it.
FinishedEvent(t) ==
  [kind |-> "finished", answer |-> answer[t], saved |-> saved[t] # NotSaved]
Extends(t, kind) ==
  /\ linked[t]
  /\ wire'[t] = Append(wire[t], Plain(kind))
  /\ answer'[t] = answer[t] + IsText(Plain(kind))

LEMMA HandlerWrites ==
  ASSUME TypeOK, NEW t \in Turns, HandlerStep(t) \/ Heartbeat(t)
  PROVE  /\ \/ /\ wire'[t] = wire[t]
               /\ answer'[t] = answer[t] \/ (~linked[t] /\ answer'[t] = answer[t] + 1)
            \/ \E kind \in {"text", "error", "heartbeat", "warning"} : Extends(t, kind)
            \/ /\ hpc[t] = "finish" /\ hpc'[t] = "done" /\ linked[t]
               /\ wire'[t] = Append(wire[t], FinishedEvent(t))
               /\ UNCHANGED <<answer, saved>>
         /\ hpc'[t] = "finish" /\ linked[t] =>
              \/ answer'[t] = 0 \/ saved'[t] = answer'[t]
              \/ Extends(t, "warning")
         /\ answer'[t] # answer[t] => hpc[t] = "loop"
         /\ hpc[t] # "save" => saved'[t] = saved[t]
<1> USE DEF cli, handler, producer, link, scanner
<1>1. ASSUME NEW kind \in {"error", "heartbeat", "warning"},
             NEW next, WriteSSE(t, Plain(kind), next), UNCHANGED answer
      PROVE  \/ wire'[t] = wire[t] /\ ~linked[t]
             \/ Extends(t, kind)
  <2>1. wire'[t] = IF linked[t] THEN Append(wire[t], Plain(kind)) ELSE wire[t]
    BY <1>1 DEF WriteSSE, TypeOK
  <2>2. IsText(Plain(kind)) = 0 /\ answer[t] + 0 = answer[t]
    BY DEF IsText, Plain, TypeOK
  <2> QED BY <1>1, <2>1, <2>2 DEF Extends
<1>2. CASE CallModel(t) \/ StreamClosed(t) \/ ContextDone(t)
  <2>1. UNCHANGED <<wire, answer, saved>>
    BY <1>2 DEF CallModel, StreamClosed, ContextDone
  <2>2. hpc'[t] = "finish" => answer[t] = 0
    BY <1>2 DEF CallModel, StreamClosed, ContextDone, Return, TypeOK
  <2> QED BY <2>1, <2>2
<1>3. CASE TakeDelta(t)
  <2>1. hpc[t] = "loop" /\ saved' = saved /\ hpc'[t] # "finish"
    BY <1>3 DEF TakeDelta, WriteSSE, Return , TypeOK
  <2>2. CASE held[t] = "error"
    BY <1>1, <1>3, <2>1, <2>2 DEF TakeDelta
  <2>3. CASE held[t] = "text"
    <3>1. /\ wire'[t] = IF linked[t] THEN Append(wire[t], Plain("text")) ELSE wire[t]
          /\ answer'[t] = answer[t] + 1
      BY <1>3, <2>3 DEF TakeDelta, WriteDelta, WriteSSE, TypeOK
    <3>2. IsText(Plain("text")) = 1
      BY DEF IsText, Plain
    <3> QED BY <2>1, <3>1, <3>2 DEF Extends
  <2>4. CASE held[t] = "other"
    BY <1>3, <2>1, <2>4 DEF TakeDelta
  <2> QED BY <1>3, <2>2, <2>3, <2>4 DEF TakeDelta
<1>4. CASE Heartbeat(t)
  <2>1. hpc'[t] # "finish" /\ UNCHANGED <<answer, saved>>
    BY <1>4 DEF Heartbeat, WriteSSE, Return, TypeOK
  <2> QED BY <1>1, <1>4, <2>1 DEF Heartbeat
<1>5. CASE Embed(t)
  <2>1. UNCHANGED <<answer, saved>>
    BY <1>5 DEF Embed
  <2>2. CASE Warn(t)
    BY <1>1, <2>1, <2>2 DEF Warn
  <2>3. CASE hpc' = [hpc EXCEPT ![t] = "save"] /\ UNCHANGED <<wire, ended>>
    BY <2>1, <2>3 DEF TypeOK
  <2> QED BY <1>5, <2>2, <2>3 DEF Embed
<1>6. CASE Save(t)
  <2>1. hpc[t] = "save" /\ UNCHANGED answer
    BY <1>6 DEF Save
  <2>2. CASE Warn(t)
    BY <1>1, <2>1, <2>2 DEF Warn
  <2>3. CASE saved' = [saved EXCEPT ![t] = answer[t]] /\ UNCHANGED <<wire, ended>>
    BY <2>1, <2>3 DEF TypeOK
  <2> QED BY <1>6, <2>2, <2>3 DEF Save
<1>7. CASE Finish(t)
  <2>1. /\ hpc[t] = "finish" /\ hpc'[t] = "done" /\ UNCHANGED <<answer, saved>>
        /\ wire'[t] = IF linked[t] THEN Append(wire[t], FinishedEvent(t)) ELSE wire[t]
    BY <1>7 DEF Finish, FinishedEvent, WriteSSE, Return, TypeOK
  <2> QED BY <2>1
<1> QED BY <1>2, <1>3, <1>4, <1>5, <1>6, <1>7 DEF HandlerStep

\* A finished event is the handler's last.
LEMMA FinishedKinds ==
  ASSUME TypeOK, NEW t \in Turns, [Next]_vars
  PROVE  /\ HasFinished(t)' =>
              \/ HasFinished(t)
              \/ hpc[t] = "finish" /\ hpc'[t] = "done" /\ linked[t] /\ UNCHANGED producer
         /\ \A i \in 1 .. Len(wire'[t]) :
              \/ \E j \in 1 .. Len(wire[t]) : wire'[t][i] = wire[t][j]
              \/ wire'[t][i].kind = "finished" \/ wire'[t][i].answer = 0
<1>1. Plain("none").kind = "none" /\ Plain("broken").kind = "broken"
  BY DEF Plain
<1>2. CASE UNCHANGED <<wire, picked>>
  BY <1>2 DEF HasFinished
<1>3. CASE Ask \/ Clear \/ Leave \/ CtrlC \/ CliStep \/ WriteFails
  BY <1>1, <1>3, CliPicks, CliFrame DEF HasFinished
<1>4. ASSUME NEW s \in Turns, ScannerStep(s) \/ Drop(s) \/ Notice(s)
      PROVE  /\ HasFinished(t)' => HasFinished(t)
             /\ \A i \in 1 .. Len(wire'[t]) : \E j \in 1 .. Len(wire[t]) :
                  wire'[t][i] = wire[t][j]
  <2>1. CASE s = t
    BY <1>1, <1>4, <2>1, ScannerTakes DEF HasFinished
  <2>2. CASE s # t
    BY <1>4, <2>2, ScannerTakes DEF HasFinished
  <2> QED BY <2>1, <2>2
<1>5. ASSUME NEW s \in Turns, ProducerStep(s) PROVE UNCHANGED <<wire, picked>>
  BY <1>5, ProducerFrame DEF link, scanner
<1>6. ASSUME NEW s \in Turns, HandlerStep(s) \/ Heartbeat(s), s # t
      PROVE  wire'[t] = wire[t] /\ UNCHANGED picked
  BY <1>6, HandlerFrame DEF scanner
<1>7. CASE HandlerStep(t) \/ Heartbeat(t)
  <2>1. picked' = picked /\ wire[t] \in Seq(Event) /\ Len(wire[t]) \in Nat
    BY <1>7, HandlerFrame, EventTypes DEF scanner
  <2>2. CASE wire'[t] = wire[t]
    BY <2>1, <2>2 DEF HasFinished
  <2>3. ASSUME NEW event, wire'[t] = Append(wire[t], event), event.kind # "finished" /\ event.answer = 0
        PROVE  /\ HasFinished(t)' => HasFinished(t)
               /\ \A i \in 1 .. Len(wire'[t]) :
                    \/ \E j \in 1 .. Len(wire[t]) : wire'[t][i] = wire[t][j]
                    \/ wire'[t][i].answer = 0
    <3>1. /\ Len(wire'[t]) = Len(wire[t]) + 1 /\ wire'[t][Len(wire[t]) + 1] = event
          /\ \A i \in 1 .. Len(wire[t]) : wire'[t][i] = wire[t][i]
      BY <2>1, <2>3
    <3>2. \A i \in 1 .. Len(wire'[t]) : i = Len(wire[t]) + 1 \/ i \in 1 .. Len(wire[t])
      BY <2>1, <3>1
    <3> QED BY <2>1, <2>3, <3>1, <3>2 DEF HasFinished
  <2>4. CASE \E kind \in {"text", "error", "heartbeat", "warning"} : Extends(t, kind)
    <3>1. PICK kind \in {"text", "error", "heartbeat", "warning"} : Extends(t, kind)
      BY <2>4
    <3>2. wire'[t] = Append(wire[t], Plain(kind))
      BY <3>1 DEF Extends
    <3>3. Plain(kind).kind # "finished" /\ Plain(kind).answer = 0
      BY DEF Plain
    <3> QED BY <2>3, <3>2, <3>3
  <2>5. CASE /\ hpc[t] = "finish" /\ hpc'[t] = "done" /\ linked[t]
             /\ wire'[t] = Append(wire[t], FinishedEvent(t))
             /\ UNCHANGED <<answer, saved>>
    <3>1. UNCHANGED producer
      BY <1>7, <2>5 DEF HandlerStep, CallModel, TakeDelta, StreamClosed, ContextDone,
                        Embed, Save, Finish, Heartbeat
    <3>2. /\ Len(wire'[t]) = Len(wire[t]) + 1
          /\ wire'[t][Len(wire[t]) + 1].kind = "finished"
          /\ \A i \in 1 .. Len(wire[t]) : wire'[t][i] = wire[t][i]
      BY <2>1, <2>5 DEF FinishedEvent
    <3>3. \A i \in 1 .. Len(wire'[t]) : i = Len(wire[t]) + 1 \/ i \in 1 .. Len(wire[t])
      BY <2>1, <3>2
    <3> QED BY <2>5, <3>1, <3>2, <3>3
  <2> QED BY <1>7, <2>2, <2>4, <2>5, HandlerWrites
<1>8. CASE UNCHANGED vars
  BY <1>2, <1>8 DEF vars, link, scanner
<1>9. ASSUME wire'[t] = wire[t] /\ UNCHANGED picked
      PROVE  /\ HasFinished(t)' => HasFinished(t)
             /\ \A i \in 1 .. Len(wire'[t]) : \E j \in 1 .. Len(wire[t]) :
                  wire'[t][i] = wire[t][j]
  BY <1>9 DEF HasFinished
<1> QED BY <1>2, <1>3, <1>4, <1>5, <1>6, <1>7, <1>8, <1>9 DEF Next

\* A handler that has returned stays so, and the rest of its turn with it.
LEMMA DoneForGood ==
  ASSUME TypeOK, EarlyInv, TurnInv, [Next]_vars, NEW t \in Turns, hpc[t] = "done"
  PROVE  hpc'[t] = "done" /\ answer'[t] = answer[t] /\ saved'[t] = saved[t]
<1>1. CASE UNCHANGED vars
  BY <1>1 DEF vars, handler
<1>2. CASE Ask \/ Clear \/ Leave \/ CtrlC \/ CliStep \/ WriteFails
  <2>1. UNCHANGED <<answer, saved>>
    BY <1>2, CliFrame
  <2>2. CASE Connect
    <3>1. t # turn /\ (hpc' = hpc \/ \E x : hpc' = [hpc EXCEPT ![turn] = x])
      BY <2>2 DEF Connect, EarlyInv, Future
    <3> QED BY <2>1, <3>1 DEF TypeOK
  <2> QED BY <1>2, <2>1, <2>2, CliFrame
<1>3. ASSUME NEW s \in Turns, ScannerStep(s) \/ Drop(s) \/ Notice(s) \/ ProducerStep(s)
      PROVE  UNCHANGED <<hpc, answer, saved>>
  BY <1>3, ScannerFrame, ProducerFrame DEF handler
<1>4. ASSUME NEW s \in Turns, HandlerStep(s) \/ Heartbeat(s)
      PROVE  hpc'[t] = hpc[t] /\ answer'[t] = answer[t] /\ saved'[t] = saved[t]
  <2>1. s # t
    BY <1>4, HandlerRuns
  <2> QED BY <1>4, <2>1, HandlerFrame
<1> QED BY <1>1, <1>2, <1>3, <1>4 DEF Next

\* Nothing is sent after the finished event.
LEMMA FinishedStep ==
  ASSUME TypeOK, EarlyInv, TurnInv, FinishedInv, [Next]_vars
  PROVE  FinishedInv'
<1> SUFFICES ASSUME NEW t \in Turns
             PROVE  /\ HasFinished(t)' => hpc'[t] = "done"
                    /\ \A i \in 1 .. Len(wire'[t]) :
                         wire'[t][i].kind # "finished" => wire'[t][i].answer = 0
  BY DEF FinishedInv, HasFinished
<1>1. \A i \in 1 .. Len(wire'[t]) :
        wire'[t][i].kind # "finished" => wire'[t][i].answer = 0
  BY FinishedKinds DEF FinishedInv
<1>2. ASSUME hpc[t] = "done" PROVE hpc'[t] = "done"
  BY <1>2, DoneForGood
<1> QED BY <1>1, <1>2, FinishedKinds DEF FinishedInv

---------------------------------------------------------------------------
(* Errors of the stream, and what is kept.                                 *)

\* Only a finished event that the CLI takes adds a turn to the conversation, and
\* never a blank one.
LEMMA KeptKinds ==
  ASSUME TypeOK, TurnInv, [Next]_vars, NEW k \in Kept'
  PROVE  \/ k \in Kept
         \/ /\ TakeEvent /\ picked[turn].kind = "finished" /\ k.turn = turn
            /\ k.answer = IF picked[turn].answer > 0 THEN picked[turn].answer
                          ELSE shown[turn]
            /\ k.answer # 0
<1>1. CASE talk' = talk
  BY <1>1 DEF Kept
<1>2. CASE Clear
  BY <1>2 DEF Clear, Kept
<1>3. CASE TakeEvent
  <2>1. CASE picked[turn].kind # "finished"
    BY <1>1, <1>3, <2>1 DEF TakeEvent
  <2>2. CASE picked[turn].kind = "finished"
    <3> DEFINE text == IF picked[turn].answer > 0 THEN picked[turn].answer ELSE shown[turn]
               new == [turn |-> turn, answer |-> text]
    <3>1. talk' = IF text = 0 THEN talk ELSE Append(talk, new)
      BY <1>3, <2>2 DEF TakeEvent, AddTurn
    <3>2. CASE text = 0
      BY <1>1, <3>1, <3>2
    <3>3. CASE text # 0
      <4>1. new.turn = turn /\ new.answer = text
        OBVIOUS
      <4> HIDE DEF new
      <4>2. \A i \in DOMAIN talk' : talk'[i] = new \/ (i \in DOMAIN talk /\ talk'[i] = talk[i])
        <5>1. talk \in Seq([turn : Turns, answer : 1 .. MaxLines])
          BY DEF TypeOK
        <5> QED BY <3>1, <3>3, <5>1
      <4>3. k = new \/ k \in Kept
        BY <4>2 DEF Kept
      <4> QED BY <1>3, <2>2, <3>3, <4>1, <4>3
    <3> QED BY <3>2, <3>3
  <2> QED BY <2>1, <2>2
<1>4. CASE UNCHANGED vars
  BY <1>1, <1>4 DEF vars, cli
<1> QED BY <1>1, <1>2, <1>3, <1>4, CliFrame, ScannerFrame, ProducerFrame, HandlerFrame
        DEF Next, cli

\* How the handler gets past its loop, and what it takes from the producer.
LEMMA HandlerTurns ==
  ASSUME TypeOK, NEW t \in Turns, HandlerStep(t) \/ Heartbeat(t)
  PROVE  /\ hpc'[t] = "loop" =>
              \/ hpc[t] = "model"
              \/ hpc[t] = "loop" /\ held[t] # "error" /\ ppc[t] = "send"
              \/ hpc[t] = "loop" /\ UNCHANGED <<ppc, held>>
         /\ hpc'[t] \in {"embed", "save", "finish"} =>
              hpc[t] \in {"embed", "save"} \/ (hpc[t] = "loop" /\ ppc[t] = "gone")
         /\ UNCHANGED producer \/ ppc[t] = "send" \/ hpc[t] = "model"
<1> USE DEF producer
<1>1. ASSUME NEW event, NEW next \in {"loop", "finish", "done"}, WriteSSE(t, event, next)
      PROVE  hpc'[t] \in {next, "done"}
  BY <1>1 DEF WriteSSE, Return, TypeOK
<1>2. CASE CallModel(t) \/ StreamClosed(t) \/ ContextDone(t)
  BY <1>2 DEF CallModel, StreamClosed, ContextDone, Return, TypeOK
<1>3. CASE TakeDelta(t)
  <2>1. hpc[t] = "loop" /\ ppc[t] = "send"
    BY <1>3 DEF TakeDelta
  <2>2. held[t] = "error" => hpc'[t] = "done"
    BY <1>1, <1>3 DEF TakeDelta
  <2>3. hpc'[t] \in {"loop", "done"}
    BY <1>1, <1>3 DEF TakeDelta
  <2> QED BY <2>1, <2>2, <2>3
<1>4. CASE Heartbeat(t)
  BY <1>1, <1>4 DEF Heartbeat
<1>5. CASE Embed(t) \/ Save(t)
  <2>1. hpc[t] \in {"embed", "save"} /\ UNCHANGED producer
    BY <1>5 DEF Embed, Save
  <2>2. hpc'[t] # "loop"
    BY <1>1, <1>5 DEF Embed, Save, Warn, TypeOK
  <2> QED BY <2>1, <2>2
<1>6. CASE Finish(t)
  <2>1. hpc'[t] = "done" /\ UNCHANGED producer
    BY <1>1, <1>6 DEF Finish
  <2> QED BY <2>1
<1> QED BY <1>2, <1>3, <1>4, <1>5, <1>6 DEF HandlerStep

\* A stream with an error in it is never completed.
LEMMA EndStep ==
  ASSUME TypeOK, EarlyInv, TurnInv, FinishedInv, EndInv, [Next]_vars
  PROVE  EndInv'
<1> SUFFICES ASSUME NEW t \in Turns
             PROVE  /\ hpc'[t] = "loop" /\ body'[t] = "bad" =>
                         ppc'[t] = "send" /\ held'[t] = "error"
                    /\ Completed(t)' => ppc'[t] = "gone" /\ body'[t] # "bad"
  BY DEF EndInv
<1>1. /\ hpc[t] = "loop" /\ body[t] = "bad" => ppc[t] = "send" /\ held[t] = "error"
      /\ Completed(t) => ppc[t] = "gone" /\ body[t] # "bad"
      /\ hpc[t] \in {"none", "model"} => ppc[t] = "none" /\ body[t] = "open"
  BY DEF EndInv, EarlyInv
<1>2. ASSUME hpc'[t] \in {"embed", "save", "finish"} => Completed(t),
             saved'[t] # NotSaved => Completed(t)
      PROVE  Completed(t)' => Completed(t)
  <2>1. HasFinished(t)' => Completed(t)
    BY FinishedKinds DEF Completed
  <2>2. ASSUME NEW k \in Kept', k.turn = t PROVE Completed(t)
    <3>1. CASE k \in Kept
      BY <2>2, <3>1 DEF Completed
    <3>2. CASE k \notin Kept
      <4>1. k.turn = turn /\ picked[turn].kind = "finished"
        BY <3>2, KeptKinds
      <4> QED BY <2>2, <4>1 DEF Completed, HasFinished
    <3> QED BY <3>1, <3>2
  <2> QED BY <1>2, <2>1, <2>2 DEF Completed
<1> DEFINE Ends == /\ hpc'[t] = "loop" /\ body'[t] = "bad" =>
                        ppc'[t] = "send" /\ held'[t] = "error"
                   /\ Completed(t)' => ppc'[t] = "gone" /\ body'[t] # "bad"
<1>3. ASSUME ppc'[t] = ppc[t], held'[t] = held[t], body'[t] = body[t],
             saved'[t] = saved[t], hpc'[t] = hpc[t] \/ hpc'[t] \in {"model", "done"}
      PROVE  Ends
  BY <1>1, <1>2, <1>3 DEF Completed
<1>4. CASE Ask \/ Clear \/ Leave \/ CtrlC \/ CliStep \/ WriteFails
  <2>1. UNCHANGED <<producer, saved>>
    BY <1>4, CliFrame
  <2>2. hpc'[t] = hpc[t] \/ hpc'[t] \in {"model", "done"}
    BY <1>4, CliFrame DEF Connect, TypeOK
  <2> QED BY <1>3, <2>1, <2>2 DEF producer
<1>5. ASSUME NEW s \in Turns, ScannerStep(s) \/ Drop(s) \/ Notice(s) PROVE Ends
  BY <1>3, <1>5, ScannerFrame DEF producer
<1>6. ASSUME NEW s \in Turns, ProducerStep(s) PROVE Ends
  <2>1. hpc' = hpc /\ saved' = saved
    BY <1>6, ProducerFrame DEF handler
  <2>2. CASE s # t
    BY <1>3, <1>6, <2>1, <2>2 DEF ProducerStep, ScanLine, BodyEnds, ProducerStop, TypeOK
  <2>3. CASE s = t
    <3>1. ppc[t] \in {"scan", "send"} /\ ~Completed(t)
      BY <1>1, <1>6, <2>3 DEF ProducerStep, ScanLine, BodyEnds, ProducerStop
    <3>2. ~Completed(t)'
      BY <1>2, <2>1, <3>1 DEF Completed
    <3>3. \/ body'[t] = body[t] /\ (ppc[t] = "scan" \/ held[t] # "error")
          \/ body'[t] # "bad"
          \/ ppc'[t] = "send" /\ held'[t] = "error"
      BY <1>6, <2>3 DEF ProducerStep, ScanLine, BodyEnds, ProducerStop, SendGivesUp, TypeOK
    <3> QED BY <1>1, <2>1, <3>1, <3>2, <3>3
  <2> QED BY <2>2, <2>3
<1>7. ASSUME NEW s \in Turns, HandlerStep(s) \/ Heartbeat(s) PROVE Ends
  <2>1. CASE s # t
    BY <1>3, <1>7, <2>1, HandlerFrame
  <2>2. CASE s = t
    <3>1. body'[t] = body[t] /\ (hpc[t] # "save" => saved'[t] = saved[t])
      BY <1>7, <2>2, HandlerFrame, HandlerWrites
    <3>2. hpc'[t] = "loop" /\ body'[t] = "bad" => ppc'[t] = "send" /\ held'[t] = "error"
      BY <1>1, <1>7, <2>2, <3>1, HandlerTurns
    <3>3. Completed(t)' => Completed(t) \/ (hpc[t] = "loop" /\ ppc[t] = "gone")
      <4>1. CASE hpc[t] = "loop" /\ ppc[t] = "gone"
        BY <4>1
      <4>2. CASE ~(hpc[t] = "loop" /\ ppc[t] = "gone")
        BY <1>2, <1>7, <2>2, <3>1, <4>2, HandlerTurns DEF Completed
      <4> QED BY <4>1, <4>2
    <3>4. Completed(t)' => ppc[t] = "gone" /\ body[t] # "bad"
      BY <1>1, <3>3
    <3>5. Completed(t)' => UNCHANGED producer
      BY <1>1, <1>7, <2>2, <3>4, HandlerTurns
    <3> QED BY <3>1, <3>2, <3>4, <3>5 DEF producer
  <2> QED BY <2>1, <2>2
<1>8. CASE UNCHANGED vars
  BY <1>3, <1>8 DEF vars, handler, producer
<1> QED BY <1>4, <1>5, <1>6, <1>7, <1>8 DEF Next

\* What becomes of a request context and its connection, and who saves.
LEMMA EndedKinds ==
  ASSUME TypeOK, EarlyInv, TurnInv, [Next]_vars, NEW t \in Turns
  PROVE  /\ linked'[t] => linked[t]
         /\ ended[t] /\ hpc[t] # "none" => ended'[t]
         /\ ended'[t] => ended[t] \/ hpc'[t] = "done" \/ ~linked[t]
         /\ hpc'[t] = "save" => hpc[t] = "save" \/ ~ended[t]
         /\ hpc[t] # "save" => saved'[t] = saved[t]
<1> DEFINE Goal == /\ linked'[t] => linked[t]
                   /\ ended[t] /\ hpc[t] # "none" => ended'[t]
                   /\ ended'[t] => ended[t] \/ hpc'[t] = "done" \/ ~linked[t]
                   /\ hpc'[t] = "save" => hpc[t] = "save" \/ ~ended[t]
                   /\ hpc[t] # "save" => saved'[t] = saved[t]
<1>1. ASSUME linked' = linked \/ linked' = All(FALSE)
               \/ \E s \in Turns : linked' = [linked EXCEPT ![s] = FALSE]
      PROVE  linked'[t] => linked[t]
  BY <1>1 DEF All, TypeOK
<1>2. CASE Ask \/ Clear \/ Leave \/ CtrlC \/ CliStep \/ WriteFails
  <2>1. linked'[t] => linked[t]
    <3>1. CASE TakeEvent
      BY <3>1 DEF TakeEvent, TypeOK
    <3> QED BY <1>2, <1>1, <3>1 DEF Ask, Clear, Leave, CtrlC, CliStep, WriteFails, Connect,
                 GetResponse, NoFinish, All, link, TypeOK
  <2>2. saved' = saved
    BY <1>2, CliFrame
  <2>3. CASE UNCHANGED <<hpc, ended>>
    BY <2>1, <2>2, <2>3
  <2>4. CASE Connect
    <3>1. turn \in Turns /\ hpc[turn] = "none"
      BY <2>4 DEF Connect, TurnInv, EarlyInv, Future
    <3>2. CASE t = turn
      BY <2>1, <2>2, <2>4, <3>1, <3>2 DEF Connect, TypeOK
    <3>3. CASE t # turn
      BY <2>1, <2>2, <2>4, <3>3 DEF Connect, TypeOK
    <3> QED BY <3>2, <3>3
  <2> QED BY <1>2, <2>3, <2>4, CliFrame
<1>3. ASSUME NEW s \in Turns, ScannerStep(s) \/ Drop(s) \/ Notice(s) PROVE Goal
  <2>1. linked'[t] => linked[t]
    BY <1>3, <1>1 DEF ScannerStep, ScanEvent, ScanEnd, ScanStop, ScannerReturns, Pick, Drop,
                      Notice, link
  <2>2. UNCHANGED <<hpc, saved>>
    BY <1>3, ScannerFrame
  <2>3. ended' = ended \/ (~linked[s] /\ ended' = [ended EXCEPT ![s] = TRUE])
    BY <1>3, ScannerFrame DEF Notice
  <2> QED BY <2>1, <2>2, <2>3 DEF TypeOK
<1>4. ASSUME NEW s \in Turns, ProducerStep(s) PROVE Goal
  BY <1>4, ProducerFrame DEF handler, link
<1>5. ASSUME NEW s \in Turns, HandlerStep(s) \/ Heartbeat(s) PROVE Goal
  <2>1. linked' = linked
    BY <1>5, HandlerFrame
  <2>2. hpc[t] # "save" => saved'[t] = saved[t]
    BY <1>5, HandlerFrame, HandlerWrites
  <2>3. \/ ended' = ended
        \/ hpc'[s] = "done" /\ ended' = [ended EXCEPT ![s] = TRUE]
    <3>1. ASSUME NEW event, NEW next, WriteSSE(s, event, next)
          PROVE  \/ ended' = ended
                 \/ hpc'[s] = "done" /\ ended' = [ended EXCEPT ![s] = TRUE]
      BY <3>1 DEF WriteSSE, Return, TypeOK
    <3>2. CASE CallModel(s) \/ StreamClosed(s) \/ ContextDone(s)
      BY <3>2 DEF CallModel, StreamClosed, ContextDone, Return, TypeOK
    <3>3. CASE TakeDelta(s) \/ Heartbeat(s) \/ Finish(s)
      BY <3>1, <3>3 DEF TakeDelta, Heartbeat, Finish
    <3>4. CASE Embed(s) \/ Save(s)
      BY <3>1, <3>4 DEF Embed, Save, Warn
    <3> QED BY <1>5, <3>2, <3>3, <3>4 DEF HandlerStep
  <2>4. hpc'[t] = "save" => hpc[t] = "save" \/ ~ended[t]
    <3>1. CASE s # t
      BY <1>5, <3>1, HandlerFrame
    <3>2. CASE s = t
      <4>1. ASSUME NEW event, NEW next \in {"loop", "finish", "done"},
                   WriteSSE(t, event, next)
            PROVE  hpc'[t] # "save"
        BY <4>1 DEF WriteSSE, Return, TypeOK
      <4>2. CASE CallModel(t) \/ StreamClosed(t) \/ ContextDone(t)
        BY <4>2 DEF CallModel, StreamClosed, ContextDone, Return, TypeOK
      <4>3. CASE TakeDelta(t) \/ Heartbeat(t) \/ Finish(t)
        BY <4>1, <4>3 DEF TakeDelta, Heartbeat, Finish
      <4>4. CASE Embed(t) \/ Save(t)
        BY <4>1, <4>4 DEF Embed, ContextAlive, Save, Warn
      <4> QED BY <1>5, <3>2, <4>2, <4>3, <4>4 DEF HandlerStep
    <3> QED BY <3>1, <3>2
  <2> QED BY <2>1, <2>2, <2>3, <2>4 DEF TypeOK
<1>6. CASE UNCHANGED vars
  BY <1>6 DEF vars, handler, link
<1> QED BY <1>2, <1>3, <1>4, <1>5, <1>6 DEF Next

\* A stream that is stopped was not complete, since its producer was at it.
LEMMA StoppedKinds ==
  ASSUME TypeOK, [Next]_vars, NEW t \in Turns, body'[t] = "stopped", body[t] # "stopped"
  PROVE  /\ ended[t] /\ ppc[t] \in {"scan", "send"}
         /\ UNCHANGED <<cli, handler, link, scanner>>
<1>1. body' # body
  OBVIOUS
<1>2. PICK s \in Turns : ProducerStep(s)
  BY <1>1, CliFrame, ScannerFrame, HandlerFrame DEF Next, producer, vars
<1>3. s = t
  BY <1>2 DEF ProducerStep, ScanLine, BodyEnds, ProducerStop, TypeOK
<1>4. ended[t] /\ ppc[t] \in {"scan", "send"}
  <2>1. CASE ScanLine(t)
    BY <2>1 DEF ScanLine, TypeOK
  <2>2. CASE BodyEnds(t)
    BY <2>2 DEF BodyEnds, TypeOK
  <2>3. CASE ProducerStop(t)
    BY <2>3 DEF ProducerStop, SendGivesUp
  <2> QED BY <1>2, <1>3, <2>1, <2>2, <2>3 DEF ProducerStep
<1> QED BY <1>2, <1>4, ProducerFrame

\* A stream that was stopped is neither saved nor finished.
LEMMA StopStep ==
  ASSUME TypeOK, EarlyInv, TurnInv, EndInv, StopInv, [Next]_vars
  PROVE  StopInv'
<1> SUFFICES ASSUME NEW t \in Turns
             PROVE  /\ ended'[t] => hpc'[t] = "done" \/ ~linked'[t]
                    /\ body'[t] = "stopped" =>
                         /\ ended'[t] /\ hpc'[t] # "save" /\ saved'[t] = NotSaved
                         /\ ~HasFinished(t)' /\ \A k \in Kept' : k.turn # t
  BY DEF StopInv, HasFinished
<1>1. /\ ended[t] => hpc[t] = "done" \/ ~linked[t]
      /\ body[t] = "stopped" =>
           /\ ended[t] /\ hpc[t] # "save" /\ saved[t] = NotSaved
           /\ ~HasFinished(t) /\ \A k \in Kept : k.turn # t
  BY DEF StopInv
<1>2. ended'[t] => hpc'[t] = "done" \/ ~linked'[t]
  BY <1>1, EndedKinds, DoneForGood
<1>3. ASSUME body[t] = "stopped"
      PROVE  /\ ended'[t] /\ hpc'[t] # "save" /\ saved'[t] = NotSaved
             /\ ~HasFinished(t)' /\ \A k \in Kept' : k.turn # t
  <2>1. hpc[t] # "none"
    BY <1>3 DEF EarlyInv
  <2>2. ended'[t] /\ hpc'[t] # "save" /\ saved'[t] = NotSaved
    BY <1>1, <1>3, <2>1, EndedKinds
  <2>3. ~HasFinished(t)'
    BY <1>1, <1>3, FinishedKinds
  <2>4. \A k \in Kept' : k.turn # t
    BY <1>1, <1>3, KeptKinds DEF HasFinished
  <2> QED BY <2>2, <2>3, <2>4
<1>4. ASSUME body[t] # "stopped", body'[t] = "stopped"
      PROVE  /\ ended'[t] /\ hpc'[t] # "save" /\ saved'[t] = NotSaved
             /\ ~HasFinished(t)' /\ \A k \in Kept' : k.turn # t
  <2>1. /\ ended[t] /\ ppc[t] \in {"scan", "send"}
        /\ UNCHANGED <<cli, handler, link, scanner>>
    BY <1>4, StoppedKinds
  <2>2. ~Completed(t)
    BY <2>1 DEF EndInv
  <2>3. HasFinished(t)' = HasFinished(t) /\ Kept' = Kept
    BY <2>1 DEF HasFinished, Kept, cli, link, scanner
  <2> QED BY <2>1, <2>2, <2>3 DEF Completed, handler
<1> QED BY <1>2, <1>3, <1>4

\* The members of a sequence over a set are in the set.
LEMMA MembersTypes ==
  ASSUME NEW S, NEW s \in Seq(S), NEW i \in DOMAIN s
  PROVE  s[i] \in S
OBVIOUS

\* What is kept stays true: the turn is over for the handler and for the CLI.
LEMMA KeptStep ==
  ASSUME TypeOK, EarlyInv, TurnInv, FinishedInv, WarnInv, KeptInv, [Next]_vars
  PROVE  KeptInv'
<1> SUFFICES ASSUME NEW k \in Kept'
             PROVE  /\ k.turn < turn' \/ (k.turn = turn' /\ app' \in {"prompt", "exit"})
                    /\ hpc'[k.turn] = "done"
                    /\ k.answer = answer'[k.turn] /\ k.answer = shown'[k.turn]
                    /\ saved'[k.turn] = k.answer \/ warned'[k.turn]
  BY DEF KeptInv
<1>1. CASE k \in Kept
  <2>1. /\ k.turn < turn \/ (k.turn = turn /\ app \in {"prompt", "exit"})
        /\ hpc[k.turn] = "done"
        /\ k.answer = answer[k.turn] /\ k.answer = shown[k.turn]
        /\ saved[k.turn] = k.answer \/ warned[k.turn]
    BY <1>1 DEF KeptInv
  <2>2. k.turn \in Turns /\ k.turn \in Nat /\ turn \in Nat
    <3>1. PICK i \in DOMAIN talk : k = talk[i]
      BY <1>1 DEF Kept
    <3>2. k \in [turn : Turns, answer : 1 .. MaxLines]
      <4>1. talk \in Seq([turn : Turns, answer : 1 .. MaxLines])
        BY DEF TypeOK
      <4> QED BY <3>1, <4>1, MembersTypes
    <3> QED BY <3>2 DEF Turns, TypeOK
  <2>3. /\ hpc'[k.turn] = "done"
        /\ answer'[k.turn] = answer[k.turn] /\ saved'[k.turn] = saved[k.turn]
    BY <2>1, <2>2, DoneForGood
  <2>4. /\ shown'[k.turn] = shown[k.turn] /\ (warned[k.turn] => warned'[k.turn])
        /\ k.turn < turn' \/ (k.turn = turn' /\ app' \in {"prompt", "exit"})
    <3>1. CASE UNCHANGED cli
      BY <2>1, <3>1 DEF cli
    <3>2. CASE Ask
      BY <2>1, <2>2, <3>2 DEF Ask
    <3>3. CASE Clear \/ Leave \/ CtrlC
      BY <2>1, <3>3 DEF Clear, Leave, CtrlC
    <3>4. CASE Connect \/ GetResponse \/ NoFinish \/ WriteFails
      <4>1. UNCHANGED <<turn, shown, warned>> /\ app \notin {"prompt", "exit"}
        BY <3>4 DEF Connect, GetResponse, NoFinish, WriteFails
      <4> QED BY <2>1, <4>1
    <3>5. CASE TakeEvent
      <4>1. /\ app = "receive" /\ turn' = turn
            /\ \E x : shown' = [shown EXCEPT ![turn] = x]
            /\ \E x : warned' = [warned EXCEPT ![turn] = x]
        BY <3>5 DEF TakeEvent
      <4>2. k.turn # turn /\ k.turn < turn
        BY <2>1, <2>2, <4>1
      <4> QED BY <2>2, <4>1, <4>2 DEF TypeOK
    <3>6. CASE UNCHANGED vars
      BY <3>1, <3>6 DEF vars
    <3> QED BY <3>1, <3>2, <3>3, <3>4, <3>5, <3>6, ScannerFrame, ProducerFrame,
               HandlerFrame DEF Next, CliStep
  <2> QED BY <2>1, <2>3, <2>4
<1>2. CASE k \notin Kept
  <2>1. /\ TakeEvent /\ picked[turn].kind = "finished" /\ k.turn = turn
        /\ k.answer = IF picked[turn].answer > 0 THEN picked[turn].answer ELSE shown[turn]
        /\ k.answer # 0
    BY <1>2, KeptKinds
  <2>2. /\ app = "receive" /\ spc[turn] = "send" /\ turn \in Turns /\ turn' = turn
        /\ app' = "prompt" /\ Live
    BY <2>1 DEF TakeEvent, TurnInv, Live
  <2>3. SavedOrSeen(turn) /\ picked[turn].answer = answer[turn] /\ shown[turn] = answer[turn]
    BY <2>1, <2>2 DEF WarnInv, Warns
  <2>4. k.answer = answer[turn] /\ (saved[turn] = k.answer \/ warned[turn])
    BY <2>1, <2>3 DEF SavedOrSeen
  <2>5. hpc[turn] = "done"
    BY <2>1, <2>2 DEF FinishedInv, HasFinished
  <2>6. hpc'[turn] = "done" /\ answer'[turn] = answer[turn] /\ saved'[turn] = saved[turn]
    BY <2>2, <2>5, DoneForGood
  <2>7. shown'[turn] = shown[turn] /\ (warned[turn] => warned'[turn])
    BY <2>1, <2>2 DEF TakeEvent, TypeOK
  <2> QED BY <2>1, <2>2, <2>3, <2>4, <2>6, <2>7
<1> QED BY <1>1, <1>2

\* A question goes out only if its answer still fits into the conversation.
LEMMA RoomStep ==
  ASSUME TypeOK, TurnInv, RoomInv, [Next]_vars
  PROVE  RoomInv'
<1>1. Len(talk) \in Nat
  BY DEF TypeOK
<1>2. ASSUME UNCHANGED <<talk, turn>>, app' = app \/ app' \notin {"await", "receive"},
             turn \in Turns /\ refused[turn] => refused'[turn]
      PROVE  RoomInv'
  BY <1>2 DEF RoomInv, TalkBounded, Room, TurnInv
<1>3. CASE Ask \/ Leave \/ CtrlC \/ NoFinish \/ WriteFails
  <2>1. UNCHANGED <<talk, refused>> /\ (app' = app \/ app' \notin {"await", "receive"})
    BY <1>3 DEF Ask, Leave, CtrlC, NoFinish, WriteFails, handler
  <2>2. turn' = turn \/ app' = "connect"
    BY <1>3 DEF Ask, Leave, CtrlC, NoFinish, WriteFails
  <2> QED BY <2>1, <2>2 DEF RoomInv, TalkBounded, Room
<1>4. CASE Clear
  <2>1. Len(talk') = 0 /\ app' = "prompt"
    BY <1>4 DEF Clear
  <2> QED BY <2>1 DEF RoomInv, TalkBounded
<1>5. CASE Connect
  <2>1. UNCHANGED <<talk, turn>> /\ turn \in Turns
    BY <1>5 DEF Connect, TurnInv
  <2>2. app' = "prompt" \/ (app' = "await" /\ refused'[turn] = TooLong(talk))
    BY <1>5, <2>1 DEF Connect, TypeOK
  <2>3. ~TooLong(talk) => Room
    BY <1>1 DEF TooLong, Room
  <2> QED BY <2>1, <2>2, <2>3 DEF RoomInv, TalkBounded, Room
<1>6. CASE GetResponse
  BY <1>6 DEF GetResponse, RoomInv, TalkBounded, Room, handler
<1>7. CASE TakeEvent
  <2>1. /\ app = "receive" /\ UNCHANGED <<turn, refused>> /\ Room
        /\ talk' = talk \/ (\E new : talk' = Append(talk, new) /\ app' = "prompt")
        /\ app' \in {"receive", "prompt"}
    BY <1>7 DEF TakeEvent, AddTurn, RoomInv, handler
  <2>2. talk' = talk \/ (Len(talk') = Len(talk) + 1 /\ app' = "prompt")
    BY <2>1 DEF TypeOK
  <2> QED BY <1>1, <2>1, <2>2 DEF RoomInv, TalkBounded, Room
<1>8. ASSUME NEW t \in Turns, ScannerStep(t) \/ Drop(t) \/ Notice(t) \/ ProducerStep(t)
      PROVE  RoomInv'
  <2>1. UNCHANGED <<talk, turn, app, refused>>
    BY <1>8, ScannerFrame, ProducerFrame DEF cli, handler
  <2> QED BY <1>2, <2>1
<1>9. ASSUME NEW t \in Turns, HandlerStep(t) \/ Heartbeat(t) PROVE RoomInv'
  <2>1. UNCHANGED <<talk, turn, app>>
    BY <1>9, HandlerFrame DEF cli
  <2>2. refused' = refused \/ refused' = [refused EXCEPT ![t] = TRUE]
    BY <1>9 DEF HandlerStep, CallModel, TakeDelta, StreamClosed, ContextDone, Embed,
                Save, Finish, Heartbeat
  <2> QED BY <1>2, <2>1, <2>2 DEF TypeOK
<1>10. CASE UNCHANGED vars
  BY <1>2, <1>10 DEF vars, cli, handler
<1> QED BY <1>3, <1>4, <1>5, <1>6, <1>7, <1>8, <1>9, <1>10 DEF Next, CliStep

---------------------------------------------------------------------------
(* The question the CLI waits for.                                         *)

\* The CLI waits for the same question as before, or it has just sent it.
LEMMA LiveKinds ==
  ASSUME TypeOK, EarlyInv, TurnInv, [Next]_vars, Live'
  PROVE  turn' = turn /\ turn \in Turns /\ (Live \/ Connect)
<1>1. CASE Ask \/ Clear \/ Leave \/ CtrlC
  BY <1>1 DEF Ask, Clear, Leave, CtrlC, Live, TurnInv, scanner
<1>2. CASE Connect
  BY <1>2 DEF Connect, TurnInv
<1>3. CASE GetResponse \/ TakeEvent
  BY <1>3 DEF GetResponse, TakeEvent, TurnInv, EarlyInv, Live
<1>4. CASE NoFinish \/ WriteFails
  BY <1>4 DEF NoFinish, WriteFails, Live
<1>5. ASSUME UNCHANGED <<turn, app>>, turn \in Turns => spc'[turn] = spc[turn]
      PROVE  turn' = turn /\ turn \in Turns /\ Live
  BY <1>5 DEF Live, TurnInv
<1>6. ASSUME NEW t \in Turns, ScannerStep(t)
      PROVE  turn' = turn /\ turn \in Turns /\ Live
  <2>1. UNCHANGED <<turn, app>>
    BY <1>6, ScannerFrame DEF cli
  <2>2. spc[t] # "gone"
    BY <1>6 DEF ScannerStep, ScanEvent, ScanEnd, ScanStop, ScanGivesUp
  <2>3. \A s \in Turns \ {t} : spc'[s] = spc[s]
    BY <1>6 DEF ScannerStep, ScanEvent, ScanEnd, ScanStop, ScannerReturns, Pick, scanner,
                TypeOK
  <2> QED BY <2>1, <2>2, <2>3 DEF Live, TurnInv
<1>7. ASSUME NEW t \in Turns,
             Drop(t) \/ Notice(t) \/ ProducerStep(t) \/ HandlerStep(t) \/ Heartbeat(t)
      PROVE  UNCHANGED <<turn, app, spc>>
  BY <1>7, ProducerFrame, HandlerFrame DEF Drop, Notice, cli, scanner
<1>8. CASE UNCHANGED vars
  BY <1>5, <1>8 DEF vars, cli, scanner
<1> QED BY <1>1, <1>2, <1>3, <1>4, <1>5, <1>6, <1>7, <1>8 DEF Next, CliStep

\* The sum is right as long as nothing moves, or a text moves from the scanner's
\* hand to the screen; and when the connection breaks.
LEMMA AddsSame ==
  ASSUME NEW t \in Turns, NEW f, Adds(f, t), wire'[t] = wire[t], answer'[t] = answer[t],
         linked'[t] => linked[t], shown'[t] + Ahead(t)' = shown[t] + Ahead(t)
  PROVE  Adds(f, t)'
BY DEF Adds, Tally

\* The sum is right after the handler has written an event.
LEMMA AddsAppend ==
  ASSUME TypeOK, NEW t \in Turns, NEW f, Adds(f, t), NEW event \in Event,
         linked[t], linked'[t] = linked[t], wire'[t] = Append(wire[t], event),
         answer'[t] = answer[t] + IsText(event),
         shown'[t] + Ahead(t)' = shown[t] + Ahead(t), ~HasFinished(t),
         event.kind = "finished" => event.answer = answer'[t]
  PROVE  \E g \in [0 .. Len(wire'[t]) -> Nat] : Adds(g, t)'
<1>1. wire[t] \in Seq(Event) /\ Len(wire[t]) \in Nat
  BY EventTypes
<1>2. PICK g \in [0 .. Len(wire[t]) + 1 -> Nat] :
        /\ Tally(g, Append(wire[t], event))
        /\ \A i \in 0 .. Len(wire[t]) : g[i] = f[i]
        /\ g[Len(wire[t]) + 1] = f[Len(wire[t])] + IsText(event)
  BY <1>1, TallyAppend DEF Adds
<1>3. /\ Len(wire'[t]) = Len(wire[t]) + 1 /\ wire'[t][Len(wire[t]) + 1] = event
      /\ \A i \in 1 .. Len(wire[t]) : wire'[t][i] = wire[t][i]
  BY <1>1
<1>4. g[Len(wire'[t])] = answer'[t] /\ answer'[t] <= answer'[t]
  <2>1. f[Len(wire[t])] = answer[t]
    BY DEF Adds
  <2>2. answer[t] \in Nat /\ IsText(event) \in Nat
    BY DEF TypeOK, IsText
  <2> QED BY <1>2, <1>3, <2>1, <2>2
<1>5. g[0] = shown'[t] + Ahead(t)'
  BY <1>1, <1>2 DEF Adds
<1>6. \A i \in 1 .. Len(wire'[t]) : wire'[t][i].kind = "finished" =>
        wire'[t][i].answer = answer'[t] /\ g[i] = answer'[t]
  <2> SUFFICES ASSUME NEW i \in 1 .. Len(wire'[t]), wire'[t][i].kind = "finished"
               PROVE  wire'[t][i].answer = answer'[t] /\ g[i] = answer'[t]
    OBVIOUS
  <2>1. i = Len(wire'[t])
    BY <1>1, <1>3 DEF HasFinished
  <2> QED BY <1>3, <1>4, <2>1
<1> QED BY <1>2, <1>3, <1>4, <1>5, <1>6 DEF Adds

\* The sum is right after the scanner has taken an event.
LEMMA AddsScan ==
  ASSUME TypeOK, FinishedInv, NEW t \in Turns, NEW f, Adds(f, t), ScanEvent(t)
  PROVE  \E g \in [0 .. Len(wire'[t]) -> Nat] : Adds(g, t)'
<1>1. /\ wire[t] # <<>> /\ wire'[t] = Tail(wire[t]) /\ spc[t] = "scan"
      /\ UNCHANGED <<shown, answer, linked>>
  BY DEF ScanEvent, Pick, cli, handler, TypeOK
<1>2. /\ wire[t] \in Seq(Event) /\ Len(wire[t]) \in Nat /\ Len(wire[t]) >= 1
      /\ Head(wire[t]) = wire[t][1] /\ Len(wire'[t]) = Len(wire[t]) - 1
      /\ \A i \in 1 .. Len(wire[t]) - 1 : wire'[t][i] = wire[t][i + 1]
  BY <1>1, EventTypes
<1>3. PICK g \in [0 .. Len(wire[t]) - 1 -> Nat] :
        /\ Tally(g, Tail(wire[t])) /\ \A i \in 0 .. Len(wire[t]) - 1 : g[i] = f[i + 1]
  BY <1>1, <1>2, TallyTail DEF Adds
<1>4. Ahead(t)' = IsText(wire[t][1])
  <2>1. CASE wire[t][1].kind = "heartbeat" /\ UNCHANGED scanner
    BY <1>1, <2>1 DEF Ahead, IsText, scanner
  <2>2. CASE wire[t][1].answer > LineLimit /\ Pick(t, Plain("broken"))
    <3>1. wire[t][1].kind = "finished"
      <4>1. 1 \in 1 .. Len(wire[t]) /\ ~(0 > LineLimit)
        BY <1>2
      <4> QED BY <2>2, <4>1 DEF FinishedInv
    <3>2. spc'[t] = "send" /\ picked'[t] = Plain("broken")
      BY <2>2 DEF Pick, TypeOK
    <3> QED BY <3>1, <3>2 DEF Ahead, IsText, Plain
  <2>3. CASE Pick(t, wire[t][1])
    BY <2>3 DEF Pick, Ahead, TypeOK
  <2> QED BY <1>2, <2>1, <2>2, <2>3 DEF ScanEvent
<1>5. g[0] = shown'[t] + Ahead(t)'
  <2>1. f[1] = f[0] + IsText(wire[t][1]) /\ f[0] = shown[t] + Ahead(t)
    BY <1>2 DEF Adds, Tally
  <2>2. Ahead(t) = 0 /\ shown[t] \in Nat
    BY <1>1 DEF Ahead, TypeOK
  <2>3. g[0] = f[1]
    BY <1>2, <1>3
  <2> QED BY <1>1, <1>4, <2>1, <2>2, <2>3
<1>6. g[Len(wire'[t])] = f[Len(wire[t])]
  BY <1>2, <1>3
<1>7. \A i \in 1 .. Len(wire'[t]) : wire'[t][i].kind = "finished" =>
        wire'[t][i].answer = answer'[t] /\ g[i] = answer'[t]
  BY <1>1, <1>2, <1>3 DEF Adds
<1> QED BY <1>1, <1>2, <1>3, <1>5, <1>6, <1>7 DEF Adds

\* A part of the sum is left when the connection breaks.
LEMMA AddsDrop ==
  ASSUME TypeOK, NEW t \in Turns, NEW f, Adds(f, t), Drop(t)
  PROVE  \E g \in [0 .. Len(wire'[t]) -> Nat] : Adds(g, t)'
<1>1. PICK n \in 0 .. Len(wire[t]) : wire' = [wire EXCEPT ![t] = SubSeq(@, 1, n)]
  BY DEF Drop
<1>2. /\ wire'[t] = SubSeq(wire[t], 1, n) /\ ~linked'[t]
      /\ UNCHANGED <<shown, answer, spc, picked>>
  BY <1>1 DEF Drop, cli, handler, scanner, TypeOK
<1>3. wire[t] \in Seq(Event) /\ Len(wire[t]) \in Nat /\ n \in Nat /\ n <= Len(wire[t])
  BY EventTypes
<1>4. Len(wire'[t]) = n /\ \A i \in 1 .. n : wire'[t][i] = wire[t][i]
  BY <1>2, <1>3
<1>5. /\ Tally(f, wire[t]) /\ f[0] = shown[t] + Ahead(t) /\ f[Len(wire[t])] <= answer[t]
      /\ \A i \in 1 .. Len(wire[t]) : wire[t][i].kind = "finished" =>
           wire[t][i].answer = answer[t] /\ f[i] = answer[t]
  BY DEF Adds
<1>6. PICK g \in [0 .. n -> Nat] :
        Tally(g, SubSeq(wire[t], 1, n)) /\ \A i \in 0 .. n : g[i] = f[i]
  <2>1. n \in 0 .. Len(wire[t])
    BY <1>3
  <2>2. Tally(f, wire[t]) /\ wire[t] \in Seq(Event)
    BY <1>3, <1>5
  <2> QED BY <2>1, <2>2, TallyPrefix
<1>7. g[n] <= answer[t]
  <2>1. f \in [0 .. Len(wire[t]) -> Nat]
    BY <1>5 DEF Tally
  <2>2. \A i, j \in 0 .. Len(wire[t]) : i <= j => f[i] <= f[j]
    BY <1>5 DEF Tally
  <2>3. n \in 0 .. Len(wire[t]) /\ Len(wire[t]) \in 0 .. Len(wire[t])
    BY <1>3
  <2>4. f[n] <= f[Len(wire[t])] /\ f[n] \in Nat /\ f[Len(wire[t])] \in Nat
    BY <1>3, <2>1, <2>2, <2>3
  <2>5. answer[t] \in Nat /\ g[n] = f[n]
    BY <1>3, <1>6 DEF TypeOK
  <2> QED BY <1>5, <2>4, <2>5
<1>8. g[0] = shown'[t] + Ahead(t)'
  BY <1>5, <1>2, <1>3, <1>6 DEF Ahead
<1>9. \A i \in 1 .. n : wire'[t][i].kind = "finished" =>
        wire'[t][i].answer = answer'[t] /\ g[i] = answer'[t]
  <2> SUFFICES ASSUME NEW i \in 1 .. n, wire'[t][i].kind = "finished"
               PROVE  wire'[t][i].answer = answer'[t] /\ g[i] = answer'[t]
    OBVIOUS
  <2>1. i \in 1 .. Len(wire[t]) /\ i \in 0 .. n
    BY <1>3
  <2>2. wire'[t][i] = wire[t][i] /\ g[i] = f[i] /\ answer'[t] = answer[t]
    BY <1>2, <1>4, <1>6, <2>1
  <2> QED BY <1>5, <2>1, <2>2
<1> QED BY <1>2, <1>4, <1>6, <1>7, <1>8, <1>9 DEF Adds

---------------------------------------------------------------------------
(* The steps of a question, seen from the CLI that waits for it.           *)

\* Nothing moves but the scanner: it starts, or it reports a broken connection.
Quiet(t) ==
  /\ wire'[t] = wire[t] /\ answer'[t] = answer[t] /\ saved'[t] = saved[t]
  /\ hpc'[t] = hpc[t] /\ linked'[t] = linked[t]
  /\ shown'[t] = shown[t] /\ warned'[t] = warned[t]
  /\ \/ spc'[t] = spc[t] /\ picked'[t] = picked[t]
     \/ spc[t] \in {"none", "scan"} /\ spc'[t] = "scan"
     \/ spc[t] \in {"none", "scan"} /\ picked'[t] = Plain("broken")

\* The CLI takes an event and goes on waiting.
Takes(t) ==
  /\ wire'[t] = wire[t] /\ answer'[t] = answer[t] /\ saved'[t] = saved[t]
  /\ hpc'[t] = hpc[t] /\ linked'[t] = linked[t]
  /\ spc[t] = "send" /\ spc'[t] = "scan"
  /\ shown'[t] = shown[t] + IsText(picked[t])
  /\ warned'[t] = (warned[t] \/ picked[t].kind = "warning")

\* Scanner and network leave the other questions alone.
LEMMA OthersFrame ==
  ASSUME TypeOK, NEW s \in Turns, ScannerStep(s) \/ Drop(s) \/ Notice(s)
  PROVE  \A t \in Turns \ {s} : /\ wire'[t] = wire[t] /\ linked'[t] = linked[t]
                                /\ spc'[t] = spc[t] /\ picked'[t] = picked[t]
<1> USE DEF scanner, link
<1>1. CASE ScanEvent(s)
  <2>1. wire' = [wire EXCEPT ![s] = Tail(@)]
    BY <1>1 DEF ScanEvent
  <2>2. UNCHANGED <<scanner, linked>> \/ \E event : Pick(s, event)
    BY <1>1 DEF ScanEvent
  <2>3. \A t \in Turns \ {s} :
          linked'[t] = linked[t] /\ spc'[t] = spc[t] /\ picked'[t] = picked[t]
    BY <2>2 DEF Pick, TypeOK
  <2> QED BY <2>1, <2>3 DEF TypeOK
<1>2. CASE ScanEnd(s) \/ ScanStop(s)
  <2>1. wire' = wire
    BY <1>2 DEF ScanEnd, ScanStop
  <2>2. ScannerReturns(s) \/ Pick(s, Plain("broken"))
    BY <1>2 DEF ScanEnd, ScanStop
  <2> QED BY <2>1, <2>2 DEF ScannerReturns, Pick, TypeOK
<1>3. CASE Drop(s)
  <2>1. /\ UNCHANGED scanner /\ linked' = [linked EXCEPT ![s] = FALSE]
        /\ \E n \in 0 .. Len(wire[s]) : wire' = [wire EXCEPT ![s] = SubSeq(@, 1, n)]
    BY <1>3 DEF Drop
  <2> QED BY <2>1 DEF TypeOK
<1>4. CASE Notice(s)
  BY <1>4 DEF Notice
<1> QED BY <1>1, <1>2, <1>3, <1>4 DEF ScannerStep

\* What a step can do while the CLI waits before it and after it.
LEMMA LiveSteps ==
  ASSUME TypeOK, EarlyInv, TurnInv, [Next]_vars, Live, Live',
         NEW t \in Turns, t = turn, t = turn'
  PROVE  \/ Quiet(t) \/ Takes(t) \/ ScanEvent(t) \/ Drop(t)
         \/ HandlerStep(t) \/ Heartbeat(t)
<1> USE DEF cli, handler, producer, link, scanner
<1>1. ASSUME wire'[t] = wire[t], linked'[t] = linked[t], spc'[t] = spc[t],
             picked'[t] = picked[t], answer'[t] = answer[t], saved'[t] = saved[t],
             hpc'[t] = hpc[t], shown'[t] = shown[t], warned'[t] = warned[t]
      PROVE  Quiet(t)
  BY <1>1 DEF Quiet
<1>2. CASE UNCHANGED vars
  BY <1>1, <1>2 DEF vars
<1>3. CASE Ask \/ Clear \/ Leave \/ Connect
  BY <1>3 DEF Ask, Clear, Leave, Connect, Live
<1>4. CASE CtrlC
  BY <1>1, <1>4 DEF CtrlC
<1>5. CASE GetResponse
  <2>1. app = "await" /\ spc[t] = "none"
    BY <1>5 DEF GetResponse, EarlyInv
  <2>2. /\ spc'[t] = "scan" /\ UNCHANGED <<linked, shown, warned, hpc, answer, saved, wire>>
    BY <1>5 DEF GetResponse, Live, TypeOK
  <2> QED BY <2>1, <2>2 DEF Quiet
<1>6. CASE NoFinish \/ WriteFails
  BY <1>6 DEF NoFinish, WriteFails, Live
<1>7. CASE TakeEvent
  <2>1. /\ spc[t] = "send" /\ UNCHANGED <<hpc, answer, saved, wire>>
        /\ shown' = [shown EXCEPT ![t] = IF picked[t].kind = "text" THEN @ + 1 ELSE @]
        /\ warned' = [warned EXCEPT ![t] = @ \/ picked[t].kind = "warning"]
        /\ spc' = [spc EXCEPT ![t] = IF picked[t].kind = "broken" THEN "gone" ELSE "scan"]
        /\ linked' = [linked EXCEPT ![t] = @ /\ picked[t].kind # "broken"]
    BY <1>7 DEF TakeEvent
  <2>2. picked[t].kind # "broken"
    BY <1>7 DEF TakeEvent, Live
  <2>3. spc'[t] = "scan" /\ linked'[t] = linked[t]
    BY <2>1, <2>2 DEF TypeOK
  <2>4. shown'[t] = shown[t] + IsText(picked[t])
    BY <2>1 DEF TypeOK, IsText
  <2>5. warned'[t] = (warned[t] \/ picked[t].kind = "warning")
    BY <2>1 DEF TypeOK
  <2> QED BY <2>1, <2>3, <2>4, <2>5 DEF Takes
<1>8. ASSUME NEW s \in Turns, ScannerStep(s) \/ Drop(s) \/ Notice(s)
      PROVE  Quiet(t) \/ ScanEvent(t) \/ Drop(t)
  <2>1. UNCHANGED <<cli, hpc, answer, saved>>
    BY <1>8, ScannerFrame
  <2>2. CASE s # t
    <3>1. /\ wire'[t] = wire[t] /\ linked'[t] = linked[t]
          /\ spc'[t] = spc[t] /\ picked'[t] = picked[t]
      BY <1>8, <2>2, OthersFrame
    <3> QED BY <1>1, <2>1, <3>1
  <2>3. CASE s = t /\ ScanEnd(t)
    <3>1. ~ScannerReturns(t)
      BY DEF ScannerReturns, Live, TypeOK
    <3>2. spc[t] = "scan" /\ wire' = wire /\ Pick(t, Plain("broken"))
      BY <2>3, <3>1 DEF ScanEnd
    <3>3. picked'[t] = Plain("broken") /\ linked' = linked
      BY <3>2 DEF Pick, TypeOK
    <3> QED BY <2>1, <3>2, <3>3 DEF Quiet
  <2>4. CASE s = t /\ ScanStop(t)
    BY <2>4 DEF ScanStop, ScannerReturns, Live, TypeOK
  <2>5. CASE s = t /\ Notice(t)
    <3>1. UNCHANGED <<wire, linked, spc, picked>>
      BY <2>5 DEF Notice
    <3> QED BY <1>1, <2>1, <3>1
  <2> QED BY <1>8, <2>2, <2>3, <2>4, <2>5 DEF ScannerStep
<1>9. ASSUME NEW s \in Turns, ProducerStep(s) PROVE Quiet(t)
  BY <1>1, <1>9, ProducerFrame
<1>10. ASSUME NEW s \in Turns, HandlerStep(s) \/ Heartbeat(s)
       PROVE  Quiet(t) \/ HandlerStep(t) \/ Heartbeat(t)
  <2>1. CASE s # t
    BY <1>1, <1>10, <2>1, HandlerFrame
  <2> QED BY <1>10, <2>1
<1> QED BY <1>2, <1>3, <1>4, <1>5, <1>6, <1>7, <1>8, <1>9, <1>10 DEF Next, CliStep

\* While the CLI waits, the texts on their way add up to the answer.
LEMMA CountStep ==
  ASSUME TypeOK, EarlyInv, TurnInv, FinishedInv, CountInv, [Next]_vars
  PROVE  CountInv'
<1> SUFFICES ASSUME Live' PROVE CountInv'
  BY DEF CountInv
<1>1. turn' = turn /\ turn \in Turns /\ (Live \/ Connect)
  BY LiveKinds
<1>2. PICK t \in Turns : t = turn /\ t = turn'
  BY <1>1
<1>3. SUFFICES \E g \in [0 .. Len(wire'[t]) -> Nat] : Adds(g, t)'
  <2>1. \A g : Adds(g, t)' => Adds(g, turn)'
    BY <1>2 DEF Adds, Tally, Ahead
  <2>2. wire'[t] = wire'[turn']
    BY <1>2
  <2> QED BY <2>1, <2>2 DEF CountInv
<1>4. CASE Connect
  <2> DEFINE g == [i \in 0 .. 0 |-> 0]
  <2>1. wire[t] = <<>> /\ spc[t] = "none" /\ shown[t] = 0 /\ answer[t] = 0
    BY <1>2, <1>4 DEF Connect, EarlyInv, Future
  <2>2. wire'[t] = <<>> /\ spc'[t] = "none" /\ shown'[t] = 0 /\ answer'[t] = 0
    BY <1>4, <2>1 DEF Connect, scanner, link
  <2>3. g \in [0 .. 0 -> Nat] /\ g[0] = 0
    OBVIOUS
  <2> HIDE DEF g
  <2>4. Len(wire'[t]) = 0
    BY <2>2
  <2>5. Adds(g, t)'
    BY <2>2, <2>3, <2>4 DEF Adds, Tally, Ahead
  <2> QED BY <2>3, <2>4, <2>5
<1>5. CASE Live
  <2>1. PICK f \in [0 .. Len(wire[t]) -> Nat] : Adds(f, t)
    BY <1>2, <1>5 DEF CountInv, Adds, Tally, Ahead
  <2>2. CASE Quiet(t)
    <3>1. Ahead(t)' = Ahead(t)
      BY <2>2 DEF Quiet, Ahead, IsText, Plain
    <3>2. Adds(f, t)'
      BY <2>1, <2>2, <3>1, AddsSame DEF Quiet
    <3> QED BY <2>1, <2>2, <3>2 DEF Quiet
  <2>3. CASE Takes(t)
    <3>1. Ahead(t)' = 0 /\ Ahead(t) = IsText(picked[t]) /\ shown[t] \in Nat
      BY <2>3 DEF Takes, Ahead, TypeOK
    <3>2. shown'[t] + Ahead(t)' = shown[t] + Ahead(t)
      BY <2>3, <3>1 DEF Takes, IsText
    <3>3. Adds(f, t)'
      BY <2>1, <2>3, <3>2, AddsSame DEF Takes
    <3> QED BY <2>1, <2>3, <3>3 DEF Takes
  <2>4. CASE ScanEvent(t)
    BY <2>1, <2>4, AddsScan
  <2>5. CASE Drop(t)
    BY <2>1, <2>5, AddsDrop
  <2>6. CASE HandlerStep(t) \/ Heartbeat(t)
    <3>1. UNCHANGED <<shown, linked, spc, picked>> /\ hpc[t] # "done"
      BY <2>6, HandlerFrame, HandlerRuns DEF cli, scanner
    <3>2. shown'[t] + Ahead(t)' = shown[t] + Ahead(t) /\ ~HasFinished(t)
      BY <3>1 DEF Ahead, FinishedInv
    <3>3. CASE wire'[t] = wire[t] /\ answer'[t] = answer[t]
      <4>1. Adds(f, t)'
        BY <2>1, <3>1, <3>2, <3>3, AddsSame
      <4> QED BY <2>1, <3>3, <4>1
    <3>4. CASE wire'[t] = wire[t] /\ ~linked[t] /\ answer'[t] = answer[t] + 1
      <4>1. /\ Tally(f, wire'[t]) /\ f[0] = shown'[t] + Ahead(t)' /\ ~linked'[t]
            /\ \A i \in 1 .. Len(wire'[t]) : wire'[t][i].kind # "finished"
        BY <2>1, <3>1, <3>2, <3>4 DEF Adds, HasFinished
      <4>2. f[Len(wire[t])] <= answer[t] /\ answer[t] \in Nat
        BY <2>1 DEF Adds, TypeOK
      <4>3. f[Len(wire[t])] \in Nat
        BY <2>1, EventTypes
      <4>4. f[Len(wire'[t])] <= answer'[t]
        BY <3>4, <4>2, <4>3
      <4>5. Adds(f, t)'
        BY <4>1, <4>4 DEF Adds, Tally
      <4> QED BY <2>1, <3>4, <4>5
    <3>5. CASE \E kind \in {"text", "error", "heartbeat", "warning"} : Extends(t, kind)
      <4>1. PICK kind \in {"text", "error", "heartbeat", "warning"} : Extends(t, kind)
        BY <3>5
      <4>2. Plain(kind) \in Event /\ Plain(kind).kind # "finished"
        BY PlainTypes DEF Kinds, Plain
      <4>3. /\ linked[t] /\ linked'[t] = linked[t]
            /\ wire'[t] = Append(wire[t], Plain(kind))
            /\ answer'[t] = answer[t] + IsText(Plain(kind))
        BY <3>1, <4>1 DEF Extends
      <4> QED BY <2>1, <3>2, <4>2, <4>3, AddsAppend
    <3>6. CASE /\ hpc[t] = "finish" /\ hpc'[t] = "done" /\ linked[t]
               /\ wire'[t] = Append(wire[t], FinishedEvent(t))
               /\ UNCHANGED <<answer, saved>>
      <4>1. /\ FinishedEvent(t) \in Event /\ FinishedEvent(t).answer = answer'[t]
            /\ answer'[t] = answer[t] + IsText(FinishedEvent(t))
        BY <3>6 DEF FinishedEvent, Event, Kinds, IsText, TypeOK
      <4>2. linked'[t] = linked[t]
        BY <3>1
      <4> QED BY <2>1, <3>2, <3>6, <4>1, <4>2, AddsAppend
    <3> QED BY <2>6, <3>3, <3>4, <3>5, <3>6, HandlerWrites
  <2> QED BY <1>2, <1>5, <2>2, <2>3, <2>4, <2>5, <2>6, LiveSteps
<1> QED BY <1>1, <1>4, <1>5

\* While the CLI waits, a turn that is not saved has its warning ahead of its
\* finished event.
LEMMA WarnStep ==
  ASSUME TypeOK, EarlyInv, TurnInv, FinishedInv, CountInv, WarnInv, [Next]_vars
  PROVE  WarnInv'
<1> SUFFICES ASSUME Live' PROVE WarnInv'
  BY DEF WarnInv
<1>1. turn' = turn /\ turn \in Turns /\ (Live \/ Connect)
  BY LiveKinds
<1>2. PICK t \in Turns : t = turn /\ t = turn'
  BY <1>1
<1> DEFINE Done == hpc'[t] = "finish" /\ linked'[t] => Told(t, Len(wire[t]))'
           Sent == \A i \in 1 .. Len(wire'[t]) : wire'[t][i].kind = "finished" =>
                     Told(t, i - 1)'
           Got == spc'[t] = "send" /\ picked'[t].kind = "finished" =>
                    /\ SavedOrSeen(t)' /\ picked'[t].answer = answer'[t]
                    /\ shown'[t] = answer'[t]
<1>3. SUFFICES Done /\ Sent /\ Got
  BY <1>2 DEF WarnInv, Warns, Told, SavedOrSeen
<1>4. CASE Connect
  <2>1. spc[t] = "none" /\ answer[t] = 0
    BY <1>2, <1>4 DEF Connect, EarlyInv, Future
  <2>2. spc'[t] = "none" /\ answer'[t] = 0
    BY <1>4, <2>1 DEF Connect, scanner
  <2> QED BY <2>2 DEF Told, SavedOrSeen
<1>5. CASE Live
  <2>1. /\ hpc[t] = "finish" /\ linked[t] => Told(t, Len(wire[t]))
        /\ \A i \in 1 .. Len(wire[t]) : wire[t][i].kind = "finished" => Told(t, i - 1)
        /\ spc[t] = "send" /\ picked[t].kind = "finished" =>
             SavedOrSeen(t) /\ picked[t].answer = answer[t] /\ shown[t] = answer[t]
    BY <1>2, <1>5 DEF WarnInv, Warns
  <2>2. CASE Quiet(t)
    <3>1. \A n : Told(t, n) => Told(t, n)'
      BY <2>2 DEF Quiet, Told, SavedOrSeen
    <3>2. spc'[t] = "send" /\ picked'[t].kind = "finished" =>
            spc[t] = "send" /\ picked'[t] = picked[t]
      BY <2>2 DEF Quiet, Plain
    <3> QED BY <2>1, <2>2, <3>1, <3>2 DEF Quiet, SavedOrSeen
  <2>3. CASE Takes(t)
    <3>1. \A n : Told(t, n) => Told(t, n)'
      BY <2>3 DEF Takes, Told, SavedOrSeen
    <3> QED BY <2>1, <2>3, <3>1 DEF Takes
  <2>4. CASE ScanEvent(t)
    <3>1. /\ spc[t] = "scan" /\ wire[t] # <<>> /\ wire'[t] = Tail(wire[t])
          /\ UNCHANGED <<shown, warned, answer, saved, hpc, linked>>
      BY <2>4 DEF ScanEvent, Pick, cli, handler, TypeOK
    <3>2. /\ wire[t] \in Seq(Event) /\ Len(wire[t]) \in Nat /\ Len(wire[t]) >= 1
          /\ Head(wire[t]) = wire[t][1] /\ Len(wire'[t]) = Len(wire[t]) - 1
          /\ \A i \in 1 .. Len(wire[t]) - 1 : wire'[t][i] = wire[t][i + 1]
      BY <3>1, EventTypes
    <3>3. \/ wire[t][1].kind = "heartbeat" /\ spc'[t] = "scan"
          \/ wire[t][1].kind = "finished" /\ picked'[t] = Plain("broken")
          \/ spc'[t] = "send" /\ picked'[t] = wire[t][1]
      <4>1. \/ wire[t][1].kind = "heartbeat" /\ UNCHANGED <<scanner, linked>>
            \/ wire[t][1].answer > LineLimit /\ Pick(t, Plain("broken"))
            \/ Pick(t, wire[t][1])
        BY <2>4, <3>2 DEF ScanEvent
      <4>2. wire[t][1].kind # "finished" => wire[t][1].answer = 0
        BY <3>2 DEF FinishedInv
      <4>3. wire[t][1].answer > LineLimit => wire[t][1].kind = "finished"
        BY <4>2
      <4>4. \A event : Pick(t, event) => spc'[t] = "send" /\ picked'[t] = event
        BY DEF Pick, TypeOK
      <4> QED BY <3>1, <4>1, <4>3, <4>4 DEF scanner
    <3>4. ASSUME NEW n \in 0 .. Len(wire'[t]), Told(t, n + 1) PROVE Told(t, n)'
      <4>1. CASE SavedOrSeen(t)
        BY <3>1, <4>1 DEF Told, SavedOrSeen
      <4>2. CASE wire[t][1].kind = "warning"
        BY <3>3, <4>2 DEF Told
      <4>3. ASSUME NEW j \in 1 .. n + 1, wire[t][j].kind = "warning", j # 1
            PROVE  Told(t, n)'
        <5>1. /\ j - 1 \in 1 .. n /\ j - 1 \in 1 .. Len(wire[t]) - 1
              /\ (j - 1) + 1 = j
          BY <3>2, <4>3
        <5>2. wire'[t][j - 1].kind = "warning"
          BY <3>2, <4>3, <5>1
        <5> QED BY <5>1, <5>2 DEF Told
      <4> QED BY <3>1, <3>4, <4>1, <4>2, <4>3 DEF Told
    <3>5. Done
      <4>1. Len(wire'[t]) \in 0 .. Len(wire'[t]) /\ Len(wire'[t]) + 1 = Len(wire[t])
        BY <3>2
      <4>2. hpc'[t] = "finish" /\ linked'[t] => Told(t, Len(wire'[t]) + 1)
        BY <2>1, <3>1, <4>1
      <4>3. hpc'[t] = "finish" /\ linked'[t] => \A n : n = Len(wire'[t]) => Told(t, n)'
        BY <3>4, <4>1, <4>2
      <4> QED BY <4>3 DEF Told
    <3>6. Sent
      <4> SUFFICES ASSUME NEW i \in 1 .. Len(wire'[t]), wire'[t][i].kind = "finished"
                   PROVE  Told(t, i - 1)'
        OBVIOUS
      <4>1. /\ i \in 1 .. Len(wire[t]) - 1 /\ i + 1 \in 1 .. Len(wire[t])
            /\ i - 1 \in 0 .. Len(wire'[t]) /\ (i + 1) - 1 = (i - 1) + 1
        BY <3>2
      <4>2. wire[t][i + 1].kind = "finished"
        BY <3>2, <4>1
      <4>3. Told(t, (i - 1) + 1)
        BY <2>1, <4>1, <4>2
      <4> QED BY <3>4, <4>1, <4>3
    <3>7. Got
      <4> SUFFICES ASSUME spc'[t] = "send", picked'[t].kind = "finished" PROVE Got
        OBVIOUS
      <4>1. picked'[t] = wire[t][1] /\ wire[t][1].kind = "finished"
        BY <3>3 DEF Plain
      <4>2. Told(t, 0)
        <5>1. 1 \in 1 .. Len(wire[t]) /\ 1 - 1 = 0
          BY <3>2
        <5> QED BY <2>1, <4>1, <5>1
      <4>3. SavedOrSeen(t)
        BY <3>1, <4>2 DEF Told
      <4>4. wire[t][1].answer = answer[t] /\ shown[t] = answer[t]
        <5>1. PICK f \in [0 .. Len(wire[t]) -> Nat] : Adds(f, t)
          BY <1>2, <1>5 DEF CountInv, Adds, Tally, Ahead
        <5>2. 1 \in 1 .. Len(wire[t])
          BY <3>2
        <5>3. wire[t][1].answer = answer[t] /\ f[1] = answer[t]
          BY <4>1, <5>1, <5>2 DEF Adds
        <5>4. f[1] = f[0] + IsText(wire[t][1]) /\ f[0] = shown[t] + Ahead(t)
          BY <5>1, <5>2 DEF Adds, Tally
        <5>5. Ahead(t) = 0 /\ IsText(wire[t][1]) = 0 /\ shown[t] \in Nat
          BY <3>1, <4>1 DEF Ahead, IsText, TypeOK
        <5> QED BY <5>3, <5>4, <5>5
      <4> QED BY <3>1, <4>1, <4>3, <4>4 DEF SavedOrSeen
    <3> QED BY <3>5, <3>6, <3>7
  <2>5. CASE Drop(t)
    <3>1. PICK n \in 0 .. Len(wire[t]) : wire' = [wire EXCEPT ![t] = SubSeq(@, 1, n)]
      BY <2>5 DEF Drop
    <3>2. /\ wire'[t] = SubSeq(wire[t], 1, n) /\ ~linked'[t]
          /\ UNCHANGED <<shown, warned, answer, saved, spc, picked>>
      BY <2>5, <3>1 DEF Drop, cli, handler, scanner, TypeOK
    <3>3. wire[t] \in Seq(Event) /\ Len(wire[t]) \in Nat /\ n \in Nat /\ n <= Len(wire[t])
      BY EventTypes
    <3>4. Len(wire'[t]) = n /\ \A i \in 1 .. n : wire'[t][i] = wire[t][i]
      BY <3>2, <3>3
    <3>5. Sent
      <4> SUFFICES ASSUME NEW i \in 1 .. n, wire'[t][i].kind = "finished"
                   PROVE  Told(t, i - 1)'
        BY <3>4
      <4>1. i \in 1 .. Len(wire[t]) /\ wire[t][i].kind = "finished"
        BY <3>3, <3>4
      <4>2. Told(t, i - 1)
        BY <2>1, <4>1
      <4>3. \A j \in 1 .. i - 1 : wire'[t][j] = wire[t][j]
        BY <3>3, <3>4
      <4> QED BY <3>2, <4>2, <4>3 DEF Told, SavedOrSeen
    <3> QED BY <2>1, <3>2, <3>5 DEF SavedOrSeen
  <2>6. CASE HandlerStep(t) \/ Heartbeat(t)
    <3>1. UNCHANGED <<shown, warned, linked, spc, picked>> /\ hpc[t] # "done"
      BY <2>6, HandlerFrame, HandlerRuns DEF cli, scanner
    <3>2. ~HasFinished(t) /\ wire[t] \in Seq(Event) /\ Len(wire[t]) \in Nat
      BY <3>1, EventTypes DEF FinishedInv
    <3>3. Done
      <4> SUFFICES ASSUME hpc'[t] = "finish", linked[t] PROVE Told(t, Len(wire[t]))'
        BY <3>1
      <4>1. CASE answer'[t] = 0 \/ saved'[t] = answer'[t]
        BY <4>1 DEF Told, SavedOrSeen
      <4>2. CASE Extends(t, "warning")
        <5>1. /\ Len(wire'[t]) = Len(wire[t]) + 1
              /\ wire'[t][Len(wire[t]) + 1].kind = "warning"
          BY <3>2, <4>2 DEF Extends, Plain
        <5>2. Len(wire'[t]) \in 1 .. Len(wire'[t])
          BY <3>2, <5>1
        <5> QED BY <5>1, <5>2 DEF Told
      <4> QED BY <2>6, <4>1, <4>2, HandlerWrites
    <3>4. Sent
      <4> SUFFICES ASSUME NEW i \in 1 .. Len(wire'[t]), wire'[t][i].kind = "finished"
                   PROVE  Told(t, i - 1)'
        OBVIOUS
      <4>1. wire'[t] # wire[t]
        BY <3>2 DEF HasFinished
      <4>2. ASSUME NEW event, wire'[t] = Append(wire[t], event)
            PROVE  i = Len(wire[t]) + 1 /\ event.kind = "finished"
        <5>1. /\ Len(wire'[t]) = Len(wire[t]) + 1 /\ wire'[t][Len(wire[t]) + 1] = event
              /\ \A j \in 1 .. Len(wire[t]) : wire'[t][j] = wire[t][j]
          BY <3>2, <4>2
        <5>2. i \notin 1 .. Len(wire[t])
          BY <3>2, <5>1 DEF HasFinished
        <5> QED BY <3>2, <5>1, <5>2
      <4>3. ASSUME NEW kind \in {"text", "error", "heartbeat", "warning"}
            PROVE  ~Extends(t, kind)
        BY <4>2 DEF Extends, Plain
      <4>4. /\ hpc[t] = "finish" /\ linked[t] /\ UNCHANGED <<answer, saved>>
            /\ wire'[t] = Append(wire[t], FinishedEvent(t))
        BY <2>6, <4>1, <4>3, HandlerWrites
      <4>5. Told(t, Len(wire[t])) /\ i - 1 = Len(wire[t])
        BY <2>1, <3>2, <4>2, <4>4
      <4>6. \A j \in 1 .. Len(wire[t]) : wire'[t][j] = wire[t][j]
        BY <3>2, <4>4
      <4> QED BY <3>1, <4>4, <4>5, <4>6 DEF Told, SavedOrSeen
    <3>5. Got
      BY <3>1, <3>2 DEF HasFinished
    <3> QED BY <3>3, <3>4, <3>5
  <2> QED BY <1>2, <1>5, <2>2, <2>3, <2>4, <2>5, <2>6, LiveSteps
<1> QED BY <1>1, <1>4, <1>5

---------------------------------------------------------------------------
(* Theorems.                                                               *)

\* Whatever the parties do, in whatever order, and wherever the connection
\* breaks: all parts of the invariant hold in every state of the specification.
THEOREM Invariant == Spec => []IInv
<1>1. IInv /\ [Next]_vars => IInv'
  <2> SUFFICES ASSUME IInv, [Next]_vars PROVE IInv'
    OBVIOUS
  <2>1. TypeOK'
    BY TypeStep DEF IInv
  <2>2. BoundInv'
    BY BoundStep DEF IInv
  <2>3. EarlyInv' /\ TurnInv'
    BY EarlyStep, TurnStep DEF IInv
  <2>4. FinishedInv' /\ EndInv' /\ StopInv'
    BY FinishedStep, EndStep, StopStep DEF IInv
  <2>5. CountInv' /\ WarnInv'
    BY CountStep, WarnStep DEF IInv
  <2>6. KeptInv' /\ RoomInv'
    BY KeptStep, RoomStep DEF IInv
  <2> QED BY <2>1, <2>2, <2>3, <2>4, <2>5, <2>6 DEF IInv
<1> QED BY <1>1, IInvInit, PTL DEF Spec

\* The types hold.  What is hard about them is that an answer, and what the CLI
\* shows of it, have no more texts than the provider has sent lines: each of the
\* three goroutines that hand a text on does so once.
THEOREM StreamTypes == Spec => []TypeOK
BY Invariant, PTL DEF IInv

\* What answer adds to the conversation is what it has shown and what the
\* handler has in its answerBuilder, for answers of any length, on connections
\* that break anywhere and with finished events too long for the scanner.
THEOREM TalkIsFaithful == Spec => []TalkFaithful
<1>1. IInv => TalkFaithful
  BY DEF IInv, KeptInv, TalkFaithful
<1> QED BY <1>1, Invariant, PTL

\* A turn in the conversation is a memory, or the user was warned that
\* persistQATurn failed: the warning is written before the finished event, and
\* the client hands events on in order.
THEOREM UnsavedTurnsAreWarned == Spec => []UnsavedIsWarned
<1>1. IInv => UnsavedIsWarned
  BY DEF IInv, KeptInv, UnsavedIsWarned
<1> QED BY <1>1, Invariant, PTL

\* The conversation stays within the message count that qaStreamRequest.validate
\* accepts, for any limit: only a request that was accepted can add a turn.
THEOREM TalkStaysBounded == Spec => []TalkBounded
<1>1. IInv => TalkBounded
  BY DEF IInv, RoomInv
<1> QED BY <1>1, Invariant, PTL

\* An answer whose stream carried an error event, or was stopped because the
\* request context was done, gets neither to saveMemory nor into the
\* conversation: the handler returns with the error, and after a disconnect it
\* returns or gets no further than the embedder, whichever branch select takes.
THEOREM BadStreamsEnd == Spec => []BadStreamEnds
<1>1. EndInv /\ StopInv => BadStreamEnds
  <2> SUFFICES ASSUME EndInv, StopInv, NEW t \in Turns, body[t] \in {"bad", "stopped"}
               PROVE  saved[t] = NotSaved /\ \A k \in Kept : k.turn # t
    BY DEF BadStreamEnds
  <2>1. CASE body[t] = "bad"
    BY <2>1 DEF EndInv, Completed
  <2>2. CASE body[t] = "stopped"
    BY <2>2 DEF StopInv
  <2> QED BY <2>1, <2>2
<1> QED BY <1>1, Invariant, PTL DEF IInv

=============================================================================
