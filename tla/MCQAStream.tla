----------------------------- MODULE MCQAStream -----------------------------
(***************************************************************************)
(* A small instance of QAStream for TLC.  A behaviour is bounded in one of *)
(* two ways: all questions with answers of one delta and no Ctrl-C, or one *)
(* question with an answer of MaxLines.  The bounds only hold back steps   *)
(* that nothing forces: questions, data lines, heartbeats and Ctrl-C.      *)
(***************************************************************************)
EXTENDS QAStream

VARIABLE part

Bounded ==
  /\ part = "talk" => ~stopped /\ \A t \in Turns :
       lines[t] <= 1 /\ held[t] # "other" /\ beats[t] = 0
  /\ part = "stream" => turn <= 1

MCInit == Init /\ part \in {"talk", "stream"}
MCNext == Next /\ UNCHANGED part /\ Bounded'
MCSpec == MCInit /\ [][MCNext]_<<vars, part>> /\ ClientFairness

=============================================================================
