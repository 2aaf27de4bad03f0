-------------------------- MODULE MCSessionManager --------------------------
(***************************************************************************)
(* A small instance of SessionManager for TLC.  A behaviour is bounded in  *)
(* one of two ways: all starts and ids with answers that have no content,  *)
(* or one start with an answer of MaxStream deltas.  The bounds only hold  *)
(* back steps that nothing forces: starts and stream events.               *)
(***************************************************************************)
EXTENDS SessionManager

CONSTANTS r1, r2, a, b

VARIABLE part

Bounded ==
  /\ part = "table" => \A r \in Runs : taken[r] = <<>>
  /\ part = "stream" => /\ \A r \in Runs \ {r1} : pc[r] = "new" /\ ~cancelled[r]
                        /\ sessions[b] = None

MCInit == Init /\ part \in {"table", "stream"}
MCNext == Next /\ UNCHANGED part /\ Bounded'
MCSpec == MCInit /\ [][MCNext]_<<vars, part>> /\ Fairness

=============================================================================
