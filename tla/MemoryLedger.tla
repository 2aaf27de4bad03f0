---------------------------- MODULE MemoryLedger ----------------------------
(***************************************************************************)
(* What the memory API promises its clients, whatever the server does with *)
(* files, rows and locks: an id is bound to one owner and one text, once   *)
(* and for good; a request is accepted only if the ledger says what it     *)
(* asked to save; a refusal promises nothing, and the memory of a refused  *)
(* request may be there all the same.                                      *)
(***************************************************************************)
CONSTANTS
  Senders,   \* the save requests
  Reserved   \* ids that were taken before the servers started

VARIABLES
  bound,     \* the memories that are saved
  asked,     \* what each request asks to save
  verdict    \* what each sender has been told

Init ==
  /\ bound = {}
  /\ verdict = [r \in Senders |-> "pending"]

Bind(r) ==
  /\ verdict[r] = "pending"
  /\ asked[r].id \notin Reserved
  /\ \A m \in bound : m.id # asked[r].id
  /\ bound' = bound \cup {asked[r]}
  /\ UNCHANGED <<asked, verdict>>

Accept(r) ==
  /\ verdict[r] = "pending"
  /\ asked[r] \in bound
  /\ verdict' = [verdict EXCEPT ![r] = "accepted"]
  /\ UNCHANGED <<bound, asked>>

\* Several requests are refused at once when their server dies.
Refuse(R) ==
  /\ \A r \in R : verdict[r] = "pending"
  /\ verdict' = [r \in Senders |-> IF r \in R THEN "refused" ELSE verdict[r]]
  /\ UNCHANGED <<bound, asked>>

Next ==
  \/ \E r \in Senders : Bind(r) \/ Accept(r)
  \/ \E R \in SUBSET Senders : Refuse(R)

Spec == Init /\ [][Next]_<<bound, asked, verdict>>

=============================================================================
