--------------------------- MODULE MCMemoryStore ---------------------------
(* Small instances of MemoryStore for TLC. *)
EXTENDS MemoryStore, TLC

CONSTANTS s1, s2, r1, r2, r3, q1, o1, o2, i1, i2, t1, t2, bad

Save(o, id, t, v) == [owner |-> o, id |-> id, text |-> t, vec |-> v]

\* One memory, the same with an embedding of the wrong dimension, the same id
\* with another text, and the same id sent by another owner.
Rivals ==
  {Save(o1, i1, t1, "valid"), Save(o1, i1, t1, "invalid"),
   Save(o1, i1, t2, "none"), Save(o2, i1, t1, "valid")}

\* Also an id that marker validation refuses and one that an older row holds.
OneServerItems ==
  Rivals \cup {Save(o1, bad, t1, "valid"), Save(o1, i2, t1, "valid")}

OlderRow ==
  {[owner |-> o1, id |-> i2, text |-> t1, day |-> NoDay, version |-> 0,
    vec |-> "valid"]}

\* Two memories of one owner, which go to the same file on the same day; one
\* of them is also sent with an embedding that cannot be saved.
CalmItems ==
  {Save(o1, i1, t1, "valid"), Save(o1, i1, t1, "invalid"),
   Save(o1, i2, t2, "valid")}

\* The same beside another owner's memory with the id of the first.
SharedFileItems == CalmItems \cup {Save(o2, i1, t1, "valid")}

OneServer == [x \in Tasks |-> s1]
TwoServers == [x \in Tasks |-> IF x = r1 THEN s1 ELSE s2]

SaveSymmetry == Permutations({r1, r2, r3})

=============================================================================
