--------------------------- MODULE MCShardedState ---------------------------
(* Small instances of ShardedState for TLC. *)
EXTENDS ShardedState

CONSTANTS c1, c2, k1, k2, k3, k4

\* Two keys share the first shard.
TwoShards == [k \in Keys |-> IF k \in {k1, k2} THEN 1 ELSE 2]

=============================================================================
