------------------------------ MODULE Limiters ------------------------------
(***************************************************************************)
(* All limiters of the registry under the same calls.  A behaviour picks   *)
(* one limiter; the entries of the others stay as they are.  GCRA is       *)
(* extended and the others are instances: its definitions have no prefix.  *)
(***************************************************************************)
EXTENDS GCRA

VARIABLES
  limiter,                     \* which limiter the behaviour is about
  tokens, last, birth, spent,  \* TokenBucket and its history
  records,                     \* SlidingWindow
  buckets,                     \* BucketedWindow
  admitted                     \* the history of both windows

T == INSTANCE TokenBucket WITH within <- spent
S == INSTANCE SlidingWindow WITH within <- admitted
B == INSTANCE BucketedWindow WITH within <- admitted

gcra == <<tat, within>>
tokenBucket == <<tokens, last, birth, spent>>
allVars == <<vars, limiter, tokenBucket, records, buckets, admitted>>

LimitersInit ==
  /\ limiter \in {"gcra", "token_bucket", "sliding_window", "bucketed_window"}
  /\ Init /\ T!Init /\ S!Init /\ B!Init

GCRAStep ==
  /\ limiter = "gcra" /\ Next
  /\ UNCHANGED <<limiter, tokenBucket, records, buckets, admitted>>
TokenBucketStep ==
  /\ limiter = "token_bucket" /\ T!Next
  /\ UNCHANGED <<limiter, gcra, records, buckets, admitted>>
SlidingWindowStep ==
  /\ limiter = "sliding_window" /\ S!Next
  /\ UNCHANGED <<limiter, gcra, tokenBucket, buckets>>
BucketedWindowStep ==
  /\ limiter = "bucketed_window" /\ B!Next
  /\ UNCHANGED <<limiter, gcra, tokenBucket, records>>

\* Bound: behaviours end with an entry that is deleted too early.
LimitersNext ==
  ~early /\ (GCRAStep \/ TokenBucketStep \/ SlidingWindowStep \/ BucketedWindowStep)

LimitersSpec == LimitersInit /\ [][LimitersNext]_allVars

---------------------------------------------------------------------------
(* The properties of the instances, each of the behaviours of its limiter. *)

\* The limiter's entry and the calls are well typed.
EntriesTyped ==
  /\ limiter = "gcra" => TypeOK
  /\ limiter = "token_bucket" => T!TypeOK
  /\ limiter = "sliding_window" => S!TypeOK
  /\ limiter = "bucketed_window" => B!TypeOK

\* The rates that users rely on, GCRA's aside.  The token bucket spends no token
\* that has not arrived, in any order of calls.  In order, it grants a span its
\* burst and Rate per Window; the sliding window admits Rate units a window; and
\* the bucketed window as much in a span of its buckets less one.
RatesHeld ==
  /\ limiter = "token_bucket" => T!TokensConserved /\ T!TokenConforms
  /\ limiter = "sliding_window" => S!WindowExact
  /\ limiter = "bucketed_window" => B!SpanBounded

\* What a decision tells its caller is so: RetryAfter is the exact wait (in the
\* bucketed window a sufficient one), and Remaining of GCRA passes and no more.
DecisionsKept ==
  /\ limiter = "gcra" => GCRARetryExact /\ GCRARemainingExact
  /\ limiter = "token_bucket" => T!TokenRetryExact
  /\ limiter = "sliding_window" => S!WindowRetryExact
  /\ limiter = "bucketed_window" => B!BucketRetrySuffices

\* Whatever the limiter, an entry idle for as long as its debts can last, which
\* is what IdleTTL should be at least, may be deleted: a new one decides alike.
IdleIsSettled ==
  /\ limiter = "gcra" => GCRAIdleSettled
  /\ limiter = "token_bucket" => T!TokenIdleSettled
  /\ limiter = "sliding_window" => S!WindowIdleSettled
  /\ limiter = "bucketed_window" => B!BucketIdleSettled

=============================================================================
