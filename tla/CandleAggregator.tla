---------------------------- MODULE CandleAggregator ----------------------------
(***************************************************************************)
(* CandleAggregator (core/data/aggregator.py): ticks in, candles of several *)
(* intervals out.  A bucket is closed by the first tick that falls outside  *)
(* of it, in whichever direction, and by nothing else.                      *)
(***************************************************************************)
EXTENDS Integers, SequencesExt

CONSTANTS
  Symbols,      \* symbols that tick
  Prices,       \* last traded prices
  Intervals,    \* lengths of the intervals, in the order of INTERVAL_MAP
  HistoryMax    \* candles kept per symbol and interval (maxlen)

ASSUME AggregatorAssumption ==
  /\ Prices \subseteq Nat
  /\ \A i \in DOMAIN Intervals : Intervals[i] \in Nat \ {0}
  /\ HistoryMax \in Nat

VARIABLES
  buckets,      \* _buckets: per symbol and interval the open bucket, or no bucket
  history       \* _history: per symbol and interval the last candles

aggregator == <<buckets, history>>

Keys == Symbols \X ToSet(Intervals)
NoBucket == [ts |-> "none"]

AggregatorInit ==
  /\ buckets = [k \in Keys |-> NoBucket]
  /\ history = [k \in Keys |-> <<>>]

(* The start of the interval an instant belongs to.                         *)
Floor(ts, width) == ts - (ts % width)

HigherOf(a, b) == IF a > b THEN a ELSE b
LowerOf(a, b) == IF a < b THEN a ELSE b

(* A bucket is the candle it will become.                                   *)
OpenBucket(tick, width) ==
  [open |-> tick.ltp, high |-> tick.ltp, low |-> tick.ltp, close |-> tick.ltp,
   volume |-> tick.volume, ts |-> Floor(tick.ts, width)]

(* The volume of a tick is the day's so far, and replaces the bucket's.     *)
Extend(b, tick) ==
  [open |-> b.open, high |-> HigherOf(b.high, tick.ltp), low |-> LowerOf(b.low, tick.ltp),
   close |-> tick.ltp, volume |-> tick.volume, ts |-> b.ts]

LastOnes(s, n) == IF Len(s) <= n THEN s ELSE SubSeq(s, Len(s) - n + 1, Len(s))

(* Mutant of Rolls: a bucket is closed one interval late.                   *)
RollsWhenFull(b, tick, width) == b.ts < Floor(tick.ts, width) - width

(* Does this tick close the bucket?                                         *)
Rolls(b, tick, width) == b.ts # Floor(tick.ts, width)

(* _ingest_one for every interval.                                          *)
Ingest(tick) ==
  /\ buckets' = [k \in Keys |->
       LET b == buckets[k] IN
       IF k[1] # tick.symbol THEN b
       ELSE IF b = NoBucket \/ Rolls(b, tick, k[2]) THEN OpenBucket(tick, k[2])
       ELSE Extend(b, tick)]
  /\ history' = [k \in Keys |->
       LET b == buckets[k] IN
       IF k[1] = tick.symbol /\ b # NoBucket /\ Rolls(b, tick, k[2])
         THEN LastOnes(Append(history[k], b), HistoryMax)
         ELSE history[k]]
=============================================================================
