--------------------------- MODULE TimeDomainClock ---------------------------
(***************************************************************************)
(* The clock of a time domain: it predicts the timestamp of the next frame *)
(* of a group of synchronised sensors and classifies the timestamps that   *)
(* the sources request against that prediction.                            *)
(*                                                                         *)
(* The members of the C++ class are the fields of a record, its member     *)
(* functions are operators that return the changed record.  The vector     *)
(* received_next_timestamps_ is kept as its sum and its length, which is   *)
(* all that its mean depends on.                                           *)
(***************************************************************************)
EXTENDS Integers

CONSTANTS
  MaxOffset,    \* TimeDomainManagerConfig::max_offset
  SensorDelta,  \* one second / sensor_frequency, in ticks
  AlphaNum,     \* alpha_0_ = AlphaNum / AlphaDen; the scheduler passes 1.0
  AlphaDen,
  Grid          \* distance of two doubles at the size of a timestamp

ASSUME ClockAssumption ==
  /\ MaxOffset \in Nat
  /\ SensorDelta \in Nat \ {0}
  /\ AlphaDen \in Nat \ {0}
  /\ AlphaNum \in 0..AlphaDen
  /\ Grid \in Nat \ {0}

kTimestampZero == 0

Clock == [init : Int, current : Int, expected : Int, delta : Int,
          sum : Int, n : Nat]

\* Two timestamps belong to the same frame when their offset intervals meet.
isWithinRange(value_0, value_1) ==
  /\ value_0 + MaxOffset >= value_1 - MaxOffset
  /\ value_0 - MaxOffset <= value_1 + MaxOffset

\* The value of an integer timestamp after its conversion to double.
AsDouble(count) == Grid * ((count + (Grid \div 2)) \div Grid)

InitialClock ==
  [init |-> kTimestampZero, current |-> kTimestampZero,
   expected |-> kTimestampZero, delta |-> SensorDelta, sum |-> 0, n |-> 0]

isNextExpectedTimestamp(c, ts) == isWithinRange(c.expected, ts)

isFurtherAheadThenNextExpectedTimestamp(c, ts) ==
  c.expected + MaxOffset < ts - MaxOffset

\* Mutant: the expected timestamp itself does not count.
isNextExpectedTimestampOrBigger_strict(c, ts) == ts > c.expected

isNextExpectedTimestampOrBigger(c, ts) ==
  isNextExpectedTimestamp(c, ts) \/ ts >= c.expected

\* The running average over the first timestamps of all sources.
InitialMean(c, ts) ==
    ((AsDouble(c.init) * AlphaNum) \div AlphaDen)
  + ((AsDouble(ts) * (AlphaDen - AlphaNum)) \div AlphaDen)

newTimestamp(c, ts) ==
  IF c.init = kTimestampZero
  THEN [c EXCEPT !.init = ts, !.expected = ts, !.current = ts]
  ELSE IF isWithinRange(c.init, ts)
  THEN [c EXCEPT !.init = InitialMean(c, ts), !.current = InitialMean(c, ts)]
  ELSE IF isNextExpectedTimestamp(c, ts)
  THEN [c EXCEPT !.sum = @ + ts, !.n = @ + 1]
  ELSE c

\* The frame distance, moved towards the distance that was last measured.
MeanDelta(c) ==
  IF c.n = 0 THEN c.delta
  ELSE (c.delta * AlphaNum
          + ((c.sum \div c.n) - c.current) * (AlphaDen - AlphaNum)) \div AlphaDen

advanceTimeStep(c) ==
  [init |-> c.init, current |-> c.expected,
   expected |-> c.expected + MeanDelta(c), delta |-> MeanDelta(c),
   sum |-> 0, n |-> 0]
=============================================================================
