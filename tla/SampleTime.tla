------------------------------ MODULE SampleTime ------------------------------
(***************************************************************************)
(* Exact durations and the sample clock (src/core/timing.cpp): a duration is *)
(* a reduced fraction of seconds, and a moment becomes a frame by rounding    *)
(* down once, from the start of the transmission.  No sum here comes near     *)
(* the 64 bits that the code checks for.                                     *)
(***************************************************************************)
EXTENDS Integers, Sequences

gcd[pair \in Nat \X Nat] ==
  IF pair[2] = 0 THEN pair[1] ELSE gcd[<<pair[2], pair[1] % pair[2]>>]

Durations == [numerator : Nat, denominator : Nat \ {0}]

Duration(numerator, denominator) ==
  LET divisor == gcd[<<numerator, denominator>>] IN
    [numerator |-> numerator \div divisor, denominator |-> denominator \div divisor]

NoTime == Duration(0, 1)
fromMicroseconds(microseconds) == Duration(microseconds, 1000000)

plus(left, right) ==
  LET divisor == gcd[<<left.denominator, right.denominator>>]
      leftMultiplier == right.denominator \div divisor
      rightMultiplier == left.denominator \div divisor
  IN Duration(left.numerator * leftMultiplier + right.numerator * rightMultiplier,
              left.denominator * leftMultiplier)

times(duration, count) ==
  IF count = 0 THEN NoTime
  ELSE LET divisor == gcd[<<duration.denominator, count>>] IN
         Duration(duration.numerator * (count \div divisor), duration.denominator \div divisor)

dividedBy(duration, divisor) ==
  LET common == gcd[<<duration.numerator, divisor>>] IN
    Duration(duration.numerator \div common, duration.denominator * (divisor \div common))

(* How long the first of a sequence of tones or segments last together.         *)
durationUpTo(events, count) ==
  LET sum[n \in 0 .. Len(events)] ==
        IF n = 0 THEN NoTime ELSE plus(sum[n - 1], events[n].duration)
  IN sum[count]
durationOf(events) == durationUpTo(events, Len(events))

(* The product is taken in whole seconds and the rest, which is the same.      *)
sampleCount(duration, sampleRate) ==
  LET divisor == gcd[<<duration.denominator, sampleRate>>]
      rate == sampleRate \div divisor
      denominator == duration.denominator \div divisor
  IN (duration.numerator \div denominator) * rate
       + ((duration.numerator % denominator) * rate) \div denominator
=============================================================================
