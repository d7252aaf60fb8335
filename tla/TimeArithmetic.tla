---------------------------- MODULE TimeArithmetic ----------------------------
(***************************************************************************)
(* The program's struct timespec (src/common.c:355-400).  A second has     *)
(* NSEC_PER_SEC nanoseconds; a timespec need not be normalised, because    *)
(* timespec_subtract carries in its second operand, in place.              *)
(***************************************************************************)
EXTENDS Integers

CONSTANT NSEC_PER_SEC
ASSUME SecondAssumption == NSEC_PER_SEC \in Nat \ {0}

\* What clock_gettime returns t nanoseconds after the clock's zero
Timespec(t) == [sec |-> t \div NSEC_PER_SEC, nsec |-> t % NSEC_PER_SEC]

\* The nanoseconds a timespec stands for
Value(ts) == ts.sec * NSEC_PER_SEC + ts.nsec

\* Mutant of SecondsUp: the second that is not complete is not carried
SecondsUpShort(x, y) ==
  IF x.nsec < y.nsec THEN (y.nsec - x.nsec) \div NSEC_PER_SEC ELSE 0

\* The seconds that the first carry moves
SecondsUp(x, y) ==
  IF x.nsec < y.nsec THEN (y.nsec - x.nsec) \div NSEC_PER_SEC + 1 ELSE 0

\* "Perform the carry for the later subtraction by updating y."
CarryUp(x, y) ==
  LET n == SecondsUp(x, y)
  IN [sec |-> y.sec + n, nsec |-> y.nsec - NSEC_PER_SEC * n]

\* Mutant of CarryDown: the seconds keep what the nanoseconds get
CarryDownHalf(x, y) ==
  LET n == IF x.nsec - y.nsec > NSEC_PER_SEC THEN (x.nsec - y.nsec) \div NSEC_PER_SEC ELSE 0
  IN [sec |-> y.sec, nsec |-> y.nsec + NSEC_PER_SEC * n]

CarryDown(x, y) ==
  LET n == IF x.nsec - y.nsec > NSEC_PER_SEC THEN (x.nsec - y.nsec) \div NSEC_PER_SEC ELSE 0
  IN [sec |-> y.sec - n, nsec |-> y.nsec + NSEC_PER_SEC * n]

\* The second operand, as timespec_subtract leaves it
Carried(x, y) == CarryDown(x, CarryUp(x, y))

\* The result, and whether it is negative
Difference(x, y) == [sec  |-> x.sec - Carried(x, y).sec, nsec |-> x.nsec - Carried(x, y).nsec]
IsNegative(x, y) == x.sec < Carried(x, y).sec

\* The nanoseconds between two requests of a rate
Gap(rate) == NSEC_PER_SEC \div rate
compute_ipg(rate) == Timespec(Gap(rate))
==============================================================================
