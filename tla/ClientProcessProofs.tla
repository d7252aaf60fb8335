------------------------- MODULE ClientProcessProofs -------------------------
(***************************************************************************)
(* What the time arithmetic keeps although it carries in its operand, and  *)
(* from it the pacing and the latencies of a client, for every length of a *)
(* second, every rate and every course of the clock.                       *)
(***************************************************************************)
EXTENDS ClientProcess, TLAPS

Times  == [sec : Int, nsec : Int]
\* What clock_gettime returns, and what a subtraction may leave behind
Normal == [sec : Int, nsec : 0 .. NSEC_PER_SEC - 1]
Loose  == [sec : Int, nsec : 1 - NSEC_PER_SEC .. NSEC_PER_SEC - 1]

-------------------------------------------------------------------------------
(* Integer division                                                          *)

\* Quotient and remainder, as compute_ipg and clock_gettime split nanoseconds
\* (src/common.c:390-391).
LEMMA DivRem ==
  ASSUME NEW a \in Nat, NEW b \in Nat \ {0}
  PROVE  a \div b \in Nat /\ a % b \in 0 .. b - 1 /\ a = b * (a \div b) + (a % b)
  BY SMT

\* The quotients the carries use are 0 or 1 (src/common.c:361 and 366).
LEMMA DivSmall ==
  ASSUME NEW a \in Nat, NEW b \in Nat \ {0}, a < 2 * b
  PROVE  a \div b = IF a < b THEN 0 ELSE 1
<1>1. a \div b \in Nat /\ a % b \in 0 .. b - 1 /\ a = b * (a \div b) + (a % b)
  BY DivRem
<1>2. CASE a < b
  <2>1. SUFFICES ASSUME a \div b >= 1 PROVE FALSE
    BY <1>1, <1>2
  <2>2. b * (a \div b) >= b
    BY <1>1, <2>1, SMT
  <2>3. QED BY <1>1, <1>2, <2>2
<1>3. CASE a >= b
  <2>1. a \div b # 0
    BY <1>1, <1>3, SMT
  <2>2. SUFFICES ASSUME a \div b >= 2 PROVE FALSE
    BY <1>1, <1>3, <2>1
  <2>3. b * (a \div b) >= 2 * b
    BY <1>1, <2>2, SMT
  <2>4. QED BY <1>1, <2>3
<1>4. QED BY <1>2, <1>3

\* A reading of the clock is normal and stands for its nanoseconds.
LEMMA TimespecValue ==
  ASSUME NEW t \in Nat
  PROVE  Timespec(t) \in Normal /\ Value(Timespec(t)) = t
<1>1. t \div NSEC_PER_SEC \in Nat /\ t % NSEC_PER_SEC \in 0 .. NSEC_PER_SEC - 1
      /\ t = NSEC_PER_SEC * (t \div NSEC_PER_SEC) + (t % NSEC_PER_SEC)
  BY DivRem, SecondAssumption
<1>2. QED BY <1>1, SecondAssumption DEF Timespec, Normal, Value

-------------------------------------------------------------------------------
(* timespec_subtract                                                         *)

\* The first carry: it borrows one second or two, and only the way they are split
\* between seconds and nanoseconds changes (src/common.c:360-364).
LEMMA CarryUpLoose ==
  ASSUME NEW x \in Loose, NEW y \in Loose
  PROVE  /\ CarryUp(x, y) \in Times
         /\ Value(CarryUp(x, y)) = Value(y)
         /\ SecondsUp(x, y) \in 0 .. 2
         /\ x.nsec < y.nsec => x.nsec - CarryUp(x, y).nsec \in 1 .. NSEC_PER_SEC
         /\ x.nsec >= y.nsec => CarryUp(x, y) = y
         /\ x.nsec < y.nsec /\ y.nsec - x.nsec < NSEC_PER_SEC
              => x.nsec - CarryUp(x, y).nsec < NSEC_PER_SEC
                 /\ CarryUp(x, y).nsec = y.nsec - NSEC_PER_SEC
<1> DEFINE N == NSEC_PER_SEC
<1>0. N \in Nat \ {0} BY SecondAssumption
<1>1. x.sec \in Int /\ y.sec \in Int /\ x.nsec \in 1 - N .. N - 1 /\ y.nsec \in 1 - N .. N - 1
      /\ y = [sec |-> y.sec, nsec |-> y.nsec]
  BY DEF Loose
<1>2. CASE x.nsec >= y.nsec
  <2>1. SecondsUp(x, y) = 0 BY <1>0, <1>1, <1>2 DEF SecondsUp
  <2>2. CarryUp(x, y) = y BY <1>0, <1>1, <2>1 DEF CarryUp
  <2>3. QED BY <1>0, <1>1, <1>2, <2>1, <2>2 DEF Times
<1>3. CASE x.nsec < y.nsec
  <2> DEFINE a == y.nsec - x.nsec
             n == SecondsUp(x, y)
  <2>1. a \in Nat /\ a < 2 * N BY <1>0, <1>1, <1>3
  <2>2. a \div N = IF a < N THEN 0 ELSE 1 BY <1>0, <2>1, DivSmall
  <2>3. n = IF a < N THEN 1 ELSE 2 BY <1>3, <2>2 DEF SecondsUp
  <2>4. CarryUp(x, y) = [sec |-> y.sec + n, nsec |-> y.nsec - N * n] BY DEF CarryUp
  <2>5. CASE a < N
    <3>1. n = 1 BY <2>3, <2>5
    <3>2. CarryUp(x, y) = [sec |-> y.sec + 1, nsec |-> y.nsec - N] BY <1>0, <1>1, <2>4, <3>1
    <3>3. QED BY <1>0, <1>1, <1>3, <2>5, <3>1, <3>2 DEF Times, Value
  <2>6. CASE a >= N
    <3>1. n = 2 BY <1>0, <1>1, <2>3, <2>6
    <3>2. CarryUp(x, y) = [sec |-> y.sec + 2, nsec |-> y.nsec - 2 * N] BY <1>0, <1>1, <2>4, <3>1
    <3>3. QED BY <1>0, <1>1, <1>3, <2>6, <3>1, <3>2 DEF Times, Value
  <2>7. QED BY <1>0, <1>1, <2>5, <2>6
<1>4. QED BY <1>0, <1>1, <1>2, <1>3

\* Both carries: the operand keeps its value, the nanoseconds of the result are not
\* negative, and never more than a second (src/common.c:360-374).
LEMMA CarriedLoose ==
  ASSUME NEW x \in Loose, NEW y \in Loose
  PROVE  /\ Carried(x, y) \in Times
         /\ Value(Carried(x, y)) = Value(y)
         /\ x.nsec - Carried(x, y).nsec \in 0 .. NSEC_PER_SEC
         /\ x \in Normal => Carried(x, y) \in Loose
         /\ x \in Normal /\ y \in Normal => x.nsec - Carried(x, y).nsec < NSEC_PER_SEC
<1> DEFINE N == NSEC_PER_SEC
           u == CarryUp(x, y)
<1>0. N \in Nat \ {0} BY SecondAssumption
<1>1. x.sec \in Int /\ y.sec \in Int /\ x.nsec \in 1 - N .. N - 1 /\ y.nsec \in 1 - N .. N - 1
  BY DEF Loose
<1>2. x \in Normal => x.nsec >= 0 BY DEF Normal
<1>3. y \in Normal => y.nsec >= 0 BY DEF Normal
<1>4. u \in Times /\ Value(u) = Value(y) BY CarryUpLoose
<1>5. u.sec \in Int /\ u.nsec \in Int /\ u = [sec |-> u.sec, nsec |-> u.nsec] BY <1>4 DEF Times
<1>6. CASE x.nsec < y.nsec
  <2>1. x.nsec - u.nsec \in 1 .. N BY <1>6, CarryUpLoose
  <2>2. Carried(x, y) = u BY <1>0, <1>1, <1>5, <2>1 DEF Carried, CarryDown
  <2>3. ASSUME x \in Normal
        PROVE  u.nsec = y.nsec - N /\ x.nsec - u.nsec < N
    <3>1. y.nsec - x.nsec < N BY <1>0, <1>1, <1>2, <2>3
    <3>2. QED BY <1>6, <3>1, CarryUpLoose
  <2>4. x \in Normal => u \in Loose
    BY <1>0, <1>1, <1>2, <1>5, <1>6, <2>3 DEF Loose
  <2>5. QED BY <1>0, <1>1, <1>4, <1>5, <2>1, <2>2, <2>3, <2>4
<1>7. CASE x.nsec >= y.nsec
  <2>1. u = y BY <1>7, CarryUpLoose
  <2>2. CASE x.nsec - y.nsec <= N
    <3>1. Carried(x, y) = y
      BY <1>0, <1>1, <1>5, <2>1, <2>2 DEF Carried, CarryDown
    <3>2. x \in Normal /\ y \in Normal => x.nsec - y.nsec < N BY <1>0, <1>1, <1>3
    <3>3. QED BY <1>0, <1>1, <1>4, <1>7, <2>1, <2>2, <3>1, <3>2
  <2>3. CASE x.nsec - y.nsec > N
    <3> DEFINE a == x.nsec - y.nsec
    <3>1. a \in Nat /\ a < 2 * N BY <1>0, <1>1, <1>7
    <3>2. a \div N = 1 BY <1>0, <1>1, <2>3, <3>1, DivSmall
    <3>3. Carried(x, y) = [sec |-> y.sec - 1, nsec |-> y.nsec + N]
      BY <1>0, <1>1, <2>1, <2>3, <3>2 DEF Carried, CarryDown
    <3>4. Value([sec |-> y.sec - 1, nsec |-> y.nsec + N]) = Value(y) BY <1>0, <1>1 DEF Value
    <3>5. y.nsec + N \in 1 - N .. N - 1 /\ x.nsec - (y.nsec + N) \in 0 .. N - 1
      BY <1>0, <1>1, <2>3
    <3>6. QED BY <1>0, <1>1, <3>3, <3>4, <3>5 DEF Times, Loose
  <2>4. QED BY <1>0, <1>1, <2>2, <2>3
<1>8. QED BY <1>0, <1>1, <1>6, <1>7

\* The difference is exact.
LEMMA DifferenceExact ==
  ASSUME NEW x \in Loose, NEW y \in Loose
  PROVE  /\ Difference(x, y) \in Times
         /\ Value(Difference(x, y)) = Value(x) - Value(y)
         /\ x \in Normal /\ y \in Normal => Difference(x, y) \in Normal
<1> DEFINE c == Carried(x, y)
<1>0. NSEC_PER_SEC \in Nat \ {0} BY SecondAssumption
<1>1. c \in Times /\ Value(c) = Value(y) /\ x.nsec - c.nsec \in 0 .. NSEC_PER_SEC
      /\ (x \in Normal /\ y \in Normal => x.nsec - c.nsec < NSEC_PER_SEC)
  BY CarriedLoose
<1>2. x.sec \in Int /\ x.nsec \in Int BY <1>0 DEF Loose
<1>3. c.sec \in Int /\ c.nsec \in Int BY <1>1 DEF Times
<1>4. Difference(x, y) = [sec |-> x.sec - c.sec, nsec |-> x.nsec - c.nsec] BY DEF Difference
<1>5. Difference(x, y) \in Times BY <1>2, <1>3, <1>4 DEF Times
<1>6. Value(Difference(x, y)) = Value(x) - Value(c)
  BY <1>0, <1>2, <1>3, <1>4, SMT DEF Value
<1>7. x \in Normal /\ y \in Normal => Difference(x, y) \in Normal
  BY <1>0, <1>1, <1>2, <1>3, <1>4 DEF Normal
<1>8. QED BY <1>1, <1>5, <1>6, <1>7

\* The sign is that of the difference, except that a difference of zero may count as
\* negative; for two readings of the clock it is exact.
LEMMA SignOfDifference ==
  ASSUME NEW x \in Loose, NEW y \in Loose
  PROVE  /\ Value(x) < Value(y) => IsNegative(x, y)
         /\ IsNegative(x, y) => Value(x) <= Value(y)
         /\ x \in Normal /\ y \in Normal => (IsNegative(x, y) <=> Value(x) < Value(y))
<1> DEFINE N == NSEC_PER_SEC
           c == Carried(x, y)
           d == x.nsec - c.nsec
           k == x.sec - c.sec
<1>0. N \in Nat \ {0} BY SecondAssumption
<1>1. c \in Times /\ Value(c) = Value(y) /\ d \in 0 .. N
      /\ (x \in Normal /\ y \in Normal => d < N)
  BY CarriedLoose
<1>2. x.sec \in Int /\ x.nsec \in Int BY <1>0 DEF Loose
<1>3. c.sec \in Int /\ c.nsec \in Int BY <1>1 DEF Times
<1>4. k \in Int /\ Value(x) - Value(c) = k * N + d /\ Value(x) \in Int /\ Value(c) \in Int
  BY <1>0, <1>2, <1>3, SMT DEF Value
<1>5. IsNegative(x, y) <=> k < 0 BY <1>2, <1>3 DEF IsNegative
<1>6. k < 0 => k * N <= -N BY <1>0, <1>4, SMT
<1>7. k >= 0 => k * N >= 0 BY <1>0, <1>4, SMT
<1>8. k * N \in Int BY <1>0, <1>4
<1> HIDE DEF N, c, d, k
<1>9. QED BY <1>0, <1>1, <1>4, <1>5, <1>6, <1>7, <1>8

-------------------------------------------------------------------------------
(* The client                                                                *)

\* Inductive: the times remembered stand for the readings they were set to, whatever
\* client_updateStats has carried into lastHPReqTime.
TimeInv ==
  /\ now \in Nat /\ hpTime \in Nat /\ lpTime \in Nat
  /\ clientHPReqRate \in Nat /\ clientLPReqRate \in Nat
  /\ lastHPReqTime \in Loose /\ Value(lastHPReqTime) = hpTime
  /\ lastLPReqTime \in Normal /\ Value(lastLPReqTime) = lpTime
  /\ sample \in [recorded : Int, elapsed : Int]
  /\ LatencyTrue

LEMMA NormalIsLoose == Normal \subseteq Loose
  BY SecondAssumption DEF Normal, Loose

\* One measurement: exact to a nanosecond, and lastHPReqTime keeps its value.
LEMMA UpdateStatsKeeps ==
  ASSUME TimeInv, client_updateStats
  PROVE  /\ lastHPReqTime' \in Loose /\ Value(lastHPReqTime') = hpTime
         /\ sample' \in [recorded : Int, elapsed : Int]
         /\ sample'.elapsed - sample'.recorded \in {0, 1}
<1>1. Clock \in Normal /\ Clock \in Loose /\ Value(Clock) = now
  BY TimespecValue, NormalIsLoose DEF TimeInv, Clock
<1>2. lastHPReqTime \in Loose /\ Value(lastHPReqTime) = hpTime /\ now \in Nat /\ hpTime \in Nat
  BY DEF TimeInv
<1>3. lastHPReqTime' = Carried(Clock, lastHPReqTime) BY DEF client_updateStats
<1>4. lastHPReqTime' \in Loose /\ Value(lastHPReqTime') = hpTime
  BY <1>1, <1>2, <1>3, CarriedLoose
<1>5. Value(Difference(Clock, lastHPReqTime)) = now - hpTime
  BY <1>1, <1>2, DifferenceExact
<1>6. PICK lost \in {0, 1} :
        sample' = [recorded |-> Value(Difference(Clock, lastHPReqTime)) - lost,
                   elapsed |-> now - hpTime]
  BY DEF client_updateStats
<1>7. QED BY <1>2, <1>4, <1>5, <1>6

LEMMA TimeInvInit == Init => TimeInv
<1> SUFFICES ASSUME Init PROVE TimeInv OBVIOUS
<1>1. Timespec(0) \in Normal /\ Timespec(0) \in Loose /\ Value(Timespec(0)) = 0
  BY TimespecValue, NormalIsLoose
<1>2. QED BY <1>1, ClientAssumption DEF Init, TimeInv, LatencyTrue

LEMMA TimeInvStep == TimeInv /\ [Next]_vars => TimeInv'
<1> SUFFICES ASSUME TimeInv, [Next]_vars PROVE TimeInv' OBVIOUS
<1>c. Clock \in Normal /\ Clock \in Loose /\ Value(Clock) = now
  BY TimespecValue, NormalIsLoose DEF TimeInv, Clock
<1>1. CASE Step
  <2> UNCHANGED <<now, args>> BY <1>1 DEF Step
  <2>1. CASE UNCHANGED <<lpVars, hpVars, sample>>
    BY <2>1 DEF TimeInv, LatencyTrue, args, lpVars, hpVars
  <2>2. CASE Setup
    BY <2>2, <1>c DEF Setup, TimeInv, LatencyTrue, args
  <2>3. CASE ResetLP
    BY <2>3, <1>c DEF ResetLP, TimeInv, LatencyTrue, args, hpVars
  <2>4. CASE ResetHP
    BY <2>4, <1>c DEF ResetHP, TimeInv, LatencyTrue, args, lpVars
  <2>5. CASE WaitHPReply
    <3>1. CASE UNCHANGED <<lastHPReqTime, sample>>
      BY <2>5, <3>1 DEF WaitHPReply, TimeInv, LatencyTrue, args, lpVars
    <3>2. CASE client_updateStats
      <4>1. /\ lastHPReqTime' \in Loose /\ Value(lastHPReqTime') = hpTime
            /\ sample' \in [recorded : Int, elapsed : Int]
            /\ sample'.elapsed - sample'.recorded \in {0, 1}
        BY <3>2, UpdateStatsKeeps
      <4>2. QED BY <2>5, <4>1 DEF WaitHPReply, TimeInv, LatencyTrue, args, lpVars
    <3>3. QED BY <2>5, <3>1, <3>2 DEF WaitHPReply
  <2>6. QED
    BY <1>1, <2>1, <2>2, <2>3, <2>4, <2>5
    DEF Step, InstallHandler, BeginLoop, Loop, CheckSendLP, CheckSendHP, PrintHistogram,
        ReportFinalStats, hpVars
<1>2. CASE Signal
  BY <1>2 DEF Signal, TimeInv, LatencyTrue, args, lpVars, hpVars
<1>3. CASE Kill
  BY <1>3 DEF Kill, TimeInv, LatencyTrue, args, lpVars, hpVars
<1>4. CASE Tick
  BY <1>4 DEF Tick, TimeInv, LatencyTrue, args, lpVars, hpVars
<1>5. CASE UNCHANGED vars
  BY <1>5 DEF vars, TimeInv, LatencyTrue, args, lpVars, hpVars
<1>6. QED BY <1>1, <1>2, <1>3, <1>4, <1>5 DEF Next

THEOREM TimesKept == Spec => []TimeInv
  BY TimeInvInit, TimeInvStep, PTL DEF Spec

\* Every latency recorded is true to a nanosecond (src/client.c:149-161, 186-209).
THEOREM LatenciesAreTrue == Spec => []LatencyTrue
<1>1. TimeInv => LatencyTrue BY DEF TimeInv
<1>2. QED BY <1>1, TimesKept, PTL

\* A request of a rate is due as the clock says, whatever was carried.
LEMMA Paced ==
  ASSUME NEW rate \in Nat, NEW last \in Loose, now \in Nat
  PROVE  PacedBy(rate, Value(last), last)
<1>1. CASE rate = 0
  BY <1>1 DEF PacedBy, client_shouldSend
<1>2. CASE rate # 0
  <2> DEFINE ipg  == compute_ipg(rate)
             earlier == Difference(Clock, ipg)
  <2>0. NSEC_PER_SEC \in Nat \ {0} BY SecondAssumption
  <2>1. Gap(rate) \in Nat BY <1>2, <2>0, DivRem DEF Gap
  <2>2. ipg \in Normal /\ ipg \in Loose /\ Value(ipg) = Gap(rate)
    BY <2>1, TimespecValue, NormalIsLoose DEF compute_ipg
  <2>3. Clock \in Normal /\ Clock \in Loose /\ Value(Clock) = now
    BY TimespecValue, NormalIsLoose DEF Clock
  <2>4. IsNegative(Clock, ipg) <=> now < Gap(rate)
    BY <2>2, <2>3, SignOfDifference
  <2>5. earlier \in Loose /\ Value(earlier) = now - Gap(rate)
    BY <2>2, <2>3, DifferenceExact, NormalIsLoose
  <2>6. /\ Value(last) < now - Gap(rate) => IsNegative(last, earlier)
        /\ IsNegative(last, earlier) => Value(last) <= now - Gap(rate)
    BY <2>5, SignOfDifference
  <2>7. client_shouldSend(rate, last) <=> ~(now < Gap(rate)) /\ IsNegative(last, earlier)
    BY <1>2, <2>4 DEF client_shouldSend
  <2>8. QED BY <1>2, <2>1, <2>6, <2>7 DEF PacedBy
<1>3. QED BY <1>1, <1>2

\* No request before its gap has passed, none withheld after it
\* (src/client.c:186-235).
THEOREM PacingIsExact == Spec => []PacingExact
<1>1. TimeInv => PacingExact
  BY Paced, NormalIsLoose DEF TimeInv, PacingExact
<1>2. QED BY <1>1, TimesKept, PTL

\* The carries multiply NSEC_PER_SEC by two at most, which fits an int as long as two
\* seconds of nanoseconds do (src/common.c:361-362).
CarriesFit ==
  /\ SecondsUp(Clock, lastHPReqTime) <= 2
  /\ \A rate \in Nat \ {0} :
       /\ SecondsUp(Clock, compute_ipg(rate)) <= 2
       /\ SecondsUp(lastHPReqTime, Difference(Clock, compute_ipg(rate))) <= 2
       /\ SecondsUp(lastLPReqTime, Difference(Clock, compute_ipg(rate))) <= 2

THEOREM CarriesFitAnInt == Spec => []CarriesFit
<1>1. ASSUME TimeInv PROVE CarriesFit
  <2>1. Clock \in Normal /\ Clock \in Loose
    BY <1>1, TimespecValue, NormalIsLoose DEF Clock, TimeInv
  <2>2. lastHPReqTime \in Loose /\ lastLPReqTime \in Loose BY <1>1, NormalIsLoose DEF TimeInv
  <2>3. ASSUME NEW rate \in Nat \ {0}
        PROVE  compute_ipg(rate) \in Loose /\ Difference(Clock, compute_ipg(rate)) \in Loose
    <3>1. NSEC_PER_SEC \in Nat \ {0} BY SecondAssumption
    <3>2. Gap(rate) \in Nat BY <3>1, DivRem DEF Gap
    <3>3. compute_ipg(rate) \in Normal /\ compute_ipg(rate) \in Loose
      BY <3>2, TimespecValue, NormalIsLoose DEF compute_ipg
    <3>4. QED BY <2>1, <3>3, DifferenceExact, NormalIsLoose
  <2>4. \A x, y \in Loose : SecondsUp(x, y) <= 2
    <3>1. TAKE x, y \in Loose
    <3>2. SecondsUp(x, y) \in 0 .. 2 BY CarryUpLoose
    <3>3. QED BY <3>2
  <2>5. QED BY <2>1, <2>2, <2>3, <2>4 DEF CarriesFit
<1>2. QED BY <1>1, TimesKept, PTL

-------------------------------------------------------------------------------
(* Several measurements from one start time                                  *)

\* With the start time as it is remembered at the instant it was taken: nothing has been
\* carried into it then, so the difference of zero is not taken for negative.
StartInv ==
  /\ TimeInv
  /\ hpTime <= now
  /\ hpTime = now => lastHPReqTime = Clock

\* A measurement at the very instant of the start carries nothing.
LEMMA CarriedSelf ==
  ASSUME NEW x \in Normal
  PROVE  Carried(x, x) = x /\ ~IsNegative(x, x)
<1>0. NSEC_PER_SEC \in Nat \ {0} BY SecondAssumption
<1>1. x.sec \in Int /\ x.nsec \in 0 .. NSEC_PER_SEC - 1 /\ x = [sec |-> x.sec, nsec |-> x.nsec]
  BY DEF Normal
<1>2. CarryUp(x, x) = x BY <1>0, <1>1 DEF CarryUp, SecondsUp
<1>3. CarryDown(x, x) = x BY <1>0, <1>1 DEF CarryDown
<1>4. Carried(x, x) = x BY <1>2, <1>3 DEF Carried
<1>5. QED BY <1>1, <1>4 DEF IsNegative

LEMMA StartInvStep == StartInv /\ [Next]_vars => StartInv'
<1> SUFFICES ASSUME StartInv, [Next]_vars PROVE StartInv' OBVIOUS
<1>0. TimeInv' BY TimeInvStep DEF StartInv
<1>1. now \in Nat /\ hpTime \in Nat /\ hpTime <= now /\ (hpTime = now => lastHPReqTime = Clock)
  BY DEF StartInv, TimeInv
<1>2. CASE UNCHANGED <<now, hpVars>>
  BY <1>0, <1>1, <1>2 DEF StartInv, hpVars, Clock
<1>3. CASE now' = now /\ hpTime' = now /\ lastHPReqTime' = Clock
  BY <1>0, <1>1, <1>3 DEF StartInv, Clock
<1>4. CASE now' = now /\ hpTime' = hpTime /\ client_updateStats
  <2>1. ASSUME hpTime = now PROVE lastHPReqTime' = Clock
    <3>1. Clock \in Normal BY <1>1, TimespecValue DEF Clock
    <3>2. lastHPReqTime' = Carried(Clock, Clock) BY <1>1, <1>4, <2>1 DEF client_updateStats
    <3>3. QED BY <3>1, <3>2, CarriedSelf
  <2>2. QED BY <1>0, <1>1, <1>4, <2>1 DEF StartInv, Clock
<1>5. CASE Tick
  BY <1>0, <1>1, <1>5 DEF StartInv, Tick, hpVars
<1>6. QED
  BY <1>2, <1>3, <1>4, <1>5
  DEF Next, Step, InstallHandler, Setup, BeginLoop, Loop, CheckSendLP, ResetLP, CheckSendHP, ResetHP,
      WaitHPReply, PrintHistogram, ReportFinalStats, Signal, Kill, vars, hpVars

\* The third measurement from one start time is exact, and never taken for negative,
\* whatever the first two carried into it (src/server.c:189-203, src/common.c:265-292).
THEOREM RepeatedMeasuresAreExact == Spec => []RepeatedMeasuresExact
<1>1. Init => StartInv
  <2> SUFFICES ASSUME Init PROVE StartInv OBVIOUS
  <2>1. TimeInv BY TimeInvInit
  <2>2. QED BY <2>1 DEF StartInv, TimeInv, Init, Clock
<1>2. ASSUME StartInv PROVE RepeatedMeasuresExact
  <2> SUFFICES ASSUME NEW t \in hpTime .. now, NEW u \in t .. now
               PROVE  LET start == Carried(Timespec(u), Carried(Timespec(t), lastHPReqTime))
                      IN Value(Difference(Clock, start)) = now - hpTime /\ ~IsNegative(Clock, start)
    BY DEF RepeatedMeasuresExact
  <2> DEFINE once  == Carried(Timespec(t), lastHPReqTime)
             start == Carried(Timespec(u), once)
  <2>1. /\ now \in Nat /\ hpTime \in Nat /\ hpTime <= now
        /\ lastHPReqTime \in Loose /\ Value(lastHPReqTime) = hpTime
    BY <1>2 DEF StartInv, TimeInv
  <2>2. t \in Nat /\ u \in Nat /\ hpTime <= t /\ t <= u /\ u <= now BY <2>1
  <2>3. /\ Timespec(t) \in Normal /\ Timespec(t) \in Loose
        /\ Timespec(u) \in Normal /\ Timespec(u) \in Loose
        /\ Clock \in Normal /\ Clock \in Loose /\ Value(Clock) = now
    BY <2>1, <2>2, TimespecValue, NormalIsLoose DEF Clock
  <2>4. once \in Loose /\ Value(once) = hpTime BY <2>1, <2>3, CarriedLoose
  <2>5. start \in Loose /\ Value(start) = hpTime BY <2>3, <2>4, CarriedLoose
  <2>6. Value(Difference(Clock, start)) = now - hpTime BY <2>3, <2>5, DifferenceExact
  <2>7. CASE hpTime < now
    BY <2>1, <2>3, <2>5, <2>6, <2>7, SignOfDifference
  <2>8. CASE hpTime = now
    <3>1. Timespec(t) = Clock /\ Timespec(u) = Clock /\ lastHPReqTime = Clock
      BY <1>2, <2>1, <2>2, <2>8 DEF StartInv, Clock
    <3>2. start = Clock /\ ~IsNegative(Clock, Clock)
      BY <2>3, <3>1, CarriedSelf
    <3>3. QED BY <2>6, <3>2
  <2>9. QED BY <2>1, <2>7, <2>8
<1>3. QED BY <1>1, <1>2, StartInvStep, PTL DEF Spec
==============================================================================
