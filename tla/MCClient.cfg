\* Seconds of four nanoseconds, and nearly three of them; gaps of no, one, two and four
\* nanoseconds
CONSTANTS
  NSEC_PER_SEC = 4
  HPRates = {0, 2, 4}
  LPRates = {1, 3}
  NUM_WARMUP_SAMPLES = 1
  MaxTime = 11
SPECIFICATION Spec
INVARIANTS PacingExact LatencyTrue RepeatedMeasuresExact
PROPERTIES SignalEndsClient
CHECK_DEADLOCK FALSE
