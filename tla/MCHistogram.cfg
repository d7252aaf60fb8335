\* Many parameters, up to the largest integer, and a few with which histograms are used
CONSTANTS
  INT64_MAX = 1023
  INT32_MAX = 3
  Names = {a, b}
  Lowest = {1, 2, 3, 4, 5, 16}
  Highest = {2, 19, 20, 21, 31, 32, 33, 63, 64, 65, 127, 128, 255, 256, 511, 512, 1000, 1023}
  Figures = {1, 2}
  UsedLowest = {1, 4}
  UsedHighest = {60, 100}
  UsedFigures = {1}
  Values = {0, 1, 33, 127, 256}
  Repeats = {1}
  Intervals = {0, 31}
  Percentiles = {0, 50, 75, 95, 99, 100}
  MaxSamples = 4
SPECIFICATION Spec
INVARIANTS ExtremesAreTrue PercentileIsTrue MeanIsClose AddAccounts EveryTrackableValueHasIndex KeepsSignificantFigures
