CONSTANTS
  INT64_MAX = 1000000000
  INT32_MAX = 127
  lowest_trackable_value = 2
  highest_trackable_value = 80
  significant_figures = 1
  UsedIndices = {0, 5, 33, 47}
  MaxCount = 2
  Ticks = {1, 10}
  Units = {1, 8}
  Bases = {20, 35}
SPECIFICATION IterSpec
INVARIANTS LinesAreTrue EndsComplete StepsReachLevel
PROPERTIES LinesAscend IterationEnds
