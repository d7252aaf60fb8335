-------------------------- MODULE HistogramIterators --------------------------
(***************************************************************************)
(* The iterators of src/hdr_histogram.c, one step per turn of their loops: *)
(* over all values, the recorded values, percentiles, and linear and       *)
(* logarithmic levels.  shown is the iterator as it was when hdr_iter_next *)
(* last returned true, which is what hdr_percentiles_print prints.         *)
(*                                                                         *)
(* A percentile is a fraction <<n, d>> of the whole.  The program keeps it *)
(* in a double, exactly: d is ticks times a power of two.                  *)
(***************************************************************************)
EXTENDS HdrHistogram

CONSTANTS lowest_trackable_value,  \* the histogram's parameters
          highest_trackable_value, significant_figures,
          UsedIndices, MaxCount,   \* its counts: up to MaxCount at UsedIndices
          Ticks,                   \* ticks_per_half_distance
          Units,                   \* value_units_per_bucket, value_units_first_bucket
          Bases                    \* log_base, in tenths

VARIABLES histogram, kind, arg,    \* the histogram, and what iterates over it
          iter, shown,
          pc                       \* "idle" between two calls, "loop", or "done"

iter_vars == <<histogram, kind, arg, iter, shown, pc>>

\* The last five members are those of the union specifics, which the iterators keep for
\* themselves
hdr_iter_init(g) ==
  [counts_index |-> -1, total_count |-> ToInt32(g.total_count), count |-> 0,
   cumulative_count |-> 0, value |-> 0, highest_equivalent_value |-> 0,
   value_iterated_from |-> 0, value_iterated_to |-> 0,
   count_added_in_this_iteration_step |-> 0, next_value_reporting_level |-> 0,
   seen_last_value |-> FALSE, percentile_to_iterate_to |-> <<0, 1>>, percentile |-> <<0, 1>>]

Empty == hdr_init(lowest_trackable_value, highest_trackable_value, significant_figures)

\* A histogram of the program: counts[i] values at each index i
Filled(counts) ==
  FoldSet(LAMBDA i, g : hdr_record_values(g, hdr_value_at_index(Empty.cfg, i), counts[i]),
          Empty, {i \in UsedIndices : counts[i] # 0})

\* The first value beyond the buckets
Beyond == hdr_value_at_index(Empty.cfg, Empty.cfg.counts_len)

\* The parameters are those of a histogram of the program, as in HistogramUse, its values
\* fit the iterator's total, and the levels fit their integers.  Neither of the last two
\* is checked by the program.
ASSUME IteratorAssumption ==
  /\ lowest_trackable_value \in Int /\ highest_trackable_value \in 0 .. INT64_MAX
  /\ ValidParameters(lowest_trackable_value, highest_trackable_value, significant_figures)
  /\ LogFloor(lowest_trackable_value) <= 46
  /\ LogFloor(lowest_trackable_value) + SubBucketHalfCountMagnitude(significant_figures) <= 61
  /\ \A i \in UsedIndices : i \in Indices(Empty.cfg) /\ hdr_value_at_index(Empty.cfg, i) < INT64_MAX
  /\ MaxCount \in Nat
  /\ \A counts \in [UsedIndices -> 0 .. MaxCount] : Filled(counts).total_count <= INT32_MAX
  /\ Ticks \subseteq Nat \ {0} /\ Units \subseteq Nat \ {0} /\ Bases \subseteq Nat
  /\ \A unit \in Units : Beyond + unit <= INT64_MAX
  /\ \A base \in Bases : base >= 10 /\ Beyond * (base \div 10) <= INT64_MAX

hdr_iter_all_init == kind = "all" /\ arg = 0 /\ iter = hdr_iter_init(histogram)

hdr_iter_recorded_init == kind = "recorded" /\ arg = 0 /\ iter = hdr_iter_init(histogram)

hdr_iter_percentile_init ==
  kind = "percentile" /\ arg \in Ticks /\ iter = hdr_iter_init(histogram)

hdr_iter_linear_init ==
  /\ kind = "linear" /\ arg \in Units
  /\ iter = [hdr_iter_init(histogram) EXCEPT !.next_value_reporting_level = arg]

hdr_iter_log_init ==
  /\ kind = "log" /\ arg \in Bases
  /\ \E first \in Units :
       iter = [hdr_iter_init(histogram) EXCEPT !.next_value_reporting_level = first]

IterInit ==
  /\ \E counts \in [UsedIndices -> 0 .. MaxCount] : histogram = Filled(counts)
  /\ \/ hdr_iter_all_init \/ hdr_iter_recorded_init \/ hdr_iter_percentile_init
     \/ hdr_iter_linear_init \/ hdr_iter_log_init
  /\ shown = iter
  /\ pc = "idle"

\* Mutant of has_next: ends one value early
has_next_but_one(it) == it.cumulative_count + 1 < it.total_count

has_next(it) == it.cumulative_count < it.total_count
has_buckets(index) == index < histogram.cfg.counts_len

move_next(it) ==
  LET index == it.counts_index + 1
      value == hdr_value_at_index(histogram.cfg, index)
  IN [it EXCEPT !.counts_index = index, !.count = histogram.counts[index],
                !.cumulative_count = @ + histogram.counts[index], !.value = value,
                !.highest_equivalent_value = highest_equivalent_value(histogram.cfg, value)]

update_iterated_values(it, value) ==
  [it EXCEPT !.value_iterated_from = it.value_iterated_to, !.value_iterated_to = value]

\* hdr_iter_next returns true, or false
Show(it) == iter' = it /\ shown' = it /\ pc' = "idle"
End(it)  == iter' = it /\ pc' = "done" /\ UNCHANGED shown

-------------------------------------------------------------------------------
AllValuesNext ==
  /\ kind = "all" /\ pc = "idle"
  /\ IF has_buckets(iter.counts_index + 1)
     THEN LET it == move_next(iter) IN Show(update_iterated_values(it, it.value))
     ELSE End([iter EXCEPT !.counts_index = @ + 1])

\* One turn of the loop; the next call starts with the next turn
RecordedNext ==
  /\ kind = "recorded" /\ pc = "idle"
  /\ IF has_next(iter)
     THEN LET it == move_next(iter) IN
          IF it.count # 0
          THEN Show([update_iterated_values(it, it.value)
                       EXCEPT !.count_added_in_this_iteration_step = it.count])
          ELSE iter' = it /\ UNCHANGED <<shown, pc>>
     ELSE End(iter)

-------------------------------------------------------------------------------
\* The half distances to 100% passed so far, and one
HalfDistances(n, d) ==
  CHOOSE t \in 1 .. d : (d - n) * Pow2[t] > d /\ (d - n) * Pow2[t - 1] <= d

\* Mutant of NextTick: the ticks so far are not converted to the finer ones
NextTickUnscaled(percentile) ==
  <<percentile[1] + 1, arg * Pow2[HalfDistances(percentile[1], percentile[2])]>>

\* The half distances say how fine the ticks are
NextTick(percentile) ==
  LET n == percentile[1]
      d == percentile[2]
      ticks == arg * Pow2[HalfDistances(n, d)]
  IN <<n * (ticks \div d) + 1, ticks>>

\* Mutant of ReachesPercentile: the bucket before is taken
ReachesPercentileEarly(it) ==
  it.percentile_to_iterate_to[1] * histogram.total_count
    <= (it.cumulative_count + 1) * it.percentile_to_iterate_to[2]

ReachesPercentile(it) ==
  it.percentile_to_iterate_to[1] * histogram.total_count
    <= it.cumulative_count * it.percentile_to_iterate_to[2]

PercentileCall ==
  /\ kind = "percentile" /\ pc = "idle"
  /\ \/ ~has_next(iter) /\ iter.seen_last_value /\ End(iter)
     \/ /\ ~has_next(iter) /\ ~iter.seen_last_value
        /\ Show([iter EXCEPT !.seen_last_value = TRUE, !.percentile = <<1, 1>>])
     \/ /\ has_next(iter)
        /\ iter' = IF iter.counts_index = -1 THEN move_next(iter) ELSE iter
        /\ pc' = "loop" /\ UNCHANGED shown

\* When the loop runs out of values without reaching the percentile it returns true
PercentileTurn ==
  /\ kind = "percentile" /\ pc = "loop"
  /\ IF iter.count # 0 /\ ReachesPercentile(iter)
     THEN Show([update_iterated_values(iter, iter.highest_equivalent_value)
                  EXCEPT !.percentile = iter.percentile_to_iterate_to,
                         !.percentile_to_iterate_to = NextTick(@)])
     ELSE IF has_next(iter) THEN iter' = move_next(iter) /\ UNCHANGED <<shown, pc>>
     ELSE Show(iter)

-------------------------------------------------------------------------------
LevelLowest(it) == lowest_equivalent_value(histogram.cfg, it.next_value_reporting_level)

\* Mutant of NextLevel: the level stays
NextLevelSame(level) == level

\* The base is cast to an integer
NextLevel(level) == IF kind = "linear" THEN level + arg ELSE level * (arg \div 10)

LevelCall ==
  /\ pc = "idle"
  /\ LET it == [iter EXCEPT !.count_added_in_this_iteration_step = 0]
         value == hdr_value_at_index(histogram.cfg, iter.counts_index + 1)
     IN  IF has_next(iter) \/ (has_buckets(iter.counts_index) /\ value > LevelLowest(iter))
         THEN iter' = it /\ pc' = "loop" /\ UNCHANGED shown
         ELSE End(it)

\* Mutant of LevelTurn: the level is reached only beyond its first value
LevelTurnLate ==
  /\ pc = "loop"
  /\ \/ /\ iter.value > LevelLowest(iter)
        /\ Show([update_iterated_values(iter, iter.next_value_reporting_level)
                   EXCEPT !.next_value_reporting_level = NextLevel(@)])
     \/ /\ iter.value <= LevelLowest(iter) /\ has_buckets(iter.counts_index + 1)
        /\ LET it == move_next(iter)
           IN iter' = [it EXCEPT !.count_added_in_this_iteration_step = @ + it.count]
        /\ UNCHANGED <<shown, pc>>
     \/ /\ iter.value <= LevelLowest(iter) /\ ~has_buckets(iter.counts_index + 1)
        /\ Show([iter EXCEPT !.counts_index = @ + 1])

\* The last disjunct: the buckets run out before the level, and the call returns
\* true with the level of the call before
LevelTurn ==
  /\ pc = "loop"
  /\ \/ /\ iter.value >= LevelLowest(iter)
        /\ Show([update_iterated_values(iter, iter.next_value_reporting_level)
                   EXCEPT !.next_value_reporting_level = NextLevel(@)])
     \/ /\ iter.value < LevelLowest(iter) /\ has_buckets(iter.counts_index + 1)
        /\ LET it == move_next(iter)
           IN iter' = [it EXCEPT !.count_added_in_this_iteration_step = @ + it.count]
        /\ UNCHANGED <<shown, pc>>
     \/ /\ iter.value < LevelLowest(iter) /\ ~has_buckets(iter.counts_index + 1)
        /\ Show([iter EXCEPT !.counts_index = @ + 1])

LinearNext == kind = "linear" /\ (LevelCall \/ LevelTurn)
LogNext    == kind = "log" /\ (LevelCall \/ LevelTurn)

\* The caller has seen the iterator end
Done == pc = "done" /\ UNCHANGED iter_vars

IterNext ==
  /\ UNCHANGED <<histogram, kind, arg>>
  /\ \/ AllValuesNext \/ RecordedNext
     \/ PercentileCall \/ PercentileTurn
     \/ LinearNext \/ LogNext
     \/ Done

\* The caller calls hdr_iter_next until it returns false
IterSpec == IterInit /\ [][IterNext]_iter_vars /\ WF_iter_vars(IterNext)

-------------------------------------------------------------------------------
(***************************************************************************)
(* Properties                                                              *)
(***************************************************************************)

\* Each printed line is true of the values: TotalCount values are not larger than
\* Value, they are the percentile at least, and without the values of the last
\* bucket they are not (hdr_histogram.c:716-758).
LinesAreTrue ==
  kind = "percentile" /\ shown.counts_index >= 0 =>
    LET n == shown.percentile[1]
        d == shown.percentile[2]
        last == counts_index_for(histogram.cfg, shown.highest_equivalent_value)
    IN /\ shown.cumulative_count = CumulativeCount(histogram, last)
       /\ n * histogram.total_count <= shown.cumulative_count * d
       /\ n # 0 => n * histogram.total_count > (shown.cumulative_count - shown.count) * d

\* The lines ascend, and the percentiles strictly: no line is printed twice
\* (hdr_histogram.c:985-1005).
LinesAscend ==
  [][kind = "percentile" /\ shown' # shown /\ shown.counts_index >= 0 =>
       /\ shown.percentile[1] * shown'.percentile[2] < shown'.percentile[1] * shown.percentile[2]
       /\ shown.highest_equivalent_value <= shown'.highest_equivalent_value
       /\ shown.cumulative_count <= shown'.cumulative_count]_iter_vars

\* The iteration ends with everything accounted for: the percentiles with the line of
\* 100%, the largest value and all values, the others with all values seen.
EndsComplete ==
  pc = "done" =>
    /\ shown.cumulative_count = histogram.total_count
    /\ kind = "percentile" =>
         /\ shown.percentile = <<1, 1>>
         /\ \/ shown.highest_equivalent_value = hdr_max(histogram)
            \/ hdr_max(histogram) = 0 /\ shown.value = 0

HasLevels == kind \in {"linear", "log"}

\* A step of the linear and logarithmic iterators covers the values up to its level,
\* unless the buckets end before the level does (hdr_histogram.c:857-873, 914-930).
StepsReachLevel ==
  HasLevels /\ shown.counts_index \in Indices(histogram.cfg) =>
    LET reached == {i \in Indices(histogram.cfg) : hdr_value_at_index(histogram.cfg, i)
                      <= lowest_equivalent_value(histogram.cfg, shown.value_iterated_to)}
    IN shown.cumulative_count = CumulativeCount(histogram, Max(reached))

\* hdr_iter_next: "If there are no more values available return faluse"
\* (hdr_histogram.h:358-359), sooner or later, for each kind of iterator; levels of
\* equal width, of a log_base of [1, 2), are for a note in README.md.
IterationEnds == <>(pc = "done")
==============================================================================
