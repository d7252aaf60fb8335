----------------------------- MODULE HdrHistogram -----------------------------
(***************************************************************************)
(* The latency histogram of src/hdr_histogram.c as operators on a record:  *)
(* c is the bucket configuration, h a histogram with its configuration in  *)
(* h.cfg.  Values fall into buckets of growing width, each of them cut     *)
(* into sub buckets; all values of a sub bucket are equivalent and share a *)
(* count.  Left out: normalize_index, whose offset nobody sets, and the    *)
(* 63-bit shifts of values no configuration accepts.                       *)
(***************************************************************************)
EXTENDS Integers, FiniteSetsExt

CONSTANTS INT64_MAX,   \* the largest value; smaller here than in the program
          INT32_MAX    \* the largest int32_t, of which total_count of an iterator is one

\* 2^n
Pow2[n \in Nat] == IF n = 0 THEN 1 ELSE 2 * Pow2[n - 1]

\* An int64_t has 63 bits for the value
ASSUME WidthAssumption == /\ INT64_MAX \in Nat \ {0} /\ \E w \in 1 .. 63 : INT64_MAX < Pow2[w]
                          /\ INT32_MAX \in Nat

Larger(a, b) == IF a > b THEN a ELSE b

\* The value of n in an int32_t
ToInt32(n) == ((n + INT32_MAX + 1) % (2 * (INT32_MAX + 1))) - (INT32_MAX + 1)

\* floor(log(n) / log(2)), ceil(log(n) / log(2)), and the bits n takes.  The program
\* computes the first two in double precision, which is exact for n < 2^47; just below
\* greater powers of two its LogFloor is one too many.
LogFloor(n)  == CHOOSE k \in 0 .. 62 : Pow2[k] <= n /\ n < Pow2[k + 1]
LogCeil(n)   == CHOOSE k \in 0 .. 62 : n <= Pow2[k] /\ (k = 0 \/ Pow2[k - 1] < n)
BitLength(n) == IF n = 0 THEN 0 ELSE LogFloor(n) + 1

-------------------------------------------------------------------------------
(***************************************************************************)
(* Configuration                                                           *)
(***************************************************************************)

\* Mutant of buckets_needed_to_cover_value: one doubling too few
buckets_needed_to_cover_value_short(value, sub_bucket_count, unit_magnitude) ==
  LET untrackable(n) == sub_bucket_count * Pow2[unit_magnitude + n]
      stops(n) == untrackable(n) >= value \/ untrackable(n) > INT64_MAX \div 2
      last == CHOOSE n \in 0 .. 62 : stops(n) /\ \A m \in 0 .. n - 1 : ~stops(m)
  IN IF untrackable(last) >= value THEN last + 1 ELSE last + 2

\* The loop doubles the smallest untrackable value until it is beyond value, or
\* until it cannot be doubled any more
buckets_needed_to_cover_value(value, sub_bucket_count, unit_magnitude) ==
  LET untrackable(n) == sub_bucket_count * Pow2[unit_magnitude + n]
      stops(n) == untrackable(n) > value \/ untrackable(n) > INT64_MAX \div 2
      last == CHOOSE n \in 0 .. 62 : stops(n) /\ \A m \in 0 .. n - 1 : ~stops(m)
  IN IF untrackable(last) > value THEN last + 1 ELSE last + 2

\* The parameters hdr_init does not answer with EINVAL
ValidParameters(lowest, highest, figures) ==
  /\ lowest >= 1 /\ figures \in 1 .. 5
  /\ lowest * 2 <= highest

\* Mutant of SubBucketHalfCountMagnitude: single unit resolution up to 10^figures only
SubBucketHalfCountMagnitudeShort(figures) == Larger(LogCeil(10^figures), 1) - 1

\* Single unit resolution up to 2 * 10^figures
SubBucketHalfCountMagnitude(figures) == Larger(LogCeil(2 * 10^figures), 1) - 1

hdr_calculate_bucket_config(lowest, highest, figures) ==
  LET unit      == LogFloor(lowest)
      magnitude == SubBucketHalfCountMagnitude(figures)
      sub_count == Pow2[magnitude + 1]
      buckets   == buckets_needed_to_cover_value(highest, sub_count, unit)
  IN [lowest_trackable_value          |-> lowest,
      highest_trackable_value         |-> highest,
      unit_magnitude                  |-> unit,
      significant_figures             |-> figures,
      sub_bucket_half_count_magnitude |-> magnitude,
      sub_bucket_half_count           |-> sub_count \div 2,
      sub_bucket_mask                 |-> (sub_count - 1) * Pow2[unit],
      sub_bucket_count                |-> sub_count,
      bucket_count                    |-> buckets,
      counts_len                      |-> (buckets + 1) * (sub_count \div 2)]

Indices(c) == 0 .. c.counts_len - 1

hdr_init(lowest, highest, figures) ==
  LET c == hdr_calculate_bucket_config(lowest, highest, figures)
  IN [cfg |-> c, min_value |-> INT64_MAX, max_value |-> 0, total_count |-> 0,
      counts |-> [i \in Indices(c) |-> 0]]

\* Mutant of hdr_reset: the extremes stay
hdr_reset_counts(h) == [h EXCEPT !.total_count = 0, !.counts = [i \in Indices(h.cfg) |-> 0]]

hdr_reset(h) == [h EXCEPT !.total_count = 0, !.min_value = INT64_MAX, !.max_value = 0,
                          !.counts = [i \in Indices(h.cfg) |-> 0]]

-------------------------------------------------------------------------------
(***************************************************************************)
(* Values and indices                                                      *)
(***************************************************************************)

\* value | sub_bucket_mask takes the bits of the longer of the two
get_bucket_index(c, value) ==
  Larger(BitLength(value), BitLength(c.sub_bucket_mask))
    - c.unit_magnitude - (c.sub_bucket_half_count_magnitude + 1)

get_sub_bucket_index(value, bucket_index, unit_magnitude) ==
  value \div Pow2[bucket_index + unit_magnitude]

counts_index(c, bucket_index, sub_bucket_index) ==
  (bucket_index + 1) * Pow2[c.sub_bucket_half_count_magnitude]
    + (sub_bucket_index - c.sub_bucket_half_count)

value_from_index(bucket_index, sub_bucket_index, unit_magnitude) ==
  sub_bucket_index * Pow2[bucket_index + unit_magnitude]

counts_index_for(c, value) ==
  LET bucket_index == get_bucket_index(c, value)
  IN counts_index(c, bucket_index, get_sub_bucket_index(value, bucket_index, c.unit_magnitude))

hdr_value_at_index(c, index) ==
  LET bucket_index     == index \div Pow2[c.sub_bucket_half_count_magnitude] - 1
      sub_bucket_index == index % c.sub_bucket_half_count
  IN IF bucket_index < 0
     THEN value_from_index(0, sub_bucket_index, c.unit_magnitude)
     ELSE value_from_index(bucket_index, sub_bucket_index + c.sub_bucket_half_count,
                           c.unit_magnitude)

hdr_size_of_equivalent_value_range(c, value) ==
  LET bucket_index     == get_bucket_index(c, value)
      sub_bucket_index == get_sub_bucket_index(value, bucket_index, c.unit_magnitude)
  IN Pow2[c.unit_magnitude + IF sub_bucket_index >= c.sub_bucket_count
                             THEN bucket_index + 1 ELSE bucket_index]

lowest_equivalent_value(c, value) ==
  LET bucket_index == get_bucket_index(c, value)
  IN value_from_index(bucket_index, get_sub_bucket_index(value, bucket_index, c.unit_magnitude),
                      c.unit_magnitude)

hdr_next_non_equivalent_value(c, value) ==
  lowest_equivalent_value(c, value) + hdr_size_of_equivalent_value_range(c, value)

highest_equivalent_value(c, value) == hdr_next_non_equivalent_value(c, value) - 1

\* Mutant of hdr_median_equivalent_value: the end of the range
hdr_median_equivalent_value_end(c, value) ==
  lowest_equivalent_value(c, value) + hdr_size_of_equivalent_value_range(c, value)

hdr_median_equivalent_value(c, value) ==
  lowest_equivalent_value(c, value) + hdr_size_of_equivalent_value_range(c, value) \div 2

-------------------------------------------------------------------------------
(***************************************************************************)
(* Updates                                                                 *)
(***************************************************************************)

\* hdr_record_values returns true
Accepts(h, value) == value >= 0 /\ counts_index_for(h.cfg, value) \in Indices(h.cfg)

update_min_max(h, value) ==
  [h EXCEPT !.min_value = IF value < h.min_value /\ value # 0 THEN value ELSE @,
            !.max_value = Larger(value, @)]

hdr_record_values(h, value, count) ==
  IF Accepts(h, value)
  THEN update_min_max([h EXCEPT !.counts[counts_index_for(h.cfg, value)] = @ + count,
                                !.total_count = @ + count], value)
  ELSE h

\* The values a caller that had not been blocked would have recorded
MissingValues(value, expected_interval) ==
  IF expected_interval <= 0 THEN {}
  ELSE {value - k * expected_interval : k \in 1 .. value \div expected_interval - 1}

\* Smaller values than one the histogram accepts are accepted too
hdr_record_corrected_values(h, value, count, expected_interval) ==
  IF Accepts(h, value)
  THEN FoldSet(LAMBDA v, g : hdr_record_values(g, v, count), hdr_record_values(h, value, count),
               MissingValues(value, expected_interval))
  ELSE h

\* The indices the recorded values iterator stops at
RecordedIndices(h) == {i \in Indices(h.cfg) : h.counts[i] # 0}

\* The counts up to an index
CumulativeCount(h, index) ==
  MapThenSumSet(LAMBDA i : h.counts[i], {i \in RecordedIndices(h) : i <= index})

\* Mutant of AddedIndices: the iterator looks for the end after it has moved
AddedIndicesButLast(from) ==
  {i \in RecordedIndices(from) : CumulativeCount(from, i) < ToInt32(from.total_count)}

\* The iterator of hdr_add ends with has_next: it compares the counts before an index
\* with the total of from, cut to an int32_t
AddedIndices(from) ==
  {i \in RecordedIndices(from) : CumulativeCount(from, i - 1) < ToInt32(from.total_count)}

\* The indices of from that hdr_add drops, and what it returns: how many values they have
Dropped(h, from) == {i \in AddedIndices(from) : ~Accepts(h, hdr_value_at_index(from.cfg, i))}
DroppedCount(h, from) == MapThenSumSet(LAMBDA i : from.counts[i], Dropped(h, from))

\* What it does to h
hdr_add(h, from) ==
  FoldSet(LAMBDA i, g : hdr_record_values(g, hdr_value_at_index(from.cfg, i), from.counts[i]),
          h, AddedIndices(from))

hdr_reset_internal_counters(h) ==
  LET used     == {i \in Indices(h.cfg) : h.counts[i] > 0}
      non_zero == used \ {0}
  IN [h EXCEPT
       !.max_value = IF used = {} THEN 0
                     ELSE highest_equivalent_value(h.cfg, hdr_value_at_index(h.cfg, Max(used))),
       !.min_value = IF non_zero = {} THEN INT64_MAX
                     ELSE hdr_value_at_index(h.cfg, Min(non_zero)),
       !.total_count = MapThenSumSet(LAMBDA i : h.counts[i], used)]

-------------------------------------------------------------------------------
(***************************************************************************)
(* Queries                                                                 *)
(***************************************************************************)

hdr_max(h) ==
  IF h.total_count = 0 \/ h.max_value = 0 THEN 0 ELSE highest_equivalent_value(h.cfg, h.max_value)

non_zero_min(h) ==
  IF h.min_value = INT64_MAX THEN INT64_MAX ELSE lowest_equivalent_value(h.cfg, h.min_value)

hdr_min(h) ==
  IF h.total_count = 0 \/ 0 < h.counts[0] THEN 0 ELSE non_zero_min(h)

\* At most 100% of the values, in hundredths of a value
Hundredths(h, percentile) == (IF percentile < 100 THEN percentile ELSE 100) * h.total_count

\* Mutant of CountsAtPercentile: not rounded
CountsAtPercentileDown(h, percentile) == {Larger(Hundredths(h, percentile) \div 100, 1)}

\* percentile / 100 of the values, rounded half up, and at least one.  percentile / 100
\* is a double: when it is not exact, half a value may round down too.
CountsAtPercentile(h, percentile) ==
  LET twice   == 2 * Hundredths(h, percentile) + 100
      rounded == twice \div 200
  IN {Larger(rounded, 1)}
       \union IF twice % 200 = 0 /\ percentile % 25 # 0 THEN {Larger(rounded - 1, 1)} ELSE {}

\* The first value that count values do not exceed
ValueOfCount(h, count) ==
  LET reached == {i \in RecordedIndices(h) : CumulativeCount(h, i) >= count}
  IN IF h.total_count = 0 \/ reached = {} THEN 0
     ELSE highest_equivalent_value(h.cfg, hdr_value_at_index(h.cfg, Min(reached)))

\* What it may return
hdr_value_at_percentile(h, percentile) ==
  {ValueOfCount(h, count) : count \in CountsAtPercentile(h, percentile)}

\* hdr_mean is this total divided by total_count
MeanTotal(h) ==
  MapThenSumSet(LAMBDA i : h.counts[i] * hdr_median_equivalent_value(h.cfg,
                                                                     hdr_value_at_index(h.cfg, i)),
                RecordedIndices(h))
==============================================================================
