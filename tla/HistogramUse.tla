----------------------------- MODULE HistogramUse -----------------------------
(***************************************************************************)
(* Histograms as their owners use them: values are recorded, histograms    *)
(* are added, reset, and their counters rebuilt from the counts.  samples  *)
(* remembers, outside the program, the values a histogram accepted, and    *)
(* the properties compare the program's answers with the true ones.        *)
(***************************************************************************)
EXTENDS HdrHistogram, Bags

CONSTANTS Names,                     \* the histograms
          Lowest, Highest, Figures,  \* the parameters hdr_init may get
          UsedLowest, UsedHighest, UsedFigures,  \* and those whose histograms are used
          Values, Repeats, Intervals,\* the arguments of the recording functions
          Percentiles,               \* the percentiles asked for
          MaxSamples                 \* bound on the values in all histograms

\* The arguments are integers of the program's width.  hdr_init does not check that the
\* sub bucket mask fits in 62 bits, and hdr_min takes INT64_MAX for "no value".  Below
\* 2^47 (lowest) and 2^44 (values in all) doubles err as the definitions say.
ASSUME UseAssumption ==
  /\ Lowest \subseteq Int /\ Highest \union UsedHighest \subseteq 0 .. INT64_MAX
  /\ \A lowest \in Lowest, figures \in Figures :
       lowest >= 1 /\ figures \in 1 .. 5
         => LogFloor(lowest) <= 46 /\ LogFloor(lowest) + SubBucketHalfCountMagnitude(figures) <= 61
  /\ Values \subseteq Int /\ \A value \in Values : value < INT64_MAX
  /\ Repeats \subseteq Nat \ {0} /\ Intervals \union Percentiles \subseteq Int
  /\ MaxSamples \in 0 .. INT64_MAX /\ MaxSamples \div Pow2[22] < Pow2[22]

VARIABLES hist, samples

vars == <<hist, samples>>

Init ==
  /\ \E lowest \in Lowest, figures \in Figures :
       \E highest \in [Names -> UsedHighest] \union {[n \in Names |-> max] : max \in Highest} :
         /\ \A n \in Names : ValidParameters(lowest, highest[n], figures)
         /\ hist = [n \in Names |-> hdr_init(lowest, highest[n], figures)]
  /\ samples = [n \in Names |-> EmptyBag]

Used(c) == /\ c.lowest_trackable_value \in UsedLowest
           /\ c.highest_trackable_value \in UsedHighest
           /\ c.significant_figures \in UsedFigures

\* How many values a bag has
Size(bag) == MapThenSumSet(LAMBDA v : bag[v], BagToSet(bag))

\* Bound: the values of all histograms
Room(count) ==
  /\ \A n \in Names : Used(hist[n].cfg)
  /\ MapThenSumSet(LAMBDA n : Size(samples[n]), Names) + count <= MaxSamples

\* values, each of them count times
Bag(values, count) == [v \in values |-> count]

\* hdr_record_value, hdr_record_values; a value that is not accepted changes nothing
Record(n, value, count) ==
  /\ Room(count)
  /\ hist' = [hist EXCEPT ![n] = hdr_record_values(@, value, count)]
  /\ samples' = IF Accepts(hist[n], value)
                THEN [samples EXCEPT ![n] = @ (+) Bag({value}, count)] ELSE samples

RecordCorrected(n, value, count, expected_interval) ==
  LET values == {value} \union MissingValues(value, expected_interval) IN
  /\ Room(count * Cardinality(values))
  /\ hist' = [hist EXCEPT ![n] = hdr_record_corrected_values(@, value, count, expected_interval)]
  /\ samples' = IF Accepts(hist[n], value)
                THEN [samples EXCEPT ![n] = @ (+) Bag(values, count)] ELSE samples

\* The values of from that the iterator of hdr_add comes to, and that lie in the range of n
Fitting(n, from) ==
  [v \in {v \in DOMAIN samples[from] :
           /\ counts_index_for(hist[from].cfg, v) \in AddedIndices(hist[from])
           /\ Accepts(hist[n], v)} |-> samples[from][v]]

Add(n, from) ==
  /\ Room(Size(Fitting(n, from)))
  /\ hist' = [hist EXCEPT ![n] = hdr_add(@, hist[from])]
  /\ samples' = [samples EXCEPT ![n] = @ (+) Fitting(n, from)]

Reset(n) ==
  /\ hist' = [hist EXCEPT ![n] = hdr_reset(@)]
  /\ samples' = [samples EXCEPT ![n] = EmptyBag]

ResetInternalCounters(n) ==
  /\ hist' = [hist EXCEPT ![n] = hdr_reset_internal_counters(@)]
  /\ UNCHANGED samples

Next ==
  \E n \in Names :
    \/ \E value \in Values, count \in Repeats : Record(n, value, count)
    \/ \E value \in Values, count \in Repeats, interval \in Intervals :
         RecordCorrected(n, value, count, interval)
    \/ \E from \in Names \ {n} : Add(n, from)
    \/ Reset(n)
    \/ ResetInternalCounters(n)

Spec == Init /\ [][Next]_vars

-------------------------------------------------------------------------------
(***************************************************************************)
(* Properties                                                              *)
(***************************************************************************)

\* hdr_min and hdr_max are the smallest and the largest value recorded, to within
\* the resolution, through additions and rebuilt counters, and 0 when there is none;
\* a largest value that is equivalent to 0 may be reported as 0
\* (hdr_histogram.c:67-71, 180-232, 483-507).
ExtremesAreTrue ==
  \A n \in Names :
    LET h == hist[n]
        values == BagToSet(samples[n])
    IN IF values = {} THEN hdr_min(h) = 0 /\ hdr_max(h) = 0
       ELSE /\ hdr_min(h) = lowest_equivalent_value(h.cfg, Min(values))
            /\ \/ hdr_max(h) = highest_equivalent_value(h.cfg, Max(values))
               \/ hdr_max(h) = 0 /\ lowest_equivalent_value(h.cfg, Max(values)) = 0

\* Values of bag up to value
UpTo(bag, value) ==
  MapThenSumSet(LAMBDA v : bag[v], {v \in BagToSet(bag) : v <= value})

\* The ranks a percentile may stand for: the numbers of values nearest to it, at least one
Ranks(total, percentile) ==
  LET hundredths == (IF percentile < 0 THEN 0 ELSE Min({percentile, 100})) * total
  IN {Larger(r, 1) : r \in {r \in 0 .. total : 2 * (100 * r - hundredths) \in -100 .. 100}}
ValueAtRank(bag, rank) ==
  CHOOSE v \in BagToSet(bag) : UpTo(bag, v) >= rank /\ UpTo(bag, v - 1) < rank

\* hdr_value_at_percentile is the value, to within the resolution, at a rank the
\* percentile stands for, among the values really recorded, however its doubles round
\* half a value (hdr_histogram.c:509-535).
PercentileIsTrue ==
  \A n \in Names, percentile \in Percentiles :
    hdr_value_at_percentile(hist[n], percentile) \subseteq
      IF samples[n] = EmptyBag THEN {0}
      ELSE {highest_equivalent_value(hist[n].cfg, ValueAtRank(samples[n], rank)) :
              rank \in Ranks(Size(samples[n]), percentile)}

\* The values of bag added up, and the widths of their ranges
ValueSum(bag) == MapThenSumSet(LAMBDA v : v * bag[v], BagToSet(bag))
WidthSum(c, bag) ==
  MapThenSumSet(LAMBDA v : hdr_size_of_equivalent_value_range(c, v) * bag[v], BagToSet(bag))

\* The mean is as far from the true mean as half a range at most, on average: the
\* median values of the ranges add up to the true sum to within that
\* (hdr_histogram.c:537-556).
MeanIsClose ==
  \A n \in Names :
    LET size == WidthSum(hist[n].cfg, samples[n])
    IN 2 * (MeanTotal(hist[n]) - ValueSum(samples[n])) \in (-size) .. size

\* What hdr_add does not add it reports
Accounted(h, from) == hdr_add(h, from).total_count + DroppedCount(h, from)
                        = h.total_count + from.total_count

\* hdr_add loses no value silently: those it does not add are dropped, and counted
\* (hdr_histogram.c:431-449).  That is so as long as the values of from fit the int32_t of
\* its iterator (692); else it may lose values and report none.
AddAccounts ==
  \A n \in Names : \A from \in Names \ {n} :
    hist[from].total_count <= INT32_MAX => Accounted(hist[n], hist[from])

\* Nothing is recorded yet; the parameters never change
Fresh == \A n \in Names : samples[n] = EmptyBag

\* Every trackable value has an index of its own range, so that it is counted where
\* it is looked for, also next to the largest integer (hdr_histogram.c:95-148, 234-294).
EveryTrackableValueHasIndex ==
  Fresh => \A n \in Names :
    LET c == hist[n].cfg IN
    \A value \in 0 .. c.highest_trackable_value :
      /\ counts_index_for(c, value) \in Indices(c)
      /\ hdr_value_at_index(c, counts_index_for(c, value)) = lowest_equivalent_value(c, value)
      /\ value \in lowest_equivalent_value(c, value) .. highest_equivalent_value(c, value)

\* The significant figures: a range of values that share a count is a unit wide, or
\* not wider than its values divided by 10^significant_figures (hdr_histogram.c:259-294).
KeepsSignificantFigures ==
  Fresh => \A n \in Names :
    LET c == hist[n].cfg IN
    \A value \in 0 .. c.highest_trackable_value :
      LET size == hdr_size_of_equivalent_value_range(c, value)
      IN size <= c.lowest_trackable_value \/ size * 10^c.significant_figures <= value
==============================================================================
