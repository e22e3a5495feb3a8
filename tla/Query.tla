-------------------------------- MODULE Query --------------------------------
(***************************************************************************)
(* How bars are read out of the lake: src/perplab/data/query.py prunes     *)
(* partitions, collapses duplicate rows and aggregates minute bars into    *)
(* longer ones, and engine/feed.py's _bounded_bars asks for them a week at *)
(* a time.                                                                 *)
(*                                                                         *)
(* Time is in minutes.  A row has the minute it opens in, a price and a    *)
(* volume; the prices of a minute stand for its open, high, low and close. *)
(***************************************************************************)
EXTENDS Integers, Sequences, FiniteSets
LOCAL INSTANCE SequencesExt
LOCAL INSTANCE FiniteSetsExt

CONSTANTS Day, Month, Year,   \* minutes of a day, days of a month, months of a year
          Week                \* minutes of a chunk

Larger(a, b)  == IF a < b THEN b ELSE a
Smaller(a, b) == IF a < b THEN a ELSE b

\* bucket_start_ms, bucket_close_ms; the SQL's floor division.
BucketStart(at, tf) == at - (at % tf)
BucketClose(at, tf) == BucketStart(at, tf) + tf - 1

-----------------------------------------------------------------------------
(* Partitions: by date, by month of a year, by year.                       *)

DateOf(at)  == at \div Day
MonthOf(at) == (DateOf(at) \div Month) % Year
YearOf(at)  == DateOf(at) \div (Month * Year)

\* partition_predicate: does it admit the partition of a row of that minute?  A
\* range within a year compares months, a longer one only years.
Admits(granularity, start, end, at) ==
    CASE granularity = "date"  -> DateOf(at) \in DateOf(start) .. DateOf(end - 1)
      [] granularity = "year"  -> YearOf(at) \in YearOf(start) .. YearOf(end - 1)
      [] granularity = "month" ->
            /\ YearOf(at) \in YearOf(start) .. YearOf(end - 1)
            /\ YearOf(start) = YearOf(end - 1) => MonthOf(at) \in MonthOf(start) .. MonthOf(end - 1)

-----------------------------------------------------------------------------
(* Aggregation.  Rows are a set of [at, price, volume, file]: two files    *)
(* may hold the same minute.                                               *)

\* The rows of a range, and of each minute the least copy whatever file it is in.
Requested(rows, granularity, start, end) ==
    {r \in rows : Admits(granularity, start, end, r.at) /\ r.at \in start .. end - 1}
Copies(rows, at) == {r \in rows : r.at = at}
Kept(rows, at) ==
    CHOOSE r \in Copies(rows, at) : \A q \in Copies(rows, at) :
        r.price < q.price \/ (r.price = q.price /\ r.volume <= q.volume)

\* timeframe_sql: one bar of each bucket that has rows.
Minutes(rows) == {r.at : r \in rows}
Bar(rows, tf, bucket) ==
    LET mine   == {at \in Minutes(rows) : BucketStart(at, tf) = bucket}
        prices == {Kept(rows, at).price : at \in mine}
    IN  [openTime  |-> bucket,
         closeTime |-> BucketClose(bucket, tf),
         open      |-> Kept(rows, CHOOSE at \in mine : \A b \in mine : at <= b).price,
         close     |-> Kept(rows, CHOOSE at \in mine : \A b \in mine : b <= at).price,
         high      |-> CHOOSE p \in prices : \A q \in prices : q <= p,
         low       |-> CHOOSE p \in prices : \A q \in prices : p <= q,
         volume    |-> MapThenSumSet(LAMBDA at : Kept(rows, at).volume, mine),
         bars      |-> Cardinality(mine),
         complete  |-> Cardinality(mine) = tf,
         spare     |-> Cardinality({r \in rows : r.at \in mine}) - Cardinality(mine)]
Buckets(rows, tf) == SetToSortSeq({BucketStart(at, tf) : at \in Minutes(rows)}, <)
Bars(rows, tf, start, end) ==
    LET asked == Requested(rows, "month", start, end)
    IN  [i \in DOMAIN Buckets(asked, tf) |-> Bar(asked, tf, Buckets(asked, tf)[i])]

\* _absent_bucket_ranges: the present ones walked against the grid.
AbsentRanges(present, tf, first, last) ==
    LET walked == FoldLeft(LAMBDA s, at :
                      [previous |-> at,
                       ranges   |-> IF at - s.previous > tf THEN Append(s.ranges, <<s.previous + tf, at>>)
                                    ELSE s.ranges],
                      [previous |-> first - tf, ranges |-> <<>>], present)
    IN  IF walked.previous < last THEN Append(walked.ranges, <<walked.previous + tf, last + tf>>)
        ELSE walked.ranges

\* missing_buckets.
MissingBuckets(rows, tf, start, end) ==
    LET first   == BucketStart(start, tf)
        last    == BucketStart(end - 1, tf)
        present == Buckets(Requested(rows, "month", start, end), tf)
    IN  [expected |-> (last - first) \div tf + 1, present |-> Len(present),
         ranges   |-> AbsentRanges(present, tf, first, last)]

\* derive_timeframe: flag, drop or raise what is incomplete or absent.
Refused == <<>>   \* no bars
Derive(rows, tf, start, end, policy) ==
    LET bars == Bars(rows, tf, start, end) IN
    CASE policy = "flag" -> bars
      [] policy = "drop" -> SelectSeq(bars, LAMBDA b : b.complete)
      [] policy = "raise" ->
            IF \/ bars = <<>> \/ MissingBuckets(rows, tf, start, end).ranges # <<>>
               \/ \E i \in DOMAIN bars : ~bars[i].complete
            THEN Refused ELSE bars

\* _bounded_bars: chunks that end with the weeks of the epoch.
Chunks_FromTheStart(start, end) ==   \* weeks counted from the start of the range
    [i \in 1 .. (end - start + Week - 1) \div Week |->
        <<start + (i - 1) * Week, IF start + i * Week < end THEN start + i * Week ELSE end>>]
Chunks(start, end) ==
    LET first == start \div Week
    IN  [i \in 1 .. ((end - 1) \div Week) - first + 1 |->
            <<Larger(start, (first + i - 1) * Week), Smaller(end, (first + i) * Week)>>]
BoundedBars(rows, tf, start, end) ==
    FlattenSeq([i \in DOMAIN Chunks(start, end) |->
                   Derive(rows, tf, Chunks(start, end)[i][1], Chunks(start, end)[i][2], "flag")])

-----------------------------------------------------------------------------
(* What a reader relies on.                                                *)

\* Whatever the partitions, no row of the range is pruned away.
PruningKeeps(start, end) ==
    \A granularity \in {"date", "month", "year"} :
        \A at \in start .. end - 1 : Admits(granularity, start, end, at)

\* Present and absent buckets make up the calendar's grid, each once, and two
\* ranges never touch.
GridIsCovered(rows, tf, start, end) ==
    LET missing == MissingBuckets(rows, tf, start, end)
        grid    == {b \in start - tf .. end : b % tf = 0 /\ b + tf > start /\ b < end}
        there   == {b \in grid : \E r \in rows : r.at \in start .. end - 1 /\ r.at \in b .. b + tf - 1}
        absent(i) == {b \in grid : b \in missing.ranges[i][1] .. missing.ranges[i][2] - 1}
    IN  /\ missing.expected = Cardinality(grid) /\ missing.present = Cardinality(there)
        /\ UNION {absent(i) : i \in DOMAIN missing.ranges} = grid \ there
        /\ \A i \in DOMAIN missing.ranges :
              /\ Cardinality(absent(i)) * tf = missing.ranges[i][2] - missing.ranges[i][1]
              /\ i > 1 => missing.ranges[i - 1][2] < missing.ranges[i][1]

\* A minute is in one bar, once however many files hold it, never in one that
\* closed before it; two timeframes never disagree; and a range read by weeks is
\* the range read at once.
BarsAreExact(rows, tf, start, end) ==
    LET bars   == Bars(rows, tf, start, end)
        asked  == {r \in rows : r.at \in start .. end - 1}
        at(i)  == {m \in Minutes(asked) : m \in bars[i].openTime .. bars[i].closeTime}
        minute == Bars(rows, 1, start, end)
        of(i)  == {k \in DOMAIN minute : minute[k].openTime \in at(i)}
    IN  /\ UNION {at(i) : i \in DOMAIN bars} = Minutes(asked)
        /\ \A i \in DOMAIN bars :
              /\ bars[i].bars = Cardinality(at(i)) /\ bars[i].bars > 0
              /\ bars[i].complete <=> bars[i].openTime .. bars[i].closeTime \subseteq Minutes(asked)
              /\ bars[i].volume = MapThenSumSet(LAMBDA k : minute[k].volume, of(i))
              /\ bars[i].open = minute[CHOOSE k \in of(i) : \A j \in of(i) : k <= j].open
              /\ bars[i].close = minute[CHOOSE k \in of(i) : \A j \in of(i) : j <= k].close
              /\ \A k \in of(i) : minute[k].open \in bars[i].low .. bars[i].high
              /\ \A end1 \in {bars[i].low, bars[i].high} : \E k \in of(i) : minute[k].open = end1
              /\ i > 1 => bars[i - 1].closeTime < bars[i].openTime
        /\ Cardinality(asked) = FoldLeft(LAMBDA n, b : n + b.bars + b.spare, 0, bars)
        /\ BoundedBars(rows, tf, start, end) = bars

\* "raise" refuses unless every minute of every bucket is there.
StrictIsStrict(rows, tf, start, end) ==
    Derive(rows, tf, start, end, "raise") # Refused <=>
        \A m \in BucketStart(start, tf) .. BucketClose(end - 1, tf) :
            m \in start .. end - 1 /\ \E r \in rows : r.at = m

ReadsAreTrue(rows, tf, start, end) ==
    /\ PruningKeeps(start, end)
    /\ GridIsCovered(rows, tf, start, end)
    /\ BarsAreExact(rows, tf, start, end)
    /\ StrictIsStrict(rows, tf, start, end)
=============================================================================
