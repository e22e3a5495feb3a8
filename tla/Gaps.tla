-------------------------------- MODULE Gaps --------------------------------
(***************************************************************************)
(* The gap rules of src/perplab/data/gaps.py as functions of what the lake *)
(* holds: bars, ticks, funding settlements, open-interest samples and the  *)
(* collector's events, over a half-open range of time start .. end - 1.    *)
(*                                                                         *)
(* The code reads the lake window by window, by UTC day or by the hour     *)
(* from the start of the range, and carries the last record from one       *)
(* window to the next.                                                     *)
(*                                                                         *)
(* The last part is data/manifest.py: what a run may say of its data.  A   *)
(* lake has, of each dataset and symbol, the days it has rows of; a        *)
(* partition's file is there when one of its days is.  A gap of the report *)
(* names a dataset, a symbol or nobody, a span, and whether it is          *)
(* explained.  Fingerprints and row counts are left out.                   *)
(***************************************************************************)
EXTENDS Integers, Sequences, FiniteSets
LOCAL INSTANCE SequencesExt

CONSTANTS Step,        \* interval_to_ms: the bar interval
          Day, Hour,   \* the two window lengths
          Threshold,   \* DEFAULT_TICK_THRESHOLD_MS
          Spacing,     \* METRICS_SILENCE_MS, DEFAULT_EVENT_SILENCE_MS
          Month,       \* the days of a month
          Budget,      \* one over TICK_GAP_TOLERANCE
          Everybody    \* the symbol of a gap in the collector's own events

Least(S)    == CHOOSE x \in S : \A y \in S : x <= y
Greatest(S) == CHOOSE x \in S : \A y \in S : y <= x
In(S, from, to) == {x \in S : from <= x /\ x < to}
Gap(from, to)   == [from |-> from, to |-> to]
GapIf(far, from, to) == IF far THEN {Gap(from, to)} ELSE {}

\* Consecutive members of S further apart than limit.
Pairs(S, limit) ==
    {g \in {Gap(x, y) : x \in S, y \in S} :
        g.to - g.from > limit /\ \A z \in S : z <= g.from \/ g.to <= z}

DayWindows(start, end)  == {start} \cup {t \in start .. end - 1 : t % Day = 0}
HourWindows(start, end) == {t \in start .. end - 1 : (t - start) % Hour = 0}
WindowEnd(windows, window, end) == Least({w \in windows : w > window} \cup {end})

\* The interior silences of a windowed read: those inside each window, and
\* those from the last record carried into it to its first one.
Interior(samples, windows, end, limit) ==
    UNION {LET here    == In(samples, w, WindowEnd(windows, w, end))
               carried == In(samples, Least(windows), w)
           IN  Pairs(here, limit) \cup
               IF here = {} \/ carried = {} THEN {}
               ELSE GapIf(Least(here) - Greatest(carried) > limit, Greatest(carried), Least(here)) :
           w \in windows}

-----------------------------------------------------------------------------
(* detect_kline_gaps: a bar is expected at every multiple of Step that     *)
(* starts and ends within the range; its volume is not consulted.          *)

FirstExpected(start) == -((-start) \div Step) * Step
LastExpected(end)    == ((end - Step) \div Step) * Step
Expected(start, end) == {t \in FirstExpected(start) .. LastExpected(end) : t % Step = 0}
OffGrid(bars, start, end) == {t \in In(bars, start, end) : t % Step # 0}   \* refused

KlineGaps(bars, start, end) ==
    LET here     == In(bars, start, end)
        first    == FirstExpected(start)
        last     == LastExpected(end)
        interior == Interior(here, DayWindows(start, end), end, Step)
    IN  IF here = {} THEN GapIf(Expected(start, end) # {}, first, last + Step)
        ELSE GapIf(Least(here) > first, first, Least(here))
               \cup {Gap(g.from + Step, g.to) : g \in interior}
               \cup GapIf(Greatest(here) < last, Greatest(here) + Step, last + Step)

-----------------------------------------------------------------------------
(* detect_tick_gaps: a silence counts when the bars wholly inside it       *)
(* traded, or when there is none to ask.                                   *)

\* The bars that open after `after` and close before `before` testify.
Silence(from, to, after, before) == [from |-> from, to |-> to, after |-> after, before |-> before]
Between(gap) == Silence(gap.from, gap.to, gap.from, gap.to)

Silences(ticks, start, end) ==
    LET here == In(ticks, start, end)
    IN  IF here = {} THEN {Silence(start, end, start - 1, end)}
        ELSE (IF Least(here) - start > Threshold
              THEN {Silence(start, Least(here), start - 1, Least(here))} ELSE {})
               \cup {Between(g) : g \in Interior(here, HourWindows(start, end), end, Threshold)}
               \cup {Between(g) : g \in GapIf(end - Greatest(here) > Threshold, Greatest(here), end)}

Inside(silence, klines) ==
    {k \in klines : k.open > silence.after /\ k.open + Step - 1 < silence.before}
CrossChecked(silence, klines) ==
    \/ \E k \in Inside(silence, klines) : k.volume # 0
    \/ Inside(silence, klines) = {}

\* The dataset may be absent from the lake, and klines must not be.
TickGaps(present, ticks, klines, start, end) ==
    IF ~present THEN {Gap(start, end)}
    ELSE {Gap(s.from, s.to) : s \in {c \in Silences(ticks, start, end) : CrossChecked(c, klines)}}

-----------------------------------------------------------------------------
(* detect_funding_gaps: the interval is the data's, and of two rows' the   *)
(* longer; the row before the range anchors its first settlement.          *)

Anchored(rows, start, end) ==
    LET known  == SelectSeq(rows, LAMBDA row : row.at < end)
        before == Cardinality({i \in DOMAIN known : known[i].at < start})
    IN  SubSeq(known, IF before = 0 THEN 1 ELSE before, Len(known))
Longer(a, b) == IF a < b THEN b ELSE a
Tolerance(hours) == (hours * 3) \div 2

FundingGaps(rows, start, end) ==   \* refused when Anchored is empty
    LET seen == Anchored(rows, start, end)
        last == seen[Len(seen)]
    IN  {Gap(seen[i - 1].at, seen[i].at) :
            i \in {j \in 2 .. Len(seen) :
                     seen[j].at - seen[j - 1].at
                       > Tolerance(Longer(seen[j - 1].hours, seen[j].hours))}}
          \cup GapIf(end - last.at > Tolerance(last.hours), Longer(last.at, start), end)

-----------------------------------------------------------------------------
(* detect_metrics_gaps and detect_collector_event_gaps: spacing alone, the *)
(* first by the day, the second in one read.                               *)

Spaced(samples, windows, start, end) ==
    IF samples = {} THEN {Gap(start, end)}
    ELSE GapIf(Least(samples) - start > Spacing, start, Least(samples))
           \cup Interior(samples, windows, end, Spacing)
           \cup GapIf(end - Greatest(samples) > Spacing, Greatest(samples), end)

MetricsGaps(samples, start, end) ==
    Spaced(In(samples, start, end), DayWindows(start, end), start, end)
EventGaps(events, start, end) == Spaced(In(events, start, end), {start}, start, end)

-----------------------------------------------------------------------------
(* What the report promises.                                               *)

Covered(gaps) == UNION {In(g.from .. g.to, g.from, g.to) : g \in gaps}

\* The kline gaps are the missing bars, all of them, and no bar that is there.
BarGapsAreExact(bars, start, end) ==
    OffGrid(bars, start, end) = {} =>
        {t \in Covered(KlineGaps(bars, start, end)) : t % Step = 0}
            \ (Expected(start, end) \ bars) = {} /\
        Expected(start, end) \ bars \subseteq Covered(KlineGaps(bars, start, end))

Traded(trades, start, end) ==   \* the bars of the exchange, of what really traded
    {[open |-> t, volume |-> Cardinality(In(trades, t, t + Step))] :
        t \in {o \in start - Step .. end : o % Step = 0}}
Backed(trades, ticks, gap) == (In(trades, gap.from, gap.to) \ ticks) # {}
Unasked(ticks, gap) ==
    \A t \in gap.from .. gap.to - Step : t % Step = 0 => t = gap.from /\ t \in ticks

\* "A flagged gap is always backed by trades we can point at" (the docstring
\* of detect_tick_gaps): of the trades, ticks recorded some.
FlaggedIsBacked(trades, ticks, start, end) ==
    \A gap \in TickGaps(TRUE, ticks, Traded(trades, start, end), start, end) :
        Backed(trades, ticks, gap)

\* A flagged silence lost a trade, or is too short to hold a bar; and a bar
\* whose trades were all lost in a silence over the threshold is flagged.
SilenceIsLoss(trades, ticks, start, end) ==
    LET gaps == TickGaps(TRUE, ticks, Traded(trades, start, end), start, end)
    IN  /\ \A gap \in gaps : Backed(trades, ticks, gap) \/ Unasked(ticks, gap)
        /\ \A gap \in Pairs(In(ticks, start, end), Threshold) :
              (\E t \in gap.from + 1 .. gap.to - Step :
                  t % Step = 0 /\ In(trades, t, t + Step) # {}) => gap \in gaps

\* Of settlements that come at their intervals none is missing, wherever the
\* range starts and whenever the interval changes, and one that is lost between
\* two of the same interval is found.
SettlementsAreCounted(times, hours, lost, start, end) ==
    LET settled == [i \in 1 .. Len(times) |-> [at |-> times[i], hours |-> hours[i]]]
        kept    == SelectSeq(settled, LAMBDA row : row.at \notin lost)
        onTime  == /\ \A i \in 2 .. Len(times) : times[i] - times[i - 1] \in {hours[i - 1], hours[i]}
                   /\ \A i \in DOMAIN times :
                         times[i] < end /\ (i < Len(times) => end <= times[i + 1])
                           => end - times[i] <= hours[i]
    IN  onTime /\ times[1] < start =>
          /\ lost = {} => FundingGaps(kept, start, end) = {}
          /\ \A i \in {j \in 2 .. Len(times) - 1 : times[j] \in lost} :
                hours[i - 1] = hours[i] /\ hours[i] = hours[i + 1]
                  /\ start <= times[i] /\ times[i + 1] < end
                  => \E g \in FundingGaps(kept, start, end) : g.from <= times[i] /\ times[i] < g.to

\* Reading by the day finds what one read would.
WindowsDoNotMatter(samples, start, end) ==
    MetricsGaps(samples, start, end) = EventGaps(samples, start, end)

-----------------------------------------------------------------------------
(* The manifest: which datasets cover a range.                             *)

\* "klines" is partitioned by the month, the tick datasets by the day.
Coarse == {"klines"}
Partition(dataset, day) == IF dataset \in Coarse THEN day \div Month ELSE day
ExpectedDays(start, end) == (start \div Day) .. ((end - 1) \div Day)

\* Mutant: a file in the partition is enough.
DatasetCovers_ByFile(days, dataset, symbols, start, end) ==
    \A s \in symbols, d \in ExpectedDays(start, end) :
        \E f \in days[dataset][s] : Partition(dataset, f) = Partition(dataset, d)
DatasetCovers(days, dataset, symbols, start, end) ==
    \A s \in symbols :
        /\ \A d \in ExpectedDays(start, end) :
              \E f \in days[dataset][s] : Partition(dataset, f) = Partition(dataset, d)
        /\ dataset \in Coarse =>
              Cardinality(days[dataset][s] \cap ExpectedDays(start, end)) >= Cardinality(ExpectedDays(start, end))

-----------------------------------------------------------------------------
(* What is missing of a dataset without an explanation: spans are cut to the *)
(* range, and those that overlap are merged by a cursor over them in order.  *)

Clipped(gap, start, end) == <<Greatest({gap.start, start}), Least({gap.end, end})>>
Before(a, b) == a[1] < b[1] \/ (a[1] = b[1] /\ a[2] < b[2])
Spans(gaps, dataset, symbols, start, end) ==
    {c \in {Clipped(g, start, end) : g \in {g \in gaps : /\ g.dataset = dataset /\ ~g.explained
                                                        /\ g.symbol \in symbols \cup {Everybody}}} :
        c[1] < c[2]}
Missing(gaps, dataset, symbols, start, end) ==
    LET merge(acc, span) ==
            LET from == Greatest({span[1], acc.cursor})
            IN  IF span[2] > from THEN [total |-> acc.total + span[2] - from, cursor |-> span[2]] ELSE acc
    IN  FoldLeft(merge, [total |-> 0, cursor |-> start],
                 SetToSortSeq(Spans(gaps, dataset, symbols, start, end), Before)).total

-----------------------------------------------------------------------------
(* The best fill model the data supports, and whether gaps held it down.     *)

DeriveTier(gaps, days, symbols, start, end) ==
    LET covered(dataset) == DatasetCovers(days, dataset, symbols, start, end)
        usable(dataset) == /\ Missing(gaps, dataset, symbols, start, end) * Budget <= end - start
                           /\ covered(dataset)
    IN  CASE usable("depth20") -> "BOOK_WALK"
          [] ~usable("depth20") /\ usable("aggTrades") ->
                IF usable("bookTicker") THEN "BOOK_TICKER" ELSE "TRADE_ONLY"
          [] OTHER -> IF covered("klines") THEN "BAR_CLOSE" ELSE "refused"

Flags(gaps, days, symbols, start, end) ==
    LET tier == DeriveTier(gaps, days, symbols, start, end) IN
    {f \in {"LOW_FIDELITY", "FILL_TIER_LIMITED_BY_GAPS"} :
        \/ f = "LOW_FIDELITY" /\ tier = "BAR_CLOSE"
        \/ f = "FILL_TIER_LIMITED_BY_GAPS" /\ gaps # {}
             /\ DeriveTier({}, days, symbols, start, end) # tier}

-----------------------------------------------------------------------------
(* What is missing is the instants that an unexplained gap holds, each once;  *)
(* a tier's datasets have rows of every symbol on every day of the range and  *)
(* a better one's do not, or have too much missing; two ranges that meet at a *)
(* midnight support what both do; and no gap ever raises a tier.              *)
Rank(tier) == CASE tier = "refused" -> 0 [] tier = "BAR_CLOSE" -> 1 [] tier = "TRADE_ONLY" -> 2
                [] tier = "BOOK_TICKER" -> 3 [] tier = "BOOK_WALK" -> 4
Datasets == {"klines", "aggTrades", "bookTicker", "depth20"}
Needs(tier) == CASE tier = "BOOK_WALK" -> {"depth20"} [] tier = "BOOK_TICKER" -> {"aggTrades", "bookTicker"}
                 [] tier = "TRADE_ONLY" -> {"aggTrades"} [] tier = "BAR_CLOSE" -> {"klines"}
                 [] tier = "refused" -> {}
TierIsSupported(gaps, days, symbols, start, end) ==
    LET tier == DeriveTier(gaps, days, symbols, start, end)
        lost(ds) == {t \in start .. end - 1 :
                        \E g \in gaps : /\ g.dataset = ds /\ ~g.explained /\ g.start <= t /\ t < g.end
                                        /\ g.symbol \in symbols \cup {Everybody}}
        whole(ds) == \A s \in symbols, t \in start .. end - 1 : t \div Day \in days[ds][s]
        enough(ds) == whole(ds) /\ (ds = "klines" \/ Cardinality(lost(ds)) * Budget <= end - start)
    IN  /\ \A ds \in Datasets : Missing(gaps, ds, symbols, start, end) = Cardinality(lost(ds))
        /\ \A ds \in Needs(tier) : enough(ds)
        /\ \A better \in {"BOOK_WALK", "BOOK_TICKER", "TRADE_ONLY", "BAR_CLOSE"} :
              Rank(better) > Rank(tier) => \E ds \in Needs(better) : ~enough(ds)
        /\ ("FILL_TIER_LIMITED_BY_GAPS" \in Flags(gaps, days, symbols, start, end)) =
              (Rank(DeriveTier({}, days, symbols, start, end)) > Rank(tier))
        /\ \A ds \in Datasets, cut \in {t \in start + 1 .. end - 1 : t % Day = 0} :
              DatasetCovers(days, ds, symbols, start, end) =
                  (DatasetCovers(days, ds, symbols, start, cut) /\ DatasetCovers(days, ds, symbols, cut, end))
=============================================================================
