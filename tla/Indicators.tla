----------------------------- MODULE Indicators -----------------------------
(***************************************************************************)
(* src/perplab/strategy/indicators.py: every indicator is driven one       *)
(* closed bar, or print, at a time and keeps its readings.                 *)
(*                                                                         *)
(* Prices are integers, multiples of a unit that no average below divides  *)
(* with a remainder; of ADX and RSI the last quotient is rounded.  A       *)
(* reading is noted with the bar it is of, to state what the code's        *)
(* .value, .prev and crossed_above take for granted.                       *)
(***************************************************************************)
EXTENDS Integers, Sequences, FiniteSets
LOCAL INSTANCE SequencesExt
LOCAL INSTANCE TLC

CONSTANTS Period,               \* of all but MACD
          Fast, Slow, Signal,   \* of MACD
          Session               \* bars of a VWAP session

Total(q) == FoldLeft(+, 0, q)
Larger(a, b) == IF a < b THEN b ELSE a
Abs(n) == IF n < 0 THEN -n ELSE n
Highest(q) == FoldLeft(Larger, q[1], q)
Lowest(q) == -Highest([i \in DOMAIN q |-> -q[i]])
LastOf(q, n) == SubSeq(q, Larger(1, Len(q) - n + 1), Len(q))

\* A deque of maxlen n.
Keep(window, x, n) == LastOf(Append(window, x), n)

\* Indicator._push, of the bar that is the n-th.
Reading(n, value) == [bar |-> n, value |-> value]
Push(readings, n, value) == Append(readings, Reading(n, value))
PushIf(defined, readings, n, value) == IF defined THEN Push(readings, n, value) ELSE readings

-----------------------------------------------------------------------------
(* Windows: SMA, WMA, Bollinger, Donchian, RealisedVolatility.             *)

SMA_KeepsTheOutgoing(s, bar) ==   \* the running sum of a full window only grows
    LET window == Keep(s.window, bar.close, Period)
        sum == s.sum + bar.close
    IN  [n |-> s.n + 1, window |-> window, sum |-> sum, since |-> s.since,
         out |-> PushIf(Len(window) = Period, s.out, s.n + 1, sum \div Period)]
SMA(s, bar) ==
    LET window == Keep(s.window, bar.close, Period)
        due    == s.since + 1 >= Period   \* the sum is taken anew
        sum    == IF due THEN Total(window)
                  ELSE s.sum + bar.close - (IF Len(s.window) = Period THEN s.window[1] ELSE 0)
    IN  [n |-> s.n + 1, window |-> window, sum |-> sum, since |-> IF due THEN 0 ELSE s.since + 1,
         out |-> PushIf(Len(window) = Period, s.out, s.n + 1, sum \div Period)]

WMA(s, bar) ==
    LET window == Keep(s.window, bar.close, Period)
    IN  [n |-> s.n + 1, window |-> window,
         out |-> PushIf(Len(window) = Period, s.out, s.n + 1,
                        (2 * Total([i \in DOMAIN window |-> i * window[i]])) \div (Period * (Period + 1)))]

\* The middle band, and the variance the others stand off by.
Bollinger(s, bar) ==
    LET window == Keep(s.window, bar.close, Period)
        mean   == Total(window) \div Period
    IN  [n |-> s.n + 1, window |-> window,
         out |-> PushIf(Len(window) = Period, s.out, s.n + 1, <<mean,
                        Total([i \in DOMAIN window |-> (window[i] - mean) * (window[i] - mean)]) \div Period>>)]

Donchian(s, bar) ==
    LET highs == Keep(s.highs, bar.high, Period) lows == Keep(s.lows, bar.low, Period)
    IN  [n |-> s.n + 1, highs |-> highs, lows |-> lows,
         out |-> PushIf(Len(highs) = Period, s.out, s.n + 1, <<Highest(highs), Lowest(lows)>>)]

\* Of the volume: a bar without any has no return and empties the window.
RealisedVolatility(s, bar) ==
    LET x == bar.volume
        defined == s.prev # <<>> /\ s.prev # <<0>> /\ x # 0
        returns == IF defined THEN Keep(s.returns, <<s.prev[1], x>>, Period) ELSE <<>>
    IN  [n |-> s.n + 1, prev |-> <<x>>, returns |-> returns,
         out |-> PushIf(Len(returns) = Period, s.out, s.n + 1, returns)]

-----------------------------------------------------------------------------
(* Recursions: seeded with a mean, then a blend of it and what is new.     *)

Unseeded == [seed |-> <<>>, at |-> <<>>]
Seeded(e, x, period, kept, of) ==
    CASE e.at # <<>> -> [e EXCEPT !.at = <<(kept * e.at[1] + (of - kept) * x) \div of>>]
      [] e.at = <<>> /\ Len(e.seed) + 1 < period -> [e EXCEPT !.seed = Append(@, x)]
      [] OTHER -> [seed |-> <<>>, at |-> <<(Total(e.seed) + x) \div period>>]
Smoothed(e, x, period) == Seeded(e, x, period, period - 1, period + 1)   \* alpha of an EMA
Wilder(e, x) == Seeded(e, x, Period, Period - 1, Period)                 \* alpha of one in Period

EMA(s, bar) ==
    LET e == Smoothed(s.e, bar.close, Period)
    IN  [n |-> s.n + 1, e |-> e, out |-> PushIf(e.at # <<>>, s.out, s.n + 1, e.at)]

\* The signal line is an EMA of the line, which leads it.
MACD(s, bar) ==
    LET fast == Smoothed(s.fast, bar.close, Fast)
        slow == Smoothed(s.slow, bar.close, Slow)
        defined == fast.at # <<>> /\ slow.at # <<>>
        line == fast.at[1] - slow.at[1]
        signal == IF defined THEN Smoothed(s.signal, line, Signal) ELSE s.signal
    IN  [n |-> s.n + 1, fast |-> fast, slow |-> slow, signal |-> signal,
         line |-> PushIf(defined, s.line, s.n + 1, line),
         out  |-> PushIf(signal.at # <<>>, s.out, s.n + 1, signal.at)]

\* A window that has not moved reads 50, whatever the averages remember.
RSI(s, bar) ==
    IF s.prev = <<>> THEN [s EXCEPT !.n = @ + 1, !.prev = <<bar.close>>]
    ELSE LET change == bar.close - s.prev[1]
             gain == Wilder(s.gain, Larger(change, 0))
             loss == Wilder(s.loss, Larger(-change, 0))
             flat == IF change = 0 THEN s.flat + 1 ELSE 0
             value == IF flat >= Period \/ gain.at[1] + loss.at[1] = 0 THEN 50
                      ELSE (100 * gain.at[1]) \div (gain.at[1] + loss.at[1])
         IN  [n |-> s.n + 1, prev |-> <<bar.close>>, gain |-> gain, loss |-> loss, flat |-> flat,
              out |-> PushIf(gain.at # <<>>, s.out, s.n + 1, value)]

TrueRange(prev, bar) ==
    Larger(bar.high - bar.low, Larger(Abs(bar.high - prev.close), Abs(bar.low - prev.close)))

ATR(s, bar) ==
    IF s.prev = <<>> THEN [s EXCEPT !.n = @ + 1, !.prev = <<bar>>]
    ELSE LET e == Wilder(s.e, TrueRange(s.prev[1], bar))
         IN  [n |-> s.n + 1, prev |-> <<bar>>, e |-> e,
              out |-> PushIf(e.at # <<>>, s.out, s.n + 1, e.at)]

\* Wilder's sums: seeded with a sum, then less a Period-th of it.
Summed(e, x) ==
    CASE e.at # <<>> -> [e EXCEPT !.at = <<e.at[1] - e.at[1] \div Period + x>>]
      [] e.at = <<>> /\ Len(e.seed) + 1 < Period -> [e EXCEPT !.seed = Append(@, x)]
      [] OTHER -> [seed |-> <<>>, at |-> <<Total(e.seed) + x>>]
ADX(s, bar) ==
    IF s.prev = <<>> THEN [s EXCEPT !.n = @ + 1, !.prev = <<bar>>]
    ELSE LET up    == bar.high - s.prev[1].high
             down  == s.prev[1].low - bar.low
             plus  == Summed(s.plus, IF up > down /\ up > 0 THEN up ELSE 0)
             minus == Summed(s.minus, IF down > up /\ down > 0 THEN down ELSE 0)
             range == Summed(s.range, TrueRange(s.prev[1], bar))
             defined == range.at # <<>>
             both  == IF range.at[1] = 0 THEN 0 ELSE plus.at[1] + minus.at[1]
             dx    == IF both = 0 THEN 0 ELSE (100 * Abs(plus.at[1] - minus.at[1])) \div both
             e     == IF defined THEN Wilder(s.e, dx) ELSE s.e
         IN  [n |-> s.n + 1, prev |-> <<bar>>, plus |-> plus, minus |-> minus, range |-> range, e |-> e,
              di  |-> PushIf(defined, s.di, s.n + 1, <<plus.at, minus.at, range.at>>),
              out |-> PushIf(e.at # <<>>, s.out, s.n + 1, e.at)]

-----------------------------------------------------------------------------
(* Running totals.                                                         *)

VWAP(s, bar) ==
    LET session == s.n \div Session   \* of the bar that is s.n after the first
        fresh   == s.session # session
        pv      == (IF fresh THEN 0 ELSE s.pv) + bar.close * bar.volume
        volume  == (IF fresh THEN 0 ELSE s.volume) + bar.volume
    IN  [n |-> s.n + 1, session |-> session, pv |-> pv, volume |-> volume,
         out |-> Push(s.out, s.n + 1, IF volume > 0 THEN <<pv, volume>> ELSE <<bar.close, 1>>)]

OBV(s, bar) ==
    LET signed == CASE s.prev = <<>> \/ bar.close = s.prev[1] -> 0
                    [] s.prev # <<>> /\ bar.close > s.prev[1] -> bar.volume
                    [] OTHER -> -bar.volume
    IN  [n |-> s.n + 1, prev |-> <<bar.close>>, total |-> s.total + signed,
         out |-> PushIf(s.prev # <<>>, s.out, s.n + 1, s.total + signed)]

\* IndicatorSet.on_trade and CVD: a print that is not past the last is a replay.
CVD(s, print) ==
    IF print.id <= s.last THEN s
    ELSE LET total == s.total + (IF print.maker THEN -print.qty ELSE print.qty)
         IN  [last |-> print.id, total |-> total, out |-> Push(s.out, print.id, total)]

\* FundingMean over Period settlements and OIDelta over Period readings.
FundingMean(s, rate) ==
    LET window == Keep(s.window, rate, Period)
    IN  [n |-> s.n + 1, window |-> window,
         out |-> PushIf(Len(window) = Period, s.out, s.n + 1, Total(window) \div Period)]
OIDelta(s, x) ==
    LET window == Keep(s.window, x, Period + 1)
    IN  [n |-> s.n + 1, window |-> window,
         out |-> PushIf(Len(window) = Period + 1, s.out, s.n + 1, window[Period + 1] - window[1])]

-----------------------------------------------------------------------------
(* Each warmup, of an indicator and all that it derives: of Donchian with  *)
(* the .prev that its breakout reads.                                      *)

Warmup == [SMA |-> Period, EMA |-> Period, WMA |-> Period, Bollinger |-> Period,
           Donchian |-> Period + 1, RSI |-> Period + 1, ATR |-> Period + 1, ADX |-> 2 * Period,
           MACD |-> Slow + Signal - 1, RealisedVolatility |-> Period + 1, VWAP |-> 1, OBV |-> 2]

Fed(Step(_, _), state, events) == FoldLeft(Step, state, events)
Empty == [n |-> 0, window |-> <<>>, out |-> <<>>]
Unmoved == [n |-> 0, prev |-> <<>>, out |-> <<>>]

-----------------------------------------------------------------------------
(* What they stand for, taken from all the bars at once.                   *)

Closes(bars) == [i \in DOMAIN bars |-> bars[i].close]
Back(q, n, k) == SubSeq(q, n - k + 1, n)
Power(a, k) == IF k = 0 THEN 1 ELSE a ^ k
Mean(q) == Total(q) \div Len(q)

\* The mean of the first ones, and what the later ones weigh against it.
Blended(q, first, n, kept, of) ==
    LET k == n - first
    IN  (Power(kept, k) * Mean(SubSeq(q, 1, first))
         + (of - kept) * Total([i \in 1 .. k |-> Power(kept, k - i) * Power(of, i - 1) * q[first + i]]))
            \div Power(of, k)
Ema(q, period, n) == Blended(q, period, n, period - 1, period + 1)
Wilders(q, n) == Blended(q, Period, n, Period - 1, Period)

\* One reading of every bar from the warm one on: so .prev is of the bar before.
Matches(readings, bars, first, Value(_)) ==
    readings = [i \in 1 .. Larger(0, Len(bars) - first + 1) |->
                   Reading(first + i - 1, Value(first + i - 1))]

WindowsAreTrue(bars) ==
    LET closes == Closes(bars)
        window(n) == Back(closes, n, Period)
    IN  /\ Matches(Fed(SMA, Empty @@ [sum |-> 0, since |-> 0], bars).out, bars,
                   Warmup.SMA, LAMBDA n : Mean(window(n)))
        /\ Matches(Fed(WMA, Empty, bars).out, bars, Warmup.WMA,
                   LAMBDA n : (2 * Total([k \in 1 .. Period |-> Total(Back(closes, n, k))]))
                              \div (Period * (Period + 1)))
        /\ Matches(Fed(Bollinger, Empty, bars).out, bars, Warmup.Bollinger,
                   LAMBDA n : <<Mean(window(n)),
                                Mean([i \in 1 .. Period |-> window(n)[i] * window(n)[i]]) - Mean(window(n)) ^ 2>>)
        /\ Matches(Fed(Donchian, [n |-> 0, highs |-> <<>>, lows |-> <<>>, out |-> <<>>], bars).out, bars,
                   Warmup.Donchian - 1,
                   LAMBDA n : <<Highest([i \in 1 .. Period |-> Back(bars, n, Period)[i].high]),
                                Lowest([i \in 1 .. Period |-> Back(bars, n, Period)[i].low])>>)

RecursionsAreTrue(bars) ==
    LET closes  == Closes(bars)
        moves   == [i \in 1 .. Len(bars) - 1 |-> closes[i + 1] - closes[i]]
        ups     == [i \in DOMAIN moves |-> Larger(moves[i], 0)]
        downs   == [i \in DOMAIN moves |-> Larger(-moves[i], 0)]
        ranges  == [i \in DOMAIN moves |-> TrueRange(bars[i], bars[i + 1])]
        rises   == [i \in DOMAIN moves |-> bars[i + 1].high - bars[i].high]
        falls   == [i \in DOMAIN moves |-> bars[i].low - bars[i + 1].low]
        plus    == [i \in DOMAIN moves |-> IF rises[i] > Larger(falls[i], 0) THEN rises[i] ELSE 0]
        minus   == [i \in DOMAIN moves |-> IF falls[i] > Larger(rises[i], 0) THEN falls[i] ELSE 0]
        line(n) == Ema(closes, Fast, n) - Ema(closes, Slow, n)
        lines   == [i \in 1 .. Larger(0, Len(bars) - Slow + 1) |-> line(Slow + i - 1)]
        macd    == Fed(MACD, [n |-> 0, fast |-> Unseeded, slow |-> Unseeded, signal |-> Unseeded,
                              line |-> <<>>, out |-> <<>>], bars)
        adx     == Fed(ADX, Unmoved @@ [plus |-> Unseeded, minus |-> Unseeded, range |-> Unseeded,
                                        e |-> Unseeded, di |-> <<>>], bars)
    IN  /\ Matches(Fed(EMA, [n |-> 0, e |-> Unseeded, out |-> <<>>], bars).out, bars, Warmup.EMA,
                   LAMBDA n : <<Ema(closes, Period, n)>>)
        /\ Matches(macd.line, bars, Slow, line)
        /\ Matches(macd.out, bars, Warmup.MACD, LAMBDA n : <<Ema(lines, Signal, n - Slow + 1)>>)
        /\ Matches(Fed(RSI, Unmoved @@ [gain |-> Unseeded, loss |-> Unseeded, flat |-> 0], bars).out, bars,
                   Warmup.RSI,
                   LAMBDA n : LET gain == Wilders(ups, n - 1) loss == Wilders(downs, n - 1)
                              IN  IF gain + loss = 0 \/ Period = Len(SelectSeq(Back(moves, n - 1, Period), LAMBDA x : x = 0))
                                  THEN 50 ELSE (100 * gain) \div (gain + loss))
        /\ Matches(Fed(ATR, Unmoved @@ [e |-> Unseeded], bars).out, bars, Warmup.ATR,
                   LAMBDA n : <<Wilders(ranges, n - 1)>>)
        /\ Matches(adx.di, bars, Period + 1,
                   LAMBDA n : <<<<Period * Wilders(plus, n - 1)>>, <<Period * Wilders(minus, n - 1)>>,
                                <<Period * Wilders(ranges, n - 1)>>>>)
        /\ Len(adx.out) = Larger(0, Len(bars) - Warmup.ADX + 1)
        /\ \A i \in DOMAIN adx.out : adx.out[i].bar = Warmup.ADX + i - 1 /\ adx.out[i].value[1] \in 0 .. 100

TotalsAreTrue(bars) ==
    LET first(n) == ((n - 1) \div Session) * Session + 1   \* bar of n's session
        traded(n) == {i \in first(n) .. n : bars[i].volume > 0}
        sum(S, Of(_)) == Total([i \in 1 .. Len(bars) |-> IF i \in S THEN Of(i) ELSE 0])
        vol == Fed(RealisedVolatility, Unmoved @@ [returns |-> <<>>], bars).out
    IN  /\ Matches(Fed(VWAP, [n |-> 0, session |-> -1, pv |-> 0, volume |-> 0, out |-> <<>>], bars).out,
                   bars, Warmup.VWAP,
                   LAMBDA n : IF traded(n) = {} THEN <<bars[n].close, 1>>
                              ELSE <<sum(traded(n), LAMBDA i : bars[i].close * bars[i].volume),
                                     sum(traded(n), LAMBDA i : bars[i].volume)>>)
        /\ Matches(Fed(OBV, Unmoved @@ [total |-> 0], bars).out, bars, Warmup.OBV,
                   LAMBDA n : sum({i \in 2 .. n : bars[i].close > bars[i - 1].close}, LAMBDA i : bars[i].volume)
                            - sum({i \in 2 .. n : bars[i].close < bars[i - 1].close}, LAMBDA i : bars[i].volume))
        /\ Matches(Fed(FundingMean, Empty, Closes(bars)).out, bars, Period,
                   LAMBDA n : Mean(Back(Closes(bars), n, Period)))
        /\ Matches(Fed(OIDelta, Empty, Closes(bars)).out, bars, Period + 1,
                   LAMBDA n : bars[n].close - bars[n - Period].close)
        /\ {vol[i].bar : i \in DOMAIN vol} =
              {n \in Warmup.RealisedVolatility .. Len(bars) : \A i \in n - Period .. n : bars[i].volume > 0}
        /\ \A i \in DOMAIN vol : vol[i].value =
              [k \in 1 .. Period |-> <<bars[vol[i].bar - Period + k - 1].volume, bars[vol[i].bar - Period + k].volume>>]

\* Whatever the bars, every indicator has one reading of each bar from its
\* warm-up on, and it is what the window, the blend or the total stands for:
\* running sums, resets and seeds leave no trace.
IndicatorsAreTrue(bars) == WindowsAreTrue(bars) /\ RecursionsAreTrue(bars) /\ TotalsAreTrue(bars)

\* However often a stretch of prints is delivered again, each counts once.
PrintsCountOnce(prints) ==
    LET out == Fed(CVD, [last |-> 0, total |-> 0, out |-> <<>>], prints).out
        ids == {prints[i].id : i \in DOMAIN prints}
        first(id) == prints[CHOOSE i \in DOMAIN prints : prints[i].id = id /\ \A j \in 1 .. i - 1 : prints[j].id # id]
    IN  (\A i \in DOMAIN prints : prints[i].id <= 1 + Cardinality({prints[j].id : j \in 1 .. i - 1}))
          => /\ [i \in DOMAIN out |-> out[i].bar] = [i \in 1 .. Cardinality(ids) |-> i]
             /\ \A i \in DOMAIN out : out[i].value =
                   Total([k \in 1 .. i |-> IF first(k).maker THEN -first(k).qty ELSE first(k).qty])
=============================================================================
