---------------------------- MODULE WalkForward ----------------------------
(***************************************************************************)
(* Walk-forward analysis, src/perplab/lab/walkforward.py: a range is cut   *)
(* into folds, in each of which a grid of parameters is swept in sample,   *)
(* one point is chosen, and it alone is run out of sample; the             *)
(* out-of-sample curves are stitched.                                      *)
(*                                                                         *)
(* A Sharpe ratio is an integer, or absent where the run failed, as <<>>;  *)
(* equities are integers and a stitched one is a fraction.                 *)
(***************************************************************************)
EXTENDS Integers, Sequences, FiniteSets
LOCAL INSTANCE SequencesExt
LOCAL INSTANCE FiniteSetsExt

CONSTANTS Opening   \* opening_balance

Larger(a, b) == IF a < b THEN b ELSE a
Total(q) == FoldLeft(+, 0, q)

-----------------------------------------------------------------------------
(* Folds.                                                                  *)

\* check_against: what the windows will come to.
FoldCount(range, is, oos, step) == (range.end - range.start - is - oos) \div step + 1

Fold(range, is, oos, step, mode, i) ==
    LET at == range.start + is + (i - 1) * step
    IN  [isStart  |-> IF mode = "anchored" THEN range.start ELSE at - is,
         isEnd    |-> at,
         oosStart |-> at,
         oosEnd   |-> at + oos]
\* build_folds: while a whole window is left.
BuildFolds(range, is, oos, step, mode) ==
    LET whole == {i \in 1 .. range.end - range.start :
                     Fold(range, is, oos, step, mode, i).oosEnd <= range.end}
    IN  [i \in 1 .. Cardinality(whole) |-> Fold(range, is, oos, step, mode, i)]
Uncovered(range, folds) ==
    LET covered == Total([i \in DOMAIN folds |-> folds[i].oosEnd - folds[i].oosStart])
    IN  Larger(0, range.end - folds[1].oosStart - covered)

-----------------------------------------------------------------------------
(* The grid: axes is the number of values of each parameter, by name.      *)

Size(axes) == FoldLeft(LAMBDA n, axis : n * axis, 1, axes)
Stride(axes, i) == Size(SubSeq(axes, i + 1, Len(axes)))

\* expand_grid: itertools.product, the last axis running fastest.
Combinations(axes) ==
    FoldLeft(LAMBDA so_far, axis : FlattenSeq([k \in DOMAIN so_far |->
                                       [v \in 1 .. axis |-> Append(so_far[k], v - 1)]]),
             <<<<>>>>, axes)

\* GridShape.position and neighbours, of points counted from 0.
Position(axes, point) == [i \in DOMAIN axes |-> (point \div Stride(axes, i)) % axes[i]]
Neighbours(axes, point) ==
    LET at == Position(axes, point)
    IN  {point - Stride(axes, i) : i \in {k \in DOMAIN axes : at[k] > 0}}
        \cup {point + Stride(axes, i) : i \in {k \in DOMAIN axes : at[k] + 1 < axes[k]}}

\* The median, doubled.
Median(bag) ==
    LET sorted == SortSeq(bag, <)
        n == Len(bag)
    IN  IF n % 2 = 1 THEN 2 * sorted[(n + 1) \div 2] ELSE sorted[n \div 2] + sorted[n \div 2 + 1]

Sharpes(sharpe, points) == FlattenSeq([i \in 1 .. Len(SetToSeq(points)) |-> sharpe[SetToSeq(points)[i]]])

\* objective_values: a point that failed has no value and lends it to no other.
ObjectiveValue(axes, sharpe, objective, point) ==
    CASE sharpe[point] = <<>>     -> <<>>
      [] sharpe[point] # <<>> /\ objective = "max_sharpe" -> <<2 * sharpe[point][1]>>
      [] OTHER -> <<Median(sharpe[point] \o Sharpes(sharpe, Neighbours(axes, point)))>>
Values(axes, sharpe, objective) ==
    [point \in 0 .. Size(axes) - 1 |-> ObjectiveValue(axes, sharpe, objective, point)]

\* choose_index: the first of the best.
ChooseIndex_LastOfTheBest(values) ==
    LET defined == {p \in DOMAIN values : values[p] # <<>>}
        best == {p \in defined : \A q \in defined : values[q][1] <= values[p][1]}
    IN  IF best = {} THEN <<>> ELSE <<CHOOSE p \in best : \A q \in best : q <= p>>
ChooseIndex(values) ==
    LET defined == {p \in DOMAIN values : values[p] # <<>>}
        best == {p \in defined : \A q \in defined : values[q][1] <= values[p][1]}
    IN  IF best = {} THEN <<>> ELSE <<CHOOSE p \in best : \A q \in best : p <= q>>

-----------------------------------------------------------------------------
(* Out of sample.                                                          *)

\* _run_oos: the samples from the last at or before the start to the last at
\* or before the end, an index below the first being the first.
Window(curve, fold) ==
    LET upTo(at) == Cardinality({i \in DOMAIN curve : curve[i].at <= at})
        lo == Larger(1, upTo(fold.oosStart))
    IN  SubSeq(curve, lo, Larger(lo, upTo(fold.oosEnd)))

\* _stitch: each window is scaled to open with what the last one closed with.
\* A sample before the window is stamped with its start, and one that does not
\* advance the clock is dropped; equities are fractions, running is one.
Stamped(fold, sample) == Larger(sample.at, fold.oosStart)
Fresh(out, fold, window) ==
    SelectSeq(window, LAMBDA sample : out = <<>> \/ Stamped(fold, sample) > out[Len(out)].at)
Broke(running, window) == window[1].equity <= 0 \/ running.num <= 0

Stitch(s, fold, window) ==
    LET open == window[1].equity
        fresh == Fresh(s.out, fold, window)
        value(k) == [at |-> Stamped(fold, fresh[k]), num |-> fresh[k].equity * s.running.num,
                     den |-> open * s.running.den,
                     pnl |-> Opening + s.pnl + fresh[k].equity - open]
    IN  CASE s.truncated \/ window = <<>> -> s
          [] ~s.truncated /\ window # <<>> /\ Broke(s.running, window) -> [s EXCEPT !.truncated = TRUE]
          [] OTHER ->
               IF fresh = <<>> THEN s
               ELSE [s EXCEPT !.out = @ \o [k \in DOMAIN fresh |-> value(k)],
                              !.running = [num |-> value(Len(fresh)).num, den |-> value(Len(fresh)).den],
                              !.pnl = @ + window[Len(window)].equity - open,
                              !.folds = Append(@, fold)]

\* run_walkforward: a fold nothing was chosen in has no curve, as <<>>.
Stitched(folds, curves) ==
    FoldLeft(LAMBDA s, i : Stitch(s, folds[i], IF curves[i] = <<>> THEN <<>> ELSE Window(curves[i], folds[i])),
             [out |-> <<>>, running |-> [num |-> Opening, den |-> 1], pnl |-> 0, folds |-> <<>>,
              truncated |-> FALSE],
             [i \in DOMAIN folds |-> i])

-----------------------------------------------------------------------------
(* What the headline rests on.                                             *)

\* No instant is evaluated twice or by parameters that saw it or anything after
\* it, every window is whole, what is evaluated and what is reported uncovered
\* make up all that follows the first in-sample window, and there are as many
\* folds as the cap was checked for.
FoldsAreHonest(range, is, oos, step, mode) ==
    LET folds == BuildFolds(range, is, oos, step, mode)
        inside == {t \in range.start .. range.end - 1 :
                      \E i \in DOMAIN folds : t \in folds[i].oosStart .. folds[i].oosEnd - 1}
    IN  /\ Len(folds) = FoldCount(range, is, oos, step)
        /\ \A i \in DOMAIN folds :
              /\ folds[i].isEnd <= folds[i].oosStart /\ folds[i].oosEnd <= range.end
              /\ range.start <= folds[i].isStart /\ folds[i].isEnd - folds[i].isStart >= is
              /\ \A j \in i + 1 .. Len(folds) : folds[i].oosEnd <= folds[j].oosStart
        /\ Cardinality(inside) + Uncovered(range, folds) = range.end - range.start - is

\* Point i is the i-th combination, and its neighbours are one step off along
\* one axis.
GridIsTrue(axes) ==
    /\ Len(Combinations(axes)) = Size(axes)
    /\ \A p \in 0 .. Size(axes) - 1 :
          /\ Position(axes, p) = Combinations(axes)[p + 1]
          /\ Neighbours(axes, p) =
                {q \in 0 .. Size(axes) - 1 :
                    \E i \in DOMAIN axes :
                        /\ Position(axes, q)[i] - Position(axes, p)[i] \in {-1, 1}
                        /\ \A k \in DOMAIN axes \ {i} : Position(axes, q)[k] = Position(axes, p)[k]}

\* A point that did not run is never chosen, of equals the first is, and with
\* the default objective "a spike with poor neighbours loses to a plateau with
\* decent ones" (the module's docstring) when it has two neighbours or more: the
\* median of two is their mean.
SpikeLosesWith(few, axes, sharpe) ==
    LET chosen == ChooseIndex(Values(axes, sharpe, "nbhd_median_sharpe"))
        defined(p) == {q \in Neighbours(axes, p) : sharpe[q] # <<>>}
        plateau(p, v) == /\ sharpe[p] # <<>> /\ sharpe[p][1] >= v
                         /\ \A q \in defined(p) : sharpe[q][1] >= v
    IN  chosen # <<>> =>
            \A v \in {sharpe[p][1] : p \in {q \in DOMAIN sharpe : sharpe[q] # <<>>}} :
                (\E p \in DOMAIN sharpe : plateau(p, v)) =>
                    ~ /\ Cardinality(defined(chosen[1])) >= few
                      /\ \A q \in defined(chosen[1]) : sharpe[q][1] < v
SpikeLoses(axes, sharpe) == SpikeLosesWith(1, axes, sharpe)
ChoiceIsSound(axes, sharpe) ==
    /\ SpikeLosesWith(2, axes, sharpe)
    /\ \A objective \in {"max_sharpe", "nbhd_median_sharpe"} :
          LET values == Values(axes, sharpe, objective)
              chosen == ChooseIndex(values)
          IN  /\ chosen = <<>> <=> \A p \in DOMAIN sharpe : sharpe[p] = <<>>
              /\ chosen # <<>> =>
                    /\ sharpe[chosen[1]] # <<>>
                    /\ \A p \in DOMAIN values : values[p] # <<>> =>
                          \/ values[p][1] < values[chosen[1]][1]
                          \/ values[p][1] = values[chosen[1]][1] /\ chosen[1] <= p

\* The stitched clock only advances, each sample lies in the window of a fold,
\* the compounded curve ends with the product of the returns of the folds in it
\* and the additive one with the sum of what they earned.
StitchIsHonest(folds, curves) ==
    LET s == Stitched(folds, curves)
        inIt == {i \in DOMAIN folds : \E k \in DOMAIN s.folds : s.folds[k] = folds[i]}
        ends(i) == Window(curves[i], folds[i])[Len(Window(curves[i], folds[i]))].equity
        opens(i) == Window(curves[i], folds[i])[1].equity
        last == s.out[Len(s.out)]
    IN  /\ \A k \in 2 .. Len(s.out) : s.out[k - 1].at < s.out[k].at
        /\ \A k \in DOMAIN s.out : \E i \in inIt : s.out[k].at \in folds[i].oosStart .. folds[i].oosEnd
        /\ inIt # {} =>
              /\ last.num * FoldLeft(LAMBDA n, i : IF i \in inIt THEN n * opens(i) ELSE n, 1, [i \in DOMAIN folds |-> i])
                   = last.den * FoldLeft(LAMBDA n, i : IF i \in inIt THEN n * ends(i) ELSE n, Opening, [i \in DOMAIN folds |-> i])
              /\ last.pnl = Opening + MapThenSumSet(LAMBDA i : ends(i) - opens(i), inIt)
=============================================================================
