-------------------------------- MODULE Risk --------------------------------
(***************************************************************************)
(* RiskEngine of src/perplab/core/risk.py: the limits an order is refused  *)
(* by, and what it is told of the account that halts the run.  The engine  *)
(* asks it through engine/backtest.py's _risk_check, with the exposure of  *)
(* what is already working (_working_exposure and its kin).                *)
(*                                                                         *)
(* Sizes, prices and equities are integers and a limit that is not set is  *)
(* a large number.  What the engine was told is kept in told, in the order *)
(* it was told it, for the properties to look back on.                     *)
(***************************************************************************)
EXTENDS Integers, Sequences, FiniteSets
LOCAL INSTANCE SequencesExt
LOCAL INSTANCE FiniteSetsExt

CONSTANTS Start,                 \* starting_equity
          MaxNotional,           \* max_position_notional
          MaxLeverage,
          MaxOpen,               \* max_open_orders
          MaxRate, Minute,       \* max_orders_per_minute and the minute
          Staleness,             \* _print_staleness_ms
          MinEquity, MaxLoss,    \* min_equity, max_daily_loss
          DrawdownNum, DrawdownDen,
          DayLength,
          MaxLosses,             \* max_consecutive_losses
          MaxRejections,         \* max_consecutive_rejections
          MaxDown, MaxBlind,     \* of the socket, of the reconciler
          Tolerance,             \* of a reconciled field
          HaltOnLiquidation

VARIABLES peak,         \* peak_equity
          day,          \* day_key, NoDay before the first sample
          dayOpen,      \* day_open_equity
          last,         \* _last_equity_ms, _last_equity
          window,       \* _submissions
          losses, rejections,
          halt,         \* halt_breach: when and by what; it trips the kill switch
          told          \* every observation and verdict so far

vars == <<peak, day, dayOpen, last, window, losses, rejections, halt, told>>

NoDay  == -1
NoHalt == [at |-> 0, trigger |-> ""]
Larger(a, b) == IF a < b THEN b ELSE a
Abs(n) == IF n < 0 THEN -n ELSE n

Init ==
    /\ peak = Start /\ dayOpen = Start /\ day = NoDay /\ last = [at |-> -1, equity |-> Start]
    /\ window = <<>> /\ losses = 0 /\ rejections = 0 /\ halt = NoHalt /\ told = <<>>

-----------------------------------------------------------------------------
(* Exposure.  An order has a side, a quantity and reduce_only; the legs of *)
(* a hedged symbol are its position sides, of a one-way one BOTH.          *)

Counted(orders, side) ==
    MapThenSumSet(LAMBDA i : orders[i].qty,
                  {i \in DOMAIN orders : orders[i].side = side /\ ~orders[i].reduce})

ProjectedExposure_Net(position, buys, sells) == Abs(position + buys - sells)   \* as if all filled
ProjectedExposure(position, buys, sells) == Larger(Abs(position + buys), Abs(position - sells))

SideExposure(leg, position, orders) ==
    LET buys == Counted(orders, "BUY") sells == Counted(orders, "SELL")
    IN  CASE leg = "BOTH"  -> ProjectedExposure(position, buys, sells)
          [] leg = "LONG"  -> Abs(position) + buys
          [] leg = "SHORT" -> Abs(position) + sells

\* The engine's account of it: b has the position of every leg of every symbol,
\* the open orders, on the wire or resting, what prices a symbol and the equity.
OfLeg(b, symbol, leg) ==
    [i \in {j \in DOMAIN b.orders : b.orders[j].symbol = symbol /\ b.orders[j].leg = leg} |->
        b.orders[i]]
SymbolExposure(b, symbol) ==
    MapThenSumSet(LAMBDA leg : SideExposure(leg, b.position[symbol][leg], OfLeg(b, symbol, leg)),
                  DOMAIN b.position[symbol])

\* The mark, then a print that is not stale, then what the exposure was taken at.
RiskPrice(quote) ==
    CASE quote.mark > 0 -> quote.mark
      [] quote.mark = 0 /\ quote.print > 0 /\ quote.age <= Staleness -> quote.print
      [] OTHER -> quote.entry
Notional(b, symbol) == SymbolExposure(b, symbol) * RiskPrice(b.quote[symbol])
AccountNotional(b) == MapThenSumSet(LAMBDA symbol : Notional(b, symbol), DOMAIN b.position)

\* check_order, past the halt: the first limit an order, one of b's, meets.
Recent(at) == SelectSeq(window, LAMBDA stamp : stamp > at - Minute)
Refusal(b, order, at) ==
    CASE Len(Recent(at)) >= MaxRate -> "max_orders_per_minute"
      [] Cardinality(DOMAIN b.orders) > MaxOpen -> "max_open_orders"
      [] Notional(b, order.symbol) > MaxNotional -> "max_position_notional"
      [] b.equity <= 0 \/ AccountNotional(b) > MaxLeverage * b.equity -> "max_leverage"
      [] OTHER -> ""

-----------------------------------------------------------------------------
(* The verdicts on orders.                                                 *)

Tell(kind, at, x, y) == told' = Append(told, [kind |-> kind, at |-> at, x |-> x, y |-> y])

\* A reduce-only order is counted and never refused while the run is on.
CheckOrder(b, order, at) ==
    LET refusal == CASE halt # NoHalt -> "halted"
                     [] order.reduce -> ""
                     [] OTHER -> Refusal(b, order, at)
    IN  /\ window' = IF halt # NoHalt THEN window
                     ELSE LET left == IF order.reduce THEN window ELSE Recent(at)
                          IN  IF refusal = "" THEN Append(left, at) ELSE left
        /\ Tell(IF refusal = "" THEN "accepted" ELSE "refused", at, IF order.reduce THEN 1 ELSE 0, refusal)
        /\ UNCHANGED <<peak, day, dayOpen, last, losses, rejections, halt>>

-----------------------------------------------------------------------------
(* The observations.  _halt keeps the first.                               *)

Halt(at, trigger) ==
    halt' = IF trigger = "" \/ halt # NoHalt THEN halt ELSE [at |-> at, trigger |-> trigger]

\* _roll_day: a day opens at the last equity seen, the latest by its stamp.
RollDay(at, equity) ==
    LET key == at \div DayLength
    IN  /\ day' = IF key > day THEN key ELSE day
        /\ dayOpen' = IF key <= day THEN dayOpen ELSE IF day = NoDay THEN equity ELSE last.equity
        /\ last' = IF at >= last.at THEN [at |-> at, equity |-> equity] ELSE last

\* _sample_equity: the band a mark bar's equity moved in, each position at its
\* own worst and best mark, a symbol without a bar at the last one it had.
Pnl(leg, price) == leg.qty * (price - leg.entry)
Worst(leg, range) == IF leg.qty > 0 THEN range.low ELSE range.high
Best(leg, range)  == IF leg.qty > 0 THEN range.high ELSE range.low
Trough(wallet, legs, ranges) ==
    wallet + MapThenSumSet(LAMBDA i : Pnl(legs[i], Worst(legs[i], ranges[legs[i].symbol])), DOMAIN legs)
Crest(wallet, legs, ranges) ==
    wallet + MapThenSumSet(LAMBDA i : Pnl(legs[i], Best(legs[i], ranges[legs[i].symbol])), DOMAIN legs)

\* The trough of a sample is tested, its crest raises the peak.
ObserveEquity(at, equity, high) ==
    /\ RollDay(at, equity)
    /\ peak' = Larger(peak, Larger(high, equity))
    /\ Halt(at, CASE equity <= MinEquity         -> "min_equity"
                  [] dayOpen' - equity >= MaxLoss -> "max_daily_loss"
                  [] (peak' - equity) * DrawdownDen >= DrawdownNum * peak' -> "max_drawdown"
                  [] OTHER -> "")
    /\ Tell("equity", at, equity, high)
    /\ UNCHANGED <<window, losses, rejections>>

Same == UNCHANGED <<peak, day, dayOpen, last, window>>

ObserveTradeClosed(at, pnl) ==
    /\ losses' = CASE pnl > 0 -> 0 [] pnl < 0 -> losses + 1 [] OTHER -> losses
    /\ Halt(at, IF pnl < 0 /\ losses' >= MaxLosses THEN "max_consecutive_losses" ELSE "")
    /\ Tell("closed", at, pnl, 0) /\ Same /\ UNCHANGED rejections

ObserveRejection(at) ==
    /\ rejections' = rejections + 1
    /\ Halt(at, IF rejections' >= MaxRejections THEN "max_consecutive_rejections" ELSE "")
    /\ Tell("rejection", at, 0, 0) /\ Same /\ UNCHANGED losses

ObserveAcceptance(at) ==
    /\ rejections' = 0
    /\ Tell("acceptance", at, 0, 0) /\ Same /\ UNCHANGED <<losses, halt>>

Observe(kind, at, x, y, breached, trigger) ==
    /\ Halt(at, IF breached THEN trigger ELSE "")
    /\ Tell(kind, at, x, y) /\ Same /\ UNCHANGED <<losses, rejections>>
ObserveLiquidation(at) == Observe("liquidation", at, 0, 0, HaltOnLiquidation, "LIQUIDATION")
ObserveDisconnect(at, down, open) ==
    Observe("disconnect", at, down, open, open = 1 /\ down > MaxDown, "DISCONNECT")
ObserveReconciliation(at, ours, theirs) ==
    Observe("reconciled", at, ours, theirs, Abs(ours - theirs) > Tolerance, "RECONCILIATION")
ObserveVerificationOutage(at, blind) ==
    Observe("blind", at, blind, 0, blind >= MaxBlind, "RECONCILIATION")
ObserveInvariantFailure(at) == Observe("invariant", at, 0, 0, TRUE, "INVARIANT")

-----------------------------------------------------------------------------
(* What was owed, of all that was told.                                    *)

Among(kind, n) == {i \in 1 .. n : told[i].kind = kind}
DayOf(i) == told[i].at \div DayLength

\* The latest by its stamp, of the samples before the first of sample i's day
\* or of a later day that had begun.
DayOpened(i) ==
    LET samples == Among("equity", i)
        first   == CHOOSE j \in samples :
                     \A k \in samples : DayOf(k) < DayOf(j) \/ (DayOf(k) = DayOf(j) /\ j <= k)
        earlier == {k \in samples : k < first}
        latest  == CHOOSE j \in earlier :
                     \A k \in earlier : told[k].at < told[j].at \/ (told[k].at = told[j].at /\ k <= j)
    IN  IF earlier = {} THEN told[first].x ELSE told[latest].x
Highest(i) ==
    LET seen == {Start} \cup {told[j].x : j \in Among("equity", i)} \cup {told[j].y : j \in Among("equity", i)}
    IN  CHOOSE x \in seen : \A y \in seen : y <= x
Run(kind, i, counts(_), ends(_)) ==   \* of a kind, since the last that ends it
    Cardinality({j \in Among(kind, i) : counts(j) /\ \A k \in j .. i : ~ends(k)})

Owed(i) ==
    LET e == told[i] IN
    CASE e.kind = "equity" ->
            \/ e.x <= MinEquity \/ DayOpened(i) - e.x >= MaxLoss
            \/ (Highest(i) - e.x) * DrawdownDen >= DrawdownNum * Highest(i)
      [] e.kind = "closed" ->
            e.x < 0 /\ Run("closed", i, LAMBDA j : told[j].x < 0,
                           LAMBDA k : told[k].kind = "closed" /\ told[k].x > 0) >= MaxLosses
      [] e.kind = "rejection" ->
            Run("rejection", i, LAMBDA j : TRUE, LAMBDA k : told[k].kind = "acceptance") >= MaxRejections
      [] e.kind = "liquidation" -> HaltOnLiquidation
      [] e.kind = "disconnect"  -> e.y = 1 /\ e.x > MaxDown
      [] e.kind = "reconciled"  -> Abs(e.x - e.y) > Tolerance
      [] e.kind = "blind"       -> e.x >= MaxBlind
      [] e.kind = "invariant"   -> TRUE
      [] OTHER -> FALSE

\* The run is halted by the first observation that breached a limit and by no
\* other, however samples are replayed out of order across midnight.
HaltsAreOwed ==
    LET owed == {i \in DOMAIN told : Owed(i)}
    IN  IF owed = {} THEN halt = NoHalt
        ELSE halt.trigger # "" /\ halt.at = told[CHOOSE i \in owed : \A j \in owed : i <= j].at

\* No rolling minute that ends in an order at the strategy's discretion holds
\* more accepted ones than the limit, and only a full one refuses for it.
RateIsKept ==
    \A i \in DOMAIN told :
        LET minute == {j \in Among("accepted", i) : told[j].at > told[i].at - Minute} IN
        /\ told[i].kind = "accepted" /\ told[i].x = 0 => Cardinality(minute) <= MaxRate
        /\ told[i].kind = "refused" /\ told[i].y = "max_orders_per_minute" => Cardinality(minute) >= MaxRate

VerdictsAreOwed == HaltsAreOwed /\ RateIsKept

\* The positions of a symbol's legs after the fills of a sequence, each whole.
Fill(order, position) ==
    LET way  == IF order.side = "BUY" THEN 1 ELSE -1
        room == IF position * way < 0 THEN Abs(position) ELSE 0
        exit == order.reduce \/ (order.leg = "LONG" /\ way < 0) \/ (order.leg = "SHORT" /\ way > 0)
    IN  position + way * (IF exit /\ room < order.qty THEN room ELSE order.qty)
Reached(b, symbol, sequence) ==
    FoldLeft(LAMBDA legs, i : [legs EXCEPT ![b.orders[i].leg] = Fill(b.orders[i], @)],
             b.position[symbol], sequence)
Sequences(S) == UNION {SetToSeqs(T) : T \in SUBSET S}

\* "A bound over fill orderings" (the module's docstring): no order of fills
\* takes a symbol past the exposure its last order was admitted by.
ExposureIsABound(b) ==
    \A symbol \in DOMAIN b.position :
        \A sequence \in Sequences({i \in DOMAIN b.orders : b.orders[i].symbol = symbol}) :
            MapThenSumSet(LAMBDA leg : Abs(Reached(b, symbol, sequence)[leg]),
                          DOMAIN b.position[symbol]) <= SymbolExposure(b, symbol)

\* It is one of hedged symbols, and of one-way ones without reduce-only orders:
\* one of those may close what another was to close.
ExposureIsBounded(b) ==
    (\A i \in DOMAIN b.orders : b.orders[i].leg = "BOTH" => ~b.orders[i].reduce)
        => ExposureIsABound(b)

\* The equity at every joint path of marks within the bar is in the band, and
\* both of its ends are met when no symbol has two legs.
Paths(ranges) == {at \in [DOMAIN ranges -> UNION {ranges[s].low .. ranges[s].high : s \in DOMAIN ranges}] :
                     \A s \in DOMAIN ranges : at[s] \in ranges[s].low .. ranges[s].high}
EquityAt(wallet, legs, at) ==
    wallet + MapThenSumSet(LAMBDA i : Pnl(legs[i], at[legs[i].symbol]), DOMAIN legs)
BandIsReached(wallet, legs, ranges) ==
    \A end \in {Trough(wallet, legs, ranges), Crest(wallet, legs, ranges)} :
        \E at \in Paths(ranges) : EquityAt(wallet, legs, at) = end
BandIsTrue(wallet, legs, ranges) ==
    /\ \A at \in Paths(ranges) :
          EquityAt(wallet, legs, at) \in Trough(wallet, legs, ranges) .. Crest(wallet, legs, ranges)
    /\ (\A i, j \in DOMAIN legs : legs[i].symbol = legs[j].symbol => i = j)
          => BandIsReached(wallet, legs, ranges)
=============================================================================
