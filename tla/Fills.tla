------------------------------- MODULE Fills -------------------------------
(***************************************************************************)
(* What an order meets on arrival, as functions of the market it finds:    *)
(* the fill models and cross_book of src/perplab/engine/fills.py, the      *)
(* times in force of engine/backtest.py's _place_limit, and the triggers   *)
(* of engine/resting.py.                                                   *)
(*                                                                         *)
(* Prices are integers, Tick a divisor of every limit.  A far side is the  *)
(* sequence of levels an order would take from, best first; the bookTicker *)
(* is a far side of one level, and NoBook is a book nobody observed.       *)
(***************************************************************************)
EXTENDS Integers, Sequences, FiniteSets

CONSTANTS Tick, RateDen    \* rates (slippage, penalty, callback) are r / RateDen

NoBook == <<>>
NoQuote == [price |-> 0, exhausted |-> 0]
Smaller(a, b) == IF a < b THEN a ELSE b
Sum(f, n) == LET sum[i \in 0 .. n] == IF i = 0 THEN 0 ELSE sum[i - 1] + f[i] IN sum[n]

\* quantize_fill_price: to the tick, against the trader.
Quantize(num, den, buying) ==
    Tick * (IF buying THEN -((-num) \div (den * Tick)) ELSE num \div (den * Tick))

Moved(buying, rate) == IF buying THEN RateDen + rate ELSE RateDen - rate
Refused(price) == IF price > 0 THEN [price |-> price, exhausted |-> 0] ELSE NoQuote

\* BarCloseFillModel, TradeOnlyFillModel: the print and a rate; the impact of
\* BookTickerFillModel, a root of traded notional, is a rate here.
FromPrice(price, buying, rate) ==
    IF price = 0 THEN NoQuote ELSE Refused(Quantize(price * Moved(buying, rate), RateDen, buying))
FromTouch(far, buying, impact, traded) ==
    IF far = NoBook \/ traded = 0 THEN NoQuote ELSE FromPrice(far[1].price, buying, impact)

\* What each level of a far side gives an order, in turn.
Taken(far, qty) ==
    [i \in DOMAIN far |->
        LET ahead == Sum([j \in DOMAIN far |-> far[j].size], i - 1)
        IN  IF ahead >= qty THEN 0 ELSE Smaller(far[i].size, qty - ahead)]
Got(far, qty)  == Sum(Taken(far, qty), Len(far))
Cost(far, qty) == Sum([i \in DOMAIN far |-> Taken(far, qty)[i] * far[i].price], Len(far))

\* BookWalkFillModel: what the ladder lacks is priced beyond its worst level.
BookWalk(far, qty, buying, penalty) ==
    LET sized     == {i \in DOMAIN far : far[i].size > 0}
        worst     == far[CHOOSE i \in sized : \A j \in sized : j <= i].price
        exhausted == qty - Got(far, qty)
        cost      == Cost(far, qty) * RateDen + exhausted * worst * Moved(buying, penalty)
    IN  IF sized = {} THEN NoQuote
        ELSE [Refused(Quantize(cost, RateDen * qty, buying)) EXCEPT !.exhausted = exhausted]

\* cross_book: the levels at the limit or better, and no other.
Within(price, limit, buying) == IF buying THEN price <= limit ELSE price >= limit
Crossing(far, limit, buying) ==
    SelectSeq(far, LAMBDA level : Within(level.price, limit, buying))
CrossBook(far, qty, limit, buying) ==
    LET near == Crossing(far, limit, buying)
        got  == Got(near, qty)
    IN  [qty |-> got, price |-> IF got = 0 THEN 0 ELSE Quantize(Cost(near, qty), got, buying)]

\* _limit_crosses, _rests_through_book: a bookTicker's limit through the touch,
\* a ladder's through all it shows.
LimitCrosses(far, limit, buying) == far # NoBook /\ Within(far[1].price, limit, buying)
RestsThrough(far, limit, buying) ==
    far # NoBook /\ far[Len(far)].price # limit /\ Within(far[Len(far)].price, limit, buying)

\* _place_limit of qty, cut to clamped by what a reduce-only order may reduce.
Outcome(status, qty, price, through) ==
    [status |-> status, qty |-> qty, price |-> price, through |-> through]

PlaceLimit_RestsFok(far, tif, qty, clamped, limit, buying) ==   \* a FOK takes what there is
    LET available == CrossBook(far, clamped, limit, buying)
    IN  CASE tif = "GTX" /\ (far = NoBook \/ LimitCrosses(far, limit, buying)) ->
                Outcome("EXPIRED", 0, 0, FALSE)
          [] available.qty = qty -> Outcome("FILLED", qty, available.price, FALSE)
          [] OTHER -> Outcome(IF tif = "IOC" THEN "EXPIRED" ELSE "WORKING", available.qty,
                              available.price, RestsThrough(far, limit, buying))

PlaceLimit(far, tif, qty, clamped, limit, buying) ==
    LET available == CrossBook(far, clamped, limit, buying)
        nothing   == Outcome("EXPIRED", 0, 0, FALSE)
    IN  CASE tif = "GTX" /\ (far = NoBook \/ LimitCrosses(far, limit, buying)) -> nothing
          [] tif = "FOK" /\ available.qty < clamped -> nothing
          [] available.qty = qty -> Outcome("FILLED", qty, available.price, FALSE)
          [] tif = "IOC" -> Outcome("EXPIRED", available.qty, available.price, FALSE)
          [] OTHER -> Outcome("WORKING", available.qty, available.price,
                              RestsThrough(far, limit, buying))

-----------------------------------------------------------------------------
(* Triggers.  A trailing stop is its best price so far and the callback.   *)

Extreme(best, price, selling) ==
    IF best = 0 \/ (IF selling THEN price > best ELSE price < best) THEN price ELSE best
TrailHit(best, rate, price, selling) ==
    IF selling THEN price * RateDen <= best * (RateDen - rate)
    ELSE price * RateDen >= best * (RateDen + rate)

BestOf(best, prices, selling) ==
    LET run[i \in 0 .. Len(prices)] ==
            IF i = 0 THEN best ELSE Extreme(run[i - 1], prices[i], selling)
    IN  run

\* RestingBook.observe_price: prints come in order, so each moves the trail
\* before it is tested; the prices of a mark bar do not, so all move it first.
FiresAt(best, rate, prices, selling, ordered) ==
    {i \in DOMAIN prices :
        TrailHit(BestOf(best, prices, selling)[IF ordered THEN i ELSE Len(prices)],
                 rate, prices[i], selling)}

-----------------------------------------------------------------------------
(* What a reader may rely on, of any far side and any order.               *)

\* A price a limit order is filled at is within its limit and no better than
\* the touch; it pays what its levels ask for and less than a tick more, however
\* they average; a larger order has no better a price; a walk of the book costs
\* what the same levels would have cost a limit order, and more once they are
\* exhausted.
PricesAreHonest(far, qty, limit, buying, penalty) ==
    LET cross == CrossBook(far, qty, limit, buying)
        walk  == BookWalk(far, qty, buying, penalty)
        worse(a, b) == IF buying THEN a >= b ELSE a <= b
    IN  /\ cross.qty > 0 =>
              /\ Within(cross.price, limit, buying) /\ worse(cross.price, far[1].price)
              /\ walk.price > 0 => worse(walk.price, cross.price)
              /\ LET paid == cross.price * cross.qty  asked == Cost(Crossing(far, limit, buying), qty)
                 IN  worse(paid, asked) /\ ~worse(paid, asked + (IF buying THEN 1 ELSE -1) * Tick * cross.qty)
        /\ walk.price > 0 => worse(walk.price, far[1].price)
        /\ \A less \in 1 .. qty :
              CrossBook(far, less, limit, buying).qty > 0 =>
                worse(cross.price, CrossBook(far, less, limit, buying).price)

\* What the times in force promise: a post-only order takes nothing, an
\* immediate one does not rest, a fill-or-kill one is filled whole or not at
\* all and rests only if a position cut it short.
PromiseKept(far, tif, qty, clamped, limit, buying) ==
    LET outcome == PlaceLimit(far, tif, qty, clamped, limit, buying)
    IN  /\ tif = "GTX" => outcome.qty = 0
        /\ tif = "IOC" => outcome.status # "WORKING"
        /\ tif = "FOK" => /\ outcome.qty \in {0, clamped}
                          /\ outcome.status = "WORKING" => clamped < qty
        \* What rests with nothing left to take that is shown, rests in front.
        /\ outcome.status = "WORKING" /\ clamped = qty =>
              (outcome.through <=> LimitCrosses(far, limit, buying)
                                     /\ \A i \in DOMAIN far : far[i].price # limit
                                          /\ Within(far[i].price, limit, buying))

\* A trailing stop that any order of a mark bar's prices would fire is fired.
UnorderedIsWorst(best, rate, prices, selling) ==
    FiresAt(best, rate, prices, selling, FALSE) # {} <=>
        \E order \in [1 .. Len(prices) -> 1 .. Len(prices)] :
            /\ \A i, j \in DOMAIN prices : order[i] = order[j] => i = j
            /\ FiresAt(best, rate, [i \in DOMAIN prices |-> prices[order[i]]], selling, TRUE) # {}
===========================================================================
