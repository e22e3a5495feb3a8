------------------------------- MODULE Ledger -------------------------------
(***************************************************************************)
(* The account ledger of src/perplab/core/account.py, the margin           *)
(* arithmetic of core/margin.py it rests on, and the round trips           *)
(* analytics/trades.py books beside it, as engine/backtest.py drives them: *)
(* fills, funding, margin transfers, mark bars and the liquidation check.  *)
(*                                                                         *)
(* One symbol, addressed as one position or, in hedge mode, as two that    *)
(* share the wallet and the leverage.  Money is an integer number of       *)
(* quanta (1e-8 in the code); a fraction of added margin or funding that a *)
(* reduction leaves is rounded to the quantum, which the code does when it *)
(* sums them.  A price that need not be a multiple of the quantum is a     *)
(* fraction [num, den] with den > 0, so that nothing is rounded where the  *)
(* code does not round: its context carries 50 digits.                     *)
(***************************************************************************)
EXTENDS Integers, Sequences

CONSTANTS
    Brackets,      \* the table, ordered: records [cap, mmr, cum, maxLeverage]
    MmrDen,        \* maintenance rates are mmr / MmrDen
    MaxIterations, \* MAX_BRACKET_ITERATIONS
    Opening,       \* opening_balance
    Prices,        \* the prices marks and fills have
    Sizes,         \* the sizes of fills
    Amounts,       \* the amounts strategies transfer
    Leverages,     \* the leverages they ask for
    DefaultLeverage,
    FeeRates, FundingRates, RateDen,   \* rates are r / RateDen
    RecoveryNum, RecoveryDen           \* liquidation_recovery_pct

(* LeverageBracket and BracketTable: rates are fractions, tiers abut in     *)
(* order.  (The amounts cum come from the venue and are not validated.)     *)
ASSUME BracketsAreOrdered ==
    /\ Brackets \in Seq([cap : Nat, mmr : Nat, cum : Nat, maxLeverage : Nat \ {0}])
    /\ Brackets # <<>> /\ MmrDen \in Nat \ {0} /\ MaxIterations \in Nat \ {0}
    /\ \A i \in DOMAIN Brackets :
          /\ 0 < Brackets[i].mmr /\ Brackets[i].mmr < MmrDen
          /\ i > 1 => Brackets[i - 1].cap < Brackets[i].cap

ASSUME LedgerAssumption ==
    /\ Opening \in Nat /\ RateDen \in Nat \ {0} /\ RecoveryDen \in Nat \ {0}
    /\ RecoveryNum \in 0 .. RecoveryDen /\ DefaultLeverage \in Leverages
    /\ Prices \subseteq Nat \ {0} /\ Sizes \subseteq Nat \ {0} /\ Amounts \subseteq Nat \ {0}
    /\ Leverages \subseteq Nat \ {0} /\ FeeRates \subseteq Nat /\ FundingRates \subseteq Int
    /\ \A p \in Prices : p % RateDen = 0      \* so that funding is exact

-----------------------------------------------------------------------------
(* Margin.                                                                 *)

AbsOf(n) == IF n < 0 THEN -n ELSE n
SignOf(n) == CASE n < 0 -> -1 [] n = 0 -> 0 [] n > 0 -> 1

(* num / den to the quantum, ties to even: quantize_money and               *)
(* quantize_entry_price.  TLA+'s \div rounds down, for negatives too.       *)
Quantized(num, den) ==
    LET floor == num \div den
        rest  == 2 * (num % den)
    IN  IF rest > den \/ (rest = den /\ floor % 2 = 1) THEN floor + 1 ELSE floor

InitialMargin(notional, leverage) == Quantized(notional, leverage)

(* The first tier whose cap, inclusive, holds num / den; the last tier holds *)
(* whatever is above every cap.                                              *)
Resolve(num, den) ==
    LET holding == {i \in DOMAIN Brackets : num <= Brackets[i].cap * den}
    IN  IF holding = {} THEN Len(Brackets) ELSE CHOOSE i \in holding : \A j \in holding : i <= j

MaxLeverageFor(notional) == Brackets[Resolve(notional, 1)].maxLeverage

(* maintenance_margin times MmrDen, never negative.                         *)
MaintenanceIn(b, notional) ==
    LET mm == notional * Brackets[b].mmr - Brackets[b].cum * MmrDen
    IN  IF mm > 0 THEN mm ELSE 0

-----------------------------------------------------------------------------
(* liquidation_price.                                                       *)

Over(num, den) == IF den < 0 THEN [num |-> -num, den |-> -den] ELSE [num |-> num, den |-> den]

(* The price at which the margin balance meets the maintenance of tier b.   *)
PriceIn_NoAmount(b, qty, entry, margin) ==   \* the tier's maintenance amount is left out
    Over((margin - qty * entry) * MmrDen, AbsOf(qty) * Brackets[b].mmr - qty * MmrDen)
PriceIn(b, qty, entry, margin) ==
    Over((margin - qty * entry + Brackets[b].cum) * MmrDen,
         AbsOf(qty) * Brackets[b].mmr - qty * MmrDen)

(* The solver goes to the tier its price falls in until the two agree.  A    *)
(* price of zero or less ends it at once.  [found, price, bracket].          *)
LiquidationPrice(qty, entry, margin, mark) ==
    LET price(b) == PriceIn(b, qty, entry, margin)
        visited[i \in 1 .. MaxIterations + 1] ==
            IF i = 1 THEN Resolve(AbsOf(qty) * mark, 1)
            ELSE LET p == price(visited[i - 1])
                 IN  IF p.num <= 0 THEN visited[i - 1] ELSE Resolve(AbsOf(qty) * p.num, p.den)
        settled == {i \in 1 .. MaxIterations : visited[i + 1] = visited[i]}
        last    == IF settled = {} THEN MaxIterations
                   ELSE CHOOSE i \in settled : \A j \in settled : i <= j
    IN  [found |-> settled # {}, bracket |-> visited[last], price |-> price(visited[last])]

Reachable(solution) == solution.price.num > 0

(* check_liquidations and remove_margin: the mark is at or beyond the price. *)
Triggered(qty, solution, mark) ==
    /\ Reachable(solution)
    /\ IF qty > 0 THEN mark * solution.price.den <= solution.price.num
                  ELSE mark * solution.price.den >= solution.price.num

Bankruptcy(qty, entry, margin) == Over(qty * entry - margin, qty)
Below(p, q) == p.num * q.den < q.num * p.den

(* check_liquidation_ordering (I7): bankruptcy, liquidation and entry are in *)
(* order, whenever the margin covers the maintenance of the entry notional.  *)
OrderingHolds(qty, entry, margin, solution) ==
    margin * MmrDen > MaintenanceIn(solution.bracket, AbsOf(qty) * entry) /\ Reachable(solution) =>
        LET bankrupt == Bankruptcy(qty, entry, margin)
            opened   == [num |-> entry, den |-> 1]
        IN  IF qty > 0 THEN Below(bankrupt, solution.price) /\ Below(solution.price, opened)
                       ELSE Below(opened, solution.price) /\ Below(solution.price, bankrupt)

-----------------------------------------------------------------------------
(* The reference the solver is compared with, stated without it: what is     *)
(* left of the margin at this mark does not exceed what its own tier asks.   *)
Insolvent(qty, entry, margin, mark) ==
    LET notional == AbsOf(qty) * mark
    IN  (margin + qty * (mark - entry)) * MmrDen <= MaintenanceIn(Resolve(notional, 1), notional)

-----------------------------------------------------------------------------
VARIABLES
    hedge,     \* Account.hedge_mode
    lev,       \* Account.leverages: the symbol's, which its positions share
    mark,      \* Account.marks, NoMark before the first
    pending,   \* BacktestEngine.pending_range: the bar the next check looks at
    acct,      \* wallet, positions and totals of the Account
    book,      \* TradeBuilder: the open round trips, and the net of the closed ones
    paid       \* what the fills and closes paid at their prices, kept by no code:
               \* [cash, forgiven, drift]

vars == <<hedge, lev, mark, pending, acct, book, paid>>

NoMark == 0
NoBar  == <<>>
Side   == {"BOTH", "LONG", "SHORT"}
Sides  == IF hedge THEN {"LONG", "SHORT"} ELSE {"BOTH"}
OpeningSign(s) == CASE s = "BOTH" -> 0 [] s = "LONG" -> 1 [] s = "SHORT" -> -1

Flat    == [qty |-> 0, entry |-> 0, extra |-> 0, funding |-> 0]
NoTrade == [side |-> 0, realized |-> 0, fees |-> 0, funding |-> 0,
            opened |-> 0, closed |-> 0]
Total(f) == f["BOTH"] + f["LONG"] + f["SHORT"]
IsOpen(p) == p.qty # 0
MinOf(a, b) == IF a < b THEN a ELSE b
MaxOf(a, b) == IF a > b THEN a ELSE b

-----------------------------------------------------------------------------
(* What a position ties up, and what is left.                              *)

Isolated(p) == InitialMargin(AbsOf(p.qty) * p.entry, lev) + p.extra + p.funding
Reserved(p) == IF IsOpen(p) THEN MaxOf(Isolated(p), 0) ELSE 0
Allocated(a) == Total([s \in Side |-> Reserved(a.pos[s])])
Available(a) == a.wallet - Allocated(a)

(* A position nobody has a mark for is valued at its entry.                 *)
ValuationMark(p) == IF mark = NoMark THEN p.entry ELSE mark
Unrealized(a) == Total([s \in Side |-> a.pos[s].qty * (ValuationMark(a.pos[s]) - a.pos[s].entry)])
Equity(a) == a.wallet + Unrealized(a)

Attribution(a) ==
    [price |-> a.realized + Unrealized(a) - a.cost, funding |-> a.funding, fees |-> a.fees,
     cost |-> a.cost, net |-> Equity(a) - Opening]

-----------------------------------------------------------------------------
(* A fill (apply_fill): opening, growing, reducing or closing, flipping.     *)

Grows(p, q)   == SignOf(q) = SignOf(p.qty)
Flips(p, q)   == IsOpen(p) /\ ~Grows(p, q) /\ AbsOf(q) > AbsOf(p.qty)

Scaled(amount, p, q) == Quantized(amount * AbsOf(p.qty + q), AbsOf(p.qty))

After(p, q, price) ==
    IF ~IsOpen(p) \/ Flips(p, q)
    THEN [qty |-> p.qty + q, entry |-> price, extra |-> 0, funding |-> 0]
    ELSE IF Grows(p, q)
    THEN [p EXCEPT !.qty = @ + q,
                   !.entry = Quantized(AbsOf(p.qty) * @ + AbsOf(q) * price, AbsOf(p.qty) + AbsOf(q))]
    ELSE IF p.qty + q = 0 THEN Flat
    ELSE [p EXCEPT !.qty = @ + q, !.extra = Scaled(@, p, q), !.funding = Scaled(@, p, q)]

Realized(p, q, price) ==
    IF ~IsOpen(p) \/ Grows(p, q) THEN 0
    ELSE SignOf(p.qty) * MinOf(AbsOf(q), AbsOf(p.qty)) * (price - p.entry)

(* _require_opening_direction, and the flip a hedged side refuses.          *)
Directed(s, p, q) ==
    s # "BOTH" => IF IsOpen(p) THEN ~Flips(p, q) ELSE SignOf(q) = OpeningSign(s)

(* _require_margin: the tier allows the leverage, the wallet can pay the     *)
(* cash leg, and the balance can carry the margin the fill ties up.          *)
Funded_NoCashLeg(p, after, fee, realized) ==   \* only the growth of the margin is asked for
    LET required == Reserved(after) - Reserved(p) + fee - realized
    IN  /\ IsOpen(after) => lev <= MaxLeverageFor(AbsOf(after.qty) * after.entry)
        /\ IsOpen(after) /\ required > 0 => required <= Available(acct)
Funded(p, after, fee, realized) ==
    LET required == Reserved(after) - Reserved(p) + fee - realized
    IN  /\ IsOpen(after) => lev <= MaxLeverageFor(AbsOf(after.qty) * after.entry)
        /\ acct.wallet >= 0 => acct.wallet + realized - fee >= 0
        /\ required > 0 => required <= Available(acct)

(* _check_wallet (I5): overdrawn, though nothing was liquidated.             *)
Violates(a, liquidating) == a.wallet < 0 /\ ~liquidating /\ ~a.wasNegative
Checked(a, liquidating) ==
    [a EXCEPT !.violated = IF @ = "none" /\ Violates(a, liquidating) THEN "I5" ELSE @,
              !.wasNegative = a.wallet < 0]

-----------------------------------------------------------------------------
(* The round trips (TradeBuilder).                                          *)

Net(t) == t.realized - t.fees + t.funding

(* _start and _add_open_leg *)
Leg(t, q, fee) == [t EXCEPT !.opened = @ + q, !.fees = @ + fee]
Started(sign) == [NoTrade EXCEPT !.side = sign]

Finished(b, s, t) == [b EXCEPT !.open[s] = NoTrade, !.closedNet = @ + Net(t)]

(* TradeBuilder.fill *)
Booked_FeeTwice(b, s, q, fee, realized, before, after) ==   \* both trades of a flip pay its fee
    LET t       == b.open[s]
        closing == MinOf(AbsOf(q), AbsOf(before))
        rest    == AbsOf(q) - closing
        reduced == [t EXCEPT !.closed = @ + closing, !.realized = @ + realized, !.fees = @ + fee]
    IN  IF before = 0
        THEN [b EXCEPT !.open[s] = Leg(Started(SignOf(q)), AbsOf(q), fee)]
        ELSE IF SignOf(q) = SignOf(before)
        THEN [b EXCEPT !.open[s] = Leg(t, AbsOf(q), fee)]
        ELSE IF after = 0 THEN Finished(b, s, reduced)
        ELSE IF rest = 0 THEN [b EXCEPT !.open[s] = reduced]
        ELSE [Finished(b, s, reduced) EXCEPT !.open[s] = Leg(Started(SignOf(after)), rest, fee)]
Booked(b, s, q, fee, realized, before, after) ==
    LET t       == b.open[s]
        closing == MinOf(AbsOf(q), AbsOf(before))
        rest    == AbsOf(q) - closing
        share   == IF rest = 0 THEN fee ELSE Quantized(fee * closing, AbsOf(q))
        reduced == [t EXCEPT !.closed = @ + closing, !.realized = @ + realized, !.fees = @ + share]
    IN  IF before = 0
        THEN [b EXCEPT !.open[s] = Leg(Started(SignOf(q)), AbsOf(q), fee)]
        ELSE IF SignOf(q) = SignOf(before)
        THEN [b EXCEPT !.open[s] = Leg(t, AbsOf(q), fee)]
        ELSE IF after = 0 THEN Finished(b, s, reduced)
        ELSE IF rest = 0 THEN [b EXCEPT !.open[s] = reduced]
        ELSE [Finished(b, s, reduced) EXCEPT
                 !.open[s] = Leg(Started(SignOf(after)), rest, fee - share)]

(* TradeBuilder.liquidation *)
BookedLiquidation(b, s, qty, loss) ==
    Finished(b, s, [b.open[s] EXCEPT !.closed = @ + AbsOf(qty), !.realized = @ + loss])

-----------------------------------------------------------------------------
(* A liquidation (_liquidate, _record_liquidations): the whole allocation     *)
(* goes, less a fraction of what the close at the mark leaves of it.          *)

Liquidated(st, s, at) ==
    LET p         == st.acct.pos[s]
        margin    == Isolated(p)
        remaining == margin + p.qty * (at - p.entry)
        taken     == MaxOf(remaining, 0)
        recovered == Quantized(taken * RecoveryNum, RecoveryDen)
        loss      == recovered - margin
    IN  [acct |-> Checked([st.acct EXCEPT !.wallet = @ + loss, !.realized = @ + loss,
                                          !.cost = @ + recovered - taken, !.signed[s] = @ - p.qty,
                                          !.pos[s] = Flat], TRUE),
         book |-> BookedLiquidation(st.book, s, p.qty, loss),
         paid |-> [st.paid EXCEPT !.cash = @ + p.qty * at, !.forgiven = @ + taken - remaining]]

(* One side of check_liquidations, which solves (and checks I7) before it    *)
(* looks at the mark.  A violated invariant ends the run where it is found.  *)
CheckedSide(st, s, at) ==
    LET p        == st.acct.pos[s]
        solution == LiquidationPrice(p.qty, p.entry, Isolated(p), at)
    IN  IF ~IsOpen(p) \/ st.acct.violated # "none" THEN st
        ELSE IF ~solution.found THEN [st EXCEPT !.acct.violated = "convergence"]
        ELSE IF ~OrderingHolds(p.qty, p.entry, Isolated(p), solution)
        THEN [st EXCEPT !.acct.violated = "I7"]
        ELSE IF Triggered(p.qty, solution, at) THEN Liquidated(st, s, at) ELSE st

CheckedAt(st, at) == IF hedge THEN CheckedSide(CheckedSide(st, "LONG", at), "SHORT", at)
                              ELSE CheckedSide(st, "BOTH", at)

-----------------------------------------------------------------------------
Init ==
    /\ hedge \in BOOLEAN /\ lev = DefaultLeverage /\ mark = NoMark /\ pending = NoBar
    /\ acct = [wallet |-> Opening, pos |-> [s \in Side |-> Flat], signed |-> [s \in Side |-> 0],
               realized |-> 0, fees |-> 0, funding |-> 0, cost |-> 0,
               wasNegative |-> FALSE, violated |-> "none"]
    /\ book = [open |-> [s \in Side |-> NoTrade], closedNet |-> 0]
    /\ paid = [cash |-> 0, forgiven |-> 0, drift |-> 0]

Running == acct.violated = "none"

(* _book_fill: what apply_fill and the builder do with a fill that is not    *)
(* refused; a refused one rejects the order and leaves the ledger alone.     *)
Fill(s, q, price, rate) ==
    LET p        == acct.pos[s]
        after    == After(p, q, price)
        realized == Realized(p, q, price)
        fee      == Quantized(AbsOf(q) * price * rate, RateDen)
    IN  /\ Directed(s, p, q) /\ Funded(p, after, fee, realized)
        /\ acct' = Checked([acct EXCEPT !.wallet = @ + realized - fee, !.realized = @ + realized,
                                        !.fees = @ + fee, !.signed[s] = @ + q, !.pos[s] = after],
                           FALSE)
        /\ book' = Booked(book, s, q, fee, realized, p.qty, after.qty)
        /\ paid' = [paid EXCEPT !.cash = @ - q * price,
                       !.drift = IF IsOpen(p) /\ Grows(p, q)
                                 THEN @ + (p.qty * p.entry + q * price) - after.qty * after.entry
                                 ELSE @]
        /\ UNCHANGED <<hedge, lev, mark, pending>>

(* _on_mark: the close is the mark at once, the range waits for the check.   *)
MarkBar(low, high, close) ==
    /\ mark' = close /\ pending' = <<low, high, close>>
    /\ UNCHANGED <<hedge, lev, acct, book, paid>>

(* _on_liquidation_check on a simulated transport: the low, the high and     *)
(* then the close of the bar, each position against each.                    *)
LiquidationCheck ==
    /\ pending # NoBar
    /\ \E low \in {CheckedAt([acct |-> acct, book |-> book, paid |-> paid], pending[1])} :
       \E high \in {CheckedAt(low, pending[2])} :
       \E ended \in {CheckedAt(high, pending[3])} :
          acct' = ended.acct /\ book' = ended.book /\ paid' = ended.paid
    /\ pending' = NoBar
    /\ UNCHANGED <<hedge, lev, mark>>

(* What funding adds to the allocation of a position, and to its round trip.  *)
Credited(r, amount) == [r EXCEPT !.funding = @ + amount]

(* _on_funding: each side settles against the wallet and its own allocation. *)
(* Before the first mark nothing is settled.  A check follows, at the mark    *)
(* unless a bar is waiting.                                                   *)
Funding(rate) ==
    LET flow(s) == (-acct.pos[s].qty * mark * rate) \div RateDen
        sum     == Total([s \in Side |-> flow(s)])
    IN  /\ mark # NoMark /\ \E s \in Sides : IsOpen(acct.pos[s])
        /\ acct' = Checked([acct EXCEPT !.wallet = @ + sum, !.funding = @ + sum,
                              !.pos = [s \in Side |-> Credited(acct.pos[s], flow(s))]], FALSE)
        /\ book' = [book EXCEPT !.open = [s \in Side |-> Credited(book.open[s], flow(s))]]
        /\ pending' = IF pending = NoBar THEN <<mark, mark, mark>> ELSE pending
        /\ UNCHANGED <<hedge, lev, mark, paid>>

AddMargin(s, amount) ==
    /\ IsOpen(acct.pos[s]) /\ amount <= Available(acct) /\ Isolated(acct.pos[s]) >= 0
    /\ acct' = [acct EXCEPT !.pos[s].extra = @ + amount]
    /\ UNCHANGED <<hedge, lev, mark, pending, book, paid>>

(* Refused when the very next check would destroy the position.              *)
RemoveMargin(s, amount) ==
    LET p        == acct.pos[s]
        solution == LiquidationPrice(p.qty, p.entry, Isolated(p) - amount, mark)
    IN  /\ IsOpen(p) /\ amount <= p.extra
        /\ mark # NoMark => solution.found /\ ~Triggered(p.qty, solution, mark)
        /\ acct' = [acct EXCEPT !.pos[s].extra = @ - amount]
        /\ UNCHANGED <<hedge, lev, mark, pending, book, paid>>

(* Not while a position is open: it would reprice its margin.                *)
SetLeverage(leverage) ==
    /\ \A s \in Sides : ~IsOpen(acct.pos[s])
    /\ \E i \in DOMAIN Brackets : leverage <= Brackets[i].maxLeverage
    /\ lev' = leverage /\ lev # leverage
    /\ UNCHANGED <<hedge, mark, pending, acct, book, paid>>

(* The clock's priorities put the check of an instant before its fills and    *)
(* its orders, and after its funding.                                         *)
Next ==
    /\ Running
    /\ \/ LiquidationCheck
       \/ \E rate \in FundingRates : Funding(rate)
       \/ /\ pending = NoBar
          /\ \/ \E s \in Sides, n \in Sizes, dir \in {-1, 1}, price \in Prices, rate \in FeeRates :
                   Fill(s, dir * n, price, rate)
             \/ \E low, high, close \in Prices :
                   low <= close /\ close <= high /\ MarkBar(low, high, close)
             \/ \E s \in Sides, amount \in Amounts : AddMargin(s, amount)
             \/ \E s \in Sides, amount \in Amounts : RemoveMargin(s, amount)
             \/ \E leverage \in Leverages : SetLeverage(leverage)

Spec == Init /\ [][Next]_vars

-----------------------------------------------------------------------------
(* Every quantum the wallet gained or lost is in exactly one round trip:      *)
(* flips share their fee, funding goes to the side it was settled on, and a   *)
(* liquidation closes the trade it ends.  And a trade is open exactly while   *)
(* its position is, for the quantity it still holds.                          *)
TradesExplainTheWallet ==
    /\ acct.wallet - Opening = book.closedNet + Total([s \in Side |-> Net(book.open[s])])
    /\ \A s \in Side :
          /\ book.open[s].side = SignOf(acct.pos[s].qty)
          /\ book.open[s].opened - book.open[s].closed = AbsOf(acct.pos[s].qty)

(* The ledger makes no money: the price PnL it attributes is what its fills   *)
(* and closes paid at their own prices, its open positions valued at the      *)
(* mark, plus the losses beyond the margin that a clearance bore, up to the   *)
(* rounding of averaged entries; and the parts of the attribution are the     *)
(* whole (I9).  The fills of a side add up to its position (I3).              *)
ProfitIsWhatWasPaid ==
    LET parts == Attribution(acct)
        worth == Total([s \in Side |-> acct.pos[s].qty * ValuationMark(acct.pos[s])])
    IN  /\ parts.price = paid.cash + worth + paid.forgiven + paid.drift
        /\ parts.net = parts.price + parts.funding - parts.fees + parts.cost
        /\ \A s \in Side : acct.signed[s] = acct.pos[s].qty

(* The two sides of the books.                                                *)
BooksBalance == TradesExplainTheWallet /\ ProfitIsWhatWasPaid

(* No check leaves a position that is insolvent at the mark standing, and     *)
(* none takes one that was solvent at each price of the bar.                  *)
Endangered(s, prices) == \E i \in DOMAIN prices :
    LET p == acct.pos[s] IN Insolvent(p.qty, p.entry, Isolated(p), prices[i])
LiquidatesTheInsolvent ==
    [][pending # NoBar /\ pending' = NoBar /\ acct'.violated = "none" =>
          \A s \in Sides : IsOpen(acct.pos[s]) =>
             (Endangered(s, pending) <=> ~IsOpen(acct'.pos[s]))]_vars

(* A fill that is accepted either leaves an available balance or does not     *)
(* lower it, whichever of opening, growing, reducing and flipping it is.      *)
FillsAreFunded ==
    [][\A s \in Sides : acct'.signed[s] # acct.signed[s] /\ pending' = pending =>
          Available(acct') >= MinOf(Available(acct), 0)]_vars

(* The runtime checks the ledger makes of itself never stop a run, except I5  *)
(* where funding takes more than the wallet has.                              *)
OnlyFundingOverdraws ==
    [][acct'.violated # acct.violated =>
          acct'.violated = "I5" /\ acct'.funding < acct.funding]_vars
=============================================================================
