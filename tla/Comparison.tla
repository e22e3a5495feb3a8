----------------------------- MODULE Comparison -----------------------------
(***************************************************************************)
(* What a live session is compared with: the account at the venue, by every *)
(* pass of perplab.live.reconcile, and the backtest re-run over its window,  *)
(* by perplab.analytics.parity.                                              *)
(***************************************************************************)
EXTENDS Integers, Sequences, FiniteSets
LOCAL INSTANCE SequencesExt
LOCAL INSTANCE FiniteSetsExt

CONSTANTS Step, Tick,      \* twice their halves is the tolerance of a size, a price
          Epsilon,         \* WALLET_EPSILON
          LiquidationPart, \* one over LIQUIDATION_TOLERANCE_FRACTION
          NoId,
          MatchWindow,     \* FILL_MATCH_WINDOW_MS
          DeviationLimit,  \* FILL_DEVIATION_BPS_LIMIT
          Allowed,         \* one over PNL_DIVERGENCE_FRACTION
          Bps              \* _BPS

Abs(x) == IF x < 0 THEN -x ELSE x

-----------------------------------------------------------------------------
(* The pass: what it makes of the account and the rows of positionRisk it    *)
(* fetched, for one symbol whose filters are known.  A ledger has its wallet,*)
(* its mark (0 before the first) and one leg for each of its sides; a row    *)
(* names its side, or none.  The ledger's own unrealised profit is its       *)
(* definition's; its liquidation price is given, 0 if there is none.         *)

Unlabelled == ""
Refused == <<>>
Bigger(x, y) == IF x > y THEN x ELSE y

Fields == <<"wallet_balance", "position_size", "entry_price", "unrealized_pnl", "liquidation_price">>
IndexOf(field) == CHOOSE n \in DOMAIN Fields : Fields[n] = field

\* A difference of exactly the tolerance, of which "twice" is the double, passes.
Check(field, side, ours, theirs, twice) ==
    [field |-> field, side |-> side, matched |-> 2 * Abs(ours - theirs) <= twice]

-----------------------------------------------------------------------------
(* The row of a leg, and whether the rows are of this run's position mode.   *)

RowSide(row, expected) == IF row.side = Unlabelled THEN expected ELSE row.side
\* Mutant: the symbol's first row will do.
RowsOf_First(side, rows) == IF rows = <<>> THEN <<>> ELSE <<rows[1]>>
RowsOf(side, rows) == SelectSeq(rows, LAMBDA row : RowSide(row, side) = side)
ModeMatches(rows, sides) == {RowSide(rows[n], "BOTH") : n \in DOMAIN rows} \subseteq sides

-----------------------------------------------------------------------------
(* The quantities of a leg that both have something to say of.               *)

\* Mutant: the marks are taken to be the same.
CompareUnrealized_OneMark(side, ledger, leg, row) ==
    IF ledger.mark = 0 THEN <<>>
    ELSE <<Check("unrealized_pnl", side, leg.qty * (ledger.mark - leg.entry), row.pnl,
                 Abs(leg.qty) * Tick + 2 * Epsilon)>>
CompareUnrealized(side, ledger, leg, row) ==
    IF ledger.mark = 0 THEN <<>>
    ELSE <<Check("unrealized_pnl", side, leg.qty * (ledger.mark - leg.entry), row.pnl,
                 2 * Abs(leg.qty) * Abs(ledger.mark - row.mark) + Abs(leg.qty) * Tick + 2 * Epsilon)>>
CompareLiquidation(side, leg, row) ==
    IF leg.liquidation = 0 \/ row.liquidation = 0 THEN <<>>
    ELSE <<Check("liquidation_price", side, leg.liquidation, row.liquidation,
                 Bigger((2 * row.liquidation) \div LiquidationPart, Tick))>>

CompareSide(side, ledger, row) ==
    LET leg == ledger.legs[side] IN
    <<Check("position_size", side, leg.qty, row.qty, Step)>>
    \o IF leg.qty = 0 /\ row.qty = 0 THEN <<>>
       ELSE <<Check("entry_price", side, leg.entry, row.entry, Tick)>>
            \o CompareUnrealized(side, ledger, leg, row) \o CompareLiquidation(side, leg, row)

\* Rows of another mode, or two of one leg, are not compared at all; a leg
\* without a row is left out of the pass.
Readable(sides, rows) == ModeMatches(rows, sides) /\ \A s \in sides : Len(RowsOf(s, rows)) <= 1
CompareSymbol(ledger, sides, rows) ==
    LET compared(s) == IF RowsOf(s, rows) = <<>> THEN <<>> ELSE CompareSide(s, ledger, RowsOf(s, rows)[1])
    IN  FoldLeft(LAMBDA done, s : done \o compared(s), <<>>, SetToSeq(sides))
Compare(ledger, sides, wallet, rows) ==
    IF ~Readable(sides, rows) THEN Refused
    ELSE SortSeq(<<Check("wallet_balance", Unlabelled, ledger.wallet, wallet, 2 * Epsilon)>>
                 \o CompareSymbol(ledger, sides, rows),
                 LAMBDA a, b : IndexOf(a.field) < IndexOf(b.field))

\* What a session halts on: the first of the mismatches.
Mismatches(checks) == SelectSeq(checks, LAMBDA c : ~c.matched)
HaltedOn(checks) == IF Mismatches(checks) = <<>> THEN <<>> ELSE <<Mismatches(checks)[1]>>

-----------------------------------------------------------------------------
(* A venue with these legs and this mark of its own; only an account in      *)
(* one-way mode may leave the sides out.                                     *)
Told(legs, mark, labelled) ==
    [n \in DOMAIN legs |->
        [side |-> IF labelled THEN legs[n].side ELSE Unlabelled, qty |-> legs[n].qty, entry |-> legs[n].entry,
         mark |-> mark, pnl |-> legs[n].qty * (mark - legs[n].entry), liquidation |-> legs[n].liquidation]]

(* A venue that has the session's sizes and, but for rounding, its entry and  *)
(* liquidation prices never halts it, however far apart the marks are; one    *)
(* that has a leg's size wrong by a step or its entry by a tick is refused or *)
(* halts it, unless it has no row of that leg; what is blamed is the wallet   *)
(* or a size before anything that follows from them; and a venue in another   *)
(* mode is refused.                                                           *)
ComparisonIsTrue(ledger, sides, wallet, legs, mark, labelled) ==
    LET checks == Compare(ledger, sides, wallet, Told(legs, mark, labelled))
        known == {n \in DOMAIN legs : legs[n].side \in sides}
        off(n) == Abs(legs[n].qty - ledger.legs[legs[n].side].qty) >= Step
        astray(n) == legs[n].qty # 0 /\ Abs(legs[n].entry - ledger.legs[legs[n].side].entry) >= Tick
        near(n) ==
            /\ legs[n].qty = ledger.legs[legs[n].side].qty
            /\ legs[n].qty # 0 =>
                  /\ 2 * Abs(legs[n].entry - ledger.legs[legs[n].side].entry) <= Tick
                  /\ LET a == legs[n].liquidation b == ledger.legs[legs[n].side].liquidation
                     IN  a = 0 \/ b = 0 \/ LiquidationPart * Abs(a - b) <= a
        mistaken == IF labelled THEN known # DOMAIN legs ELSE legs # <<>> /\ sides # {"BOTH"}
    IN  /\ mistaken => checks = Refused
        /\ (~mistaken /\ Abs(wallet - ledger.wallet) <= Epsilon /\ \A n \in known : near(n))
              => HaltedOn(checks) = <<>>
        /\ (checks # Refused /\ \E n \in known : off(n) \/ astray(n)) => HaltedOn(checks) # <<>>
        /\ (checks # Refused /\ \E n \in known : off(n)) =>
              HaltedOn(checks)[1].field \in {"wallet_balance", "position_size"}

-----------------------------------------------------------------------------
(* Parity: a session's fills against those of the backtest.  A log's fills   *)
(* have a place (seq) in it, the id of their order or NoId, what the order    *)
(* was (its symbol, side and tag), whether it buys, a quantity, a price and   *)
(* an instant that never goes back; profits are whole amounts.  Refusals of   *)
(* malformed artefacts and the wording of the reasons are left out.           *)

Fills(log) == {log[i] : i \in DOMAIN log}
Named(log) == {f \in Fills(log) : f.id # NoId}
Unnamed(log) == SelectSeq(log, LAMBDA f : f.id = NoId)

(* The engine's own name for a fill: its order, and which of that order's   *)
(* increments it is in its own log.                                         *)
FillNo(log, f) == Cardinality({g \in Fills(log) : g.id = f.id /\ g.seq < f.seq})
\* Mutant: any fill of the order is that increment.
SameFills_AnyIncrement(paper, shadow) ==
    {p \in Named(paper) \X Named(shadow) :
        p[1].id = p[2].id /\ p[1].order = p[2].order /\ p[1].buys = p[2].buys}
SameFills(paper, shadow) ==
    {p \in Named(paper) \X Named(shadow) :
        /\ p[1].id = p[2].id /\ FillNo(paper, p[1]) = FillNo(shadow, p[2])
        /\ p[1].order = p[2].order /\ p[1].buys = p[2].buys}

(* The fills without an id: a pass over both logs, whose low end only ever  *)
(* advances, finds who could be whose, and a pair is taken when neither has *)
(* another candidate.                                                       *)
Lowest(paper, shadow) ==
    LET low[n \in 0 .. Len(paper)] ==
            IF n = 0 THEN 1
            ELSE Min({m \in low[n - 1] .. Len(shadow) + 1 :
                         m <= Len(shadow) => shadow[m].at >= paper[n].at - MatchWindow})
    IN  low
Alike(f, g) == f.order.symbol = g.order.symbol /\ f.buys = g.buys /\ f.qty = g.qty
Candidates(paper, shadow) ==
    LET low == Lowest(paper, shadow)
        InReach(n, m) == m >= low[n] /\ shadow[m].at <= paper[n].at + MatchWindow
    IN  {<<paper[c[1]], shadow[c[2]]>> :
            c \in {c \in (DOMAIN paper) \X (DOMAIN shadow) :
                      InReach(c[1], c[2]) /\ Alike(paper[c[1]], shadow[c[2]])}}
MatchUnnamed(paper, shadow) ==
    LET all == Candidates(paper, shadow)
    IN  {c \in all : \A d \in all : (d[1] = c[1] \/ d[2] = c[2]) => d = c}

-----------------------------------------------------------------------------
(* The report: what matched, what did not, by how much the prices differ,   *)
(* signed against the trader, and whether the two runs diverged.            *)

Deviation(p) ==
    LET apart == ((p[2].price - p[1].price) * Bps) \div p[1].price
    IN  IF p[1].buys THEN apart ELSE -apart
CompareFills(paper, shadow) ==
    LET matched == SameFills(paper, shadow) \cup MatchUnnamed(Unnamed(paper), Unnamed(shadow))
        sum == FoldSet(LAMBDA p, total : total + Deviation(p), 0, matched)
    IN  [matched |-> matched, sum |-> sum,
         paperOnly |-> Fills(paper) \ {p[1] : p \in matched},
         shadowOnly |-> Fills(shadow) \ {p[2] : p \in matched}]

GrossPnl(realized) == FoldSeq(LAMBDA r, total : total + Abs(r), 0, realized)

\* Strictly more than the limits; with nothing realised, any difference.
Verdict(delta, gross, report) ==
    {r \in {"pnl", "fills"} :
        \/ r = "pnl" /\ gross > 0 /\ Abs(delta) * Allowed > gross
        \/ r = "pnl" /\ gross = 0 /\ delta # 0
        \/ r = "fills" /\ report.matched # {}
                       /\ Abs(report.sum) > DeviationLimit * Cardinality(report.matched)}

BuildParity(paper, shadow) ==
    LET fills == CompareFills(paper.log, shadow.log) IN
    [fills |-> fills,
     reasons |-> Verdict(shadow.net - paper.net, GrossPnl(paper.realized), fills)]

-----------------------------------------------------------------------------
(* A shadow that filled the paper session's orders again, each order later   *)
(* by what "later" says and worse by "worse", and never some of them.        *)
Seen(f, later) == f.at + later[f.order.tag]
Again(log, later, worse, never) ==
    LET filled == {f \in Fills(log) : f.order.tag \notin never}
        first(f, g) == \/ Seen(f, later) < Seen(g, later)
                       \/ Seen(f, later) = Seen(g, later) /\ f.seq < g.seq
        moved(f) == LET by == (worse * f.price) \div Bps IN
                    [f EXCEPT !.price = IF f.buys THEN @ + by ELSE @ - by, !.at = Seen(f, later)]
        inTurn == SetToSortSeq(filled, first)
    IN  [n \in DOMAIN inTurn |-> moved(inTurn[n])]

(* Against such a shadow no fill is dropped or used twice, whatever is paired *)
(* is paired with itself and measured at the amount it was moved by, only a   *)
(* fill that its order lost or that cannot be told from another stays         *)
(* unmatched, and the two diverge exactly when the shadow moved by more than  *)
(* the limit, or its profit did.                                              *)
DivergenceIsTrue(log, later, worse, never, delta, realized) ==
    LET shadow == Again(log, later, worse, never)
        report == BuildParity([log |-> log, net |-> 0, realized |-> realized], [log |-> shadow, net |-> delta])
        matched == report.fills.matched
        alone(f) == ~\E g \in Fills(log) \ {f} :
                       /\ g.id = NoId /\ Alike(f, g) /\ Abs(f.at - g.at) <= 2 * MatchWindow
    IN  /\ Cardinality(matched) + Cardinality(report.fills.paperOnly) = Len(log)
        /\ Cardinality(matched) + Cardinality(report.fills.shadowOnly) = Len(shadow)
        /\ \A p \in matched : p[1].seq = p[2].seq /\ Deviation(p) = worse
        /\ \A f \in report.fills.paperOnly :
              f.order.tag \in never \/ (f.id = NoId /\ ~alone(f))
        /\ ("fills" \in report.reasons) = (matched # {} /\ Abs(worse) > DeviationLimit)
        /\ ("pnl" \in report.reasons) = (Allowed * Abs(delta) > GrossPnl(realized))
=============================================================================
