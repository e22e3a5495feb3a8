------------------------------ MODULE MCParts ------------------------------
(* The parts with little or no state of their own, each on the small inputs *)
(* below: a part is chosen initially, and the variables of the others keep  *)
(* their values.                                                            *)
EXTENDS KillSwitchStore, Library, Integers, TLC

VARIABLES part, case,
          lake, left, scheduled, done, refused, checks, prints, resting, orders,
          seen, warm, synced, view, macro, stopped,                              \* Replay
          depth, crowd, ahead, book, pending, order, queue,                      \* Resting
          peak, day, dayOpen, last, window, losses, rejections, halt, told,      \* Risk
          session, next, batch, waiting, ran, kept, buffer, lines, torn, forced,
          meta, oldMeta, cut                                                     \* Tape

CONSTANTS MaxSubmitted,  \* orders of a replay
          OurOrders,     \* of the resting book
          MarketSteps,   \* of the market they rest in
          MaxTold,       \* events the limits are told of
          LastMinute     \* that has a row to read

\* What a session's feed releases.
Released(at, kind, seq, is, recv) ==
    [event |-> [at |-> at, kind |-> kind, seq |-> seq, id |-> "s", is |-> is, stamp |-> at, data |-> seq],
     recv |-> recv]
Recorded == <<Released(1, 1, 1, "FundingPoint", 2), Released(1, 3, 2, "DepthSnapshot", 3),
              Released(1, 3, 3, "TopOfBook", 3), Released(2, 6, 1, "BarStep", 2)>>

E == INSTANCE Replay WITH Bar <- 2, Start <- 3, Warmup <- 1, Latencies <- {0, 1}, MaxOrders <- MaxSubmitted
B == INSTANCE Resting WITH prints <- pending, resting <- queue, Orders <- OurOrders,
         Levels <- {1, 2}, Depths <- {0, 2}, MaxSize <- 2, Qty <- 2, MaxPrints <- 1
R == INSTANCE Risk WITH Start <- 10, MaxNotional <- 2, MaxLeverage <- 1, MaxOpen <- 2,
         MaxRate <- 2, Minute <- 3, Staleness <- 1, MinEquity <- 5, MaxLoss <- 2,
         DrawdownNum <- 3, DrawdownDen <- 10, DayLength <- 4, MaxLosses <- 2,
         MaxRejections <- 2, MaxDown <- 1, MaxBlind <- 2, Tolerance <- 0, HaltOnLiquidation <- TRUE
T == INSTANCE Tape WITH Ahead <- Recorded, queue <- waiting, synced <- forced
F == INSTANCE Fills WITH Tick <- 2, RateDen <- 4
G == INSTANCE Gaps WITH Step <- 2, Day <- 4, Hour <- 3, Threshold <- 2, Spacing <- 2,
                        Month <- 2, Budget <- 4, Everybody <- "all"
Q == INSTANCE Query WITH Day <- 2, Month <- 2, Year <- 2, Week <- 4
I == INSTANCE Indicators WITH Period <- 2, Fast <- 1, Slow <- 3, Signal <- 3, Session <- 3
W == INSTANCE WalkForward WITH Opening <- 2
M == INSTANCE Gaps WITH Step <- 2, Day <- 2, Hour <- 3, Threshold <- 2, Spacing <- 2,
                        Month <- 2, Budget <- 4, Everybody <- "all"
C == INSTANCE Comparison WITH Step <- 1, Tick <- 2, Epsilon <- 1, LiquidationPart <- 200,
         NoId <- "", MatchWindow <- 1, DeviationLimit <- 3, Allowed <- 20, Bps <- 10000

tape   == <<session, next, batch, waiting, ran, kept, buffer, lines, torn, forced, meta, oldMeta, cut>>
replay == <<lake, left, scheduled, done, refused, checks, prints, resting, orders,
            seen, warm, synced, view, macro, stopped>>
atRest == <<depth, crowd, ahead, book, pending, order, queue>>
limits == <<peak, day, dayOpen, last, window, losses, rejections, halt, told>>

-----------------------------------------------------------------------------
(* Replay: bars, marks, settlements and prints of two symbols, or a book,   *)
(* or macro readings.                                                       *)

Both(S) == [1 .. 2 -> S]
Lake(b, m, f, t, bk, mc) ==
    [bars |-> b, marks |-> m, funding |-> f, trades |-> t, tape |-> \E s \in DOMAIN t : t[s] # {}, book |-> bk, macro |-> mc]
Books(n, is, top) ==
    {b \in [1 .. n -> [source : {"top", "ladder"}, visible : 0 .. top, stamp : 0 .. 2, is : is]] :
        /\ \A i \in 1 .. n : b[i].stamp <= b[i].visible
        /\ \A i \in 1 .. n - 1 : b[i].visible <= b[i + 1].visible}
Lakes ==
    {Lake(b, m, f, <<{}, {}>>, <<>>, <<>>) :
        b \in Both({{1, 3}, {3}}), m \in Both({{1, 3}, {1}}), f \in Both({{}, {1}})}
    \cup {Lake(<<{1, 3}>>, <<{1}>>, <<{}>>, t, <<>>, <<>>) : t \in Both({{2}, {1, 2}, {2, 3}})}
    \cup {Lake(<<{1, 3}>>, <<{1, 3}>>, <<{}>>, <<{1, 2}>>, bk, <<>>) :
             bk \in Books(2, {"sane", "crossed", "ragged"}, 2) \cup Books(3, {"sane"}, 2)}
    \cup {Lake(<<{1, 3}>>, <<{1}>>, <<{}>>, <<{}, {}>>, <<>>, mc) :
             mc \in {<<>>} \cup {<<[received |-> r, stamp |-> t]>> : r \in 0 .. 3, t \in 0 .. 1}}
NoLake == Lake(<<{}>>, <<{}>>, <<{}>>, <<{}>>, <<>>, <<>>)

-----------------------------------------------------------------------------
(* Resting: so many steps of a market and our orders, none in doubt.        *)

MarketStep == B!Next /\ ~B!InDoubt /\ case > 0 /\ case' = case - 1

-----------------------------------------------------------------------------
(* Risk: equity samples over two midnights, counters, orders in a minute,   *)
(* the exposure of books and the equity of hedged legs.                     *)

Samples ==
    \E at \in {3, 4, 8}, e \in {7, 8, 10}, high \in {0, 11} : R!ObserveEquity(at, e, R!Larger(e, high))
OfOne(os, p) == [position |-> [s |-> p], orders |-> os, equity |-> 10,
                     quote |-> [s |-> [mark |-> 1, print |-> 0, age |-> 0, entry |-> 1]]]
Buy(reduce, qty) == [symbol |-> "s", leg |-> "BOTH", side |-> "BUY", qty |-> qty, reduce |-> reduce]
Placed(reduce, qty, at) ==
    R!CheckOrder(OfOne(<<Buy(reduce, qty)>>, [BOTH |-> 0]), Buy(reduce, qty), at)
Counts == LET at == Len(told) IN
    \/ \E pnl \in -1 .. 1 : R!ObserveTradeClosed(at, pnl)
    \/ R!ObserveRejection(at) \/ R!ObserveAcceptance(at) \/ R!ObserveLiquidation(at)
    \/ \E down \in 1 .. 2, open \in 0 .. 1 : R!ObserveDisconnect(at, down, open)
    \/ \E drift \in 0 .. 1 : R!ObserveReconciliation(at, 0, drift)
    \/ \E blind \in 1 .. 2 : R!ObserveVerificationOutage(at, blind)
    \/ R!ObserveInvariantFailure(at)
    \/ Placed(FALSE, 1, at)
Minutes ==
    \E d \in 0 .. 2, reduce \in BOOLEAN, qty \in {1, 3} :
        Placed(reduce, qty, (IF told = <<>> THEN 0 ELSE told[Len(told)].at) + d)

Legs(hedge) == IF hedge THEN {"LONG", "SHORT"} ELSE {"BOTH"}
Positions(hedge) ==
    IF hedge THEN {[LONG |-> l, SHORT |-> -s] : l \in 0 .. 2, s \in 0 .. 1} ELSE [{"BOTH"} -> -2 .. 2]
Exposures ==
    UNION {{OfOne(o, p) : p \in Positions(hedge),
                          o \in UNION {[1 .. n -> [symbol : {"s"}, leg : Legs(hedge), side : {"BUY", "SELL"},
                                                   qty : 1 .. 2, reduce : BOOLEAN]] : n \in 0 .. 2}}
           : hedge \in BOOLEAN}
Bands ==
    [legs : UNION {[1 .. n -> [symbol : {"s", "t"}, qty : {-2, 1}, entry : {2}]] : n \in 1 .. 2},
     r : {[s |-> [low |-> a, high |-> b], t |-> [low |-> c, high |-> 2]] : a \in 1 .. 2, b \in 2 .. 3, c \in 1 .. 2}]

-----------------------------------------------------------------------------
(* Fills, gaps and reads.                                                   *)

Px == {4, 6, 8}
Monotone(s, up) == \A i \in 1 .. Len(s) - 1 : IF up THEN s[i].price < s[i + 1].price ELSE s[i].price > s[i + 1].price
Fars(up) == {F!NoBook} \cup {s \in UNION {[1 .. n -> [price : Px, size : 0 .. 2]] : n \in 1 .. 3} : Monotone(s, up)}
Crossings ==
    UNION {{x \in [far : Fars(up), qty : 1 .. 3, limit : Px, tif : {"GTC", "IOC", "FOK", "GTX"},
                   pen : {0, 1}, clamped : 1 .. 3, up : {up}] :
               x.clamped <= x.qty /\ (x.tif = "FOK" \/ x.clamped = x.qty)} : up \in BOOLEAN}
Trails == [best : {0, 4, 6}, rate : 1 .. 2, path : [1 .. 3 -> Px], up : BOOLEAN]

Clocks == {s \in UNION {[1 .. n -> {0, 1, 4, 6, 8, 10, 12}] : n \in 1 .. 3} : \A i \in 1 .. Len(s) - 1 : s[i] < s[i + 1]}
Gappy ==
    {[of |-> "bars", x |-> x, start |-> a, end |-> b] : x \in SUBSET {0, 2, 4, 6, 8, 10}, a \in 0 .. 3, b \in {4, 7, 8, 11, 12}}
    \cup UNION {{[of |-> "ticks", x |-> x, y |-> y, start |-> a, end |-> b] : y \in SUBSET x, a \in 0 .. 1, b \in 6 .. 7}
                : x \in SUBSET (0 .. 6)}
    \cup UNION {{[of |-> "funding", x |-> x, every |-> every, lost |-> lost, start |-> a, end |-> b] :
                    every \in [DOMAIN x -> {2, 4}], lost \in SUBSET ({x[i] : i \in DOMAIN x} \ {x[1]}), a \in {3, 5}, b \in {9, 12}}
                : x \in Clocks}
    \cup {[of |-> "metrics", x |-> x, start |-> a, end |-> b] : x \in SUBSET {0, 1, 3, 4, 5, 7, 8, 11}, a \in 0 .. 2, b \in {10, 12}}

\* Some minutes, one of them in two files.
Minutely(S, twice) ==
    {[at |-> t, price |-> 1 + ((t * 2) % 3), volume |-> 1 + (t % 2), file |-> 1] : t \in S}
    \cup {[at |-> t, price |-> 1, volume |-> 1, file |-> 2] : t \in S \cap twice}
Reads ==
    {[rows |-> Minutely(S, twice), tf |-> tf, start |-> a, end |-> b] :
        S \in SUBSET (2 .. LastMinute), twice \in {{}, {4}}, tf \in {1, 2, 4}, a \in 1 .. 3, b \in {4, 5, 8, 9}}

Held(k, d, a, b) == [klines |-> k, depth20 |-> d, aggTrades |-> a, bookTicker |-> b]
OnDays(S) == [s |-> S, t |-> 0 .. 3]
Ticks == {OnDays(0 .. 3), OnDays({0, 2}), [s |-> 0 .. 3, t |-> 1 .. 2]}
Hole(dataset, symbol, start, end, explained) ==
    [dataset |-> dataset, symbol |-> symbol, start |-> start, end |-> end, explained |-> explained]
Holes == {Hole(ds, sy, x[1], x[2], FALSE) : ds \in {"depth20", "aggTrades"}, sy \in {"s", "t", "all"},
                                            x \in {<<0, 2>>, <<1, 3>>, <<5, 6>>}}
         \cup {Hole("depth20", "s", 0, 6, TRUE)}
Manifests ==
    {[days |-> Held(OnDays(k), d, a, b), gaps |-> g, symbols |-> {"s", "t"}] :
        k \in SUBSET (0 .. 3), d \in Ticks, a \in Ticks, b \in Ticks, g \in {{}, {Hole("depth20", "all", 0, 8, FALSE)}}}
    \cup {[days |-> Held(OnDays(0 .. 3), d, OnDays(0 .. 3), OnDays(0 .. 3)), gaps |-> {g, h}, symbols |-> sy] :
             d \in {OnDays(0 .. 3), OnDays({})}, g \in Holes, h \in Holes, sy \in {{"s"}, {"s", "t"}}}

-----------------------------------------------------------------------------
(* Indicators and walk-forward.                                             *)

Unit == 6 * 96   \* what the averages of six bars divide
Candle(high, low, close, volume) ==
    [high |-> high * Unit, low |-> low * Unit, close |-> close * Unit, volume |-> volume]
Candles == {Candle(2, 1, 1, 1), Candle(2, 1, 2, 0), Candle(3, 1, 2, 2), Candle(3, 3, 3, 1)}
Histories == UNION {[1 .. n -> Candles] : n \in 0 .. 5} \cup [1 .. 6 -> Candles \ {Candle(3, 3, 3, 1)}]
Prints == {q \in UNION {[1 .. n -> [id : 1 .. 3, maker : BOOLEAN, qty : 1 .. 2]] : n \in 0 .. 4} :
              \A i, j \in DOMAIN q : q[i].id = q[j].id => q[i] = q[j]}

Splits == {s \in [end : 2 .. 9, is : 1 .. 3, oos : 1 .. 3, step : 1 .. 4, mode : {"rolling", "anchored"}] :
              s.oos <= s.step /\ s.is + s.oos <= s.end}
Grids == UNION {[1 .. n -> 1 .. 3] : n \in 0 .. 3}
Graded == UNION {[axes : {axes}, sharpe : [0 .. W!Size(axes) - 1 -> {<<>>, <<0>>, <<1>>, <<3>>}]]
                  : axes \in {<<3>>, <<4>>, <<2, 2>>, <<3, 2>>}}
Sample(t, e) == [at |-> t, equity |-> e]
Curves == {<<>>} \cup {<<Sample(t, e)>> : t \in {0, 3}, e \in 0 .. 2}
          \cup {<<Sample(t, e), Sample(u, f)>> : t \in {1, 2}, u \in 3 .. 5, e \in 1 .. 2, f \in 0 .. 2}
Folds == W!BuildFolds([start |-> 0, end |-> 6], 2, 2, 2, "rolling")

-----------------------------------------------------------------------------
(* Comparison: our legs and the venue's, which are off by a step, a tick or   *)
(* half of one, or missing, and may be of another mode.                       *)

Leg(side, qty, entry, liquidation) ==
    [side |-> side, qty |-> qty, entry |-> IF qty = 0 THEN 0 ELSE entry, liquidation |-> IF qty = 0 THEN 0 ELSE liquidation]
OurLegs(hedge) ==
    IF hedge THEN {[LONG |-> Leg("LONG", l, 10, 400), SHORT |-> Leg("SHORT", s, 14, k)] : l \in 0 .. 2, s \in {-2, 0}, k \in {0, 500}}
    ELSE {[BOTH |-> Leg("BOTH", q, 10, k)] : q \in -1 .. 2, k \in {0, 400}}
Theirs(side) ==
    {Leg(side, x[1], x[2], x[3]) : x \in {0, 2} \X {10, 11, 12} \X {0, 402, 404} \cup {1, -1, -2} \X {10, 14} \X {400, 500}}
VenueLegs ==
    {<<>>} \cup {<<a>> : a \in Theirs("BOTH")} \cup {<<a>> : a \in Theirs("SHORT")}
    \cup {<<a, b>> : a \in Theirs("SHORT"), b \in Theirs("LONG")}
Passes ==
    UNION {{[sides |-> IF hedge THEN {"LONG", "SHORT"} ELSE {"BOTH"}, legs |-> legs, mark |-> mark] :
               legs \in OurLegs(hedge), mark \in {0, 9}} : hedge \in BOOLEAN}

-----------------------------------------------------------------------------
(* Parity: two orders' increments and fills without an id.                  *)

Fill(id, tag, symbol, buys, qty, price) ==
    [id |-> id, order |-> [symbol |-> symbol, tag |-> tag], buys |-> buys, qty |-> qty, price |-> price * 10000]
FillKinds == {Fill("a", "x", "s", TRUE, 1, 1), Fill("a", "x", "s", TRUE, 1, 2), Fill("b", "y", "s", FALSE, 1, 1),
              Fill("", "x", "s", TRUE, 1, 1), Fill("", "y", "s", TRUE, 1, 2), Fill("", "z", "t", TRUE, 1, 1)}
FillLogs ==
    {[n \in DOMAIN l |-> l[n].f @@ [seq |-> n, at |-> l[n].at]] :
        l \in {l \in UNION {[1 .. n -> [f : FillKinds, at : {0, 1, 3}]] : n \in 0 .. 3} :
                 \A n \in 1 .. Len(l) - 1 : l[n].at <= l[n + 1].at}}
Shadows ==
    {[later |-> [x |-> a, y |-> b, z |-> 0], never |-> lost, worse |-> d[1], delta |-> d[2], realized |-> d[3]] :
        a \in 0 .. 1, b \in 0 .. 1, lost \in {{}, {"x"}},
        d \in {<<-3, 1, <<>>>>, <<0, -1, <<10, -10>>>>, <<4, 2, <<10, -20>>>>}}

-----------------------------------------------------------------------------
(* Which part is under way, and with what.                                  *)

Idle ==
    /\ depth = 0 /\ crowd = [l \in {1, 2} |-> 0] /\ ahead = [o \in OurOrders |-> 0] /\ book = B!NoRow
    /\ pending = <<>> /\ order = [o \in OurOrders |-> B!NoOrder] /\ queue = <<>>
Stateless ==
    \/ part \in {"trips", "tape", "library", "samples", "counts", "minutes"} /\ case = <<>>
    \/ part = "exposure" /\ case \in Exposures
    \/ part = "band" /\ case \in Bands
    \/ part = "crossing" /\ case \in Crossings
    \/ part = "trail" /\ case \in Trails
    \/ part = "gaps" /\ case \in Gappy
    \/ part = "reads" /\ case \in Reads
    \/ part = "indicators" /\ case \in Histories
    \/ part = "prints" /\ case \in Prints
    \/ part = "folds" /\ case \in Splits
    \/ part = "grid" /\ case \in Grids
    \/ part = "choice" /\ case \in Graded
    \/ part = "stitch" /\ case \in [DOMAIN Folds -> Curves]
    \/ part = "manifest" /\ case \in Manifests
    \/ part = "parity" /\ case \in FillLogs
    \/ part = "comparison" /\ case \in Passes
MCInit ==
    /\ Init /\ R!Init /\ T!Init /\ LibraryInit
    /\ \/ part = "replay" /\ case = <<>> /\ Idle /\ \E l \in Lakes : E!InitAt(l)
       \/ part = "resting" /\ case = MarketSteps /\ B!Init /\ E!InitAt(NoLake)
       \/ Stateless /\ Idle /\ E!InitAt(NoLake)

Trips   == part = "trips" /\ Next /\ UNCHANGED <<part, case, replay, atRest, limits, tape, library_vars>>
\* With a book to read, no order is placed: what the view holds is the question.
Replays == /\ part = "replay" /\ E!Next /\ (lake.book # <<>> => orders' = <<>>)
           /\ UNCHANGED <<part, case, vars, atRest, limits, tape, library_vars>>
Rests   == part = "resting" /\ MarketStep /\ UNCHANGED <<part, vars, replay, limits, tape, library_vars>>
Limits  == /\ Len(told) < MaxTold
           /\ \/ part = "samples" /\ Samples
              \/ part = "counts" /\ Counts
              \/ part = "minutes" /\ Minutes
           /\ UNCHANGED <<part, case, vars, replay, atRest, tape, library_vars>>
Tapes   == part = "tape" /\ T!Next /\ UNCHANGED <<part, case, vars, replay, atRest, limits, library_vars>>
Keeps   == part = "library" /\ LibraryNext /\ UNCHANGED <<part, case, vars, replay, atRest, limits, tape>>
MCNext  == Trips \/ Replays \/ Rests \/ Limits \/ Tapes \/ Keeps
MCSpec  == MCInit /\ [][MCNext]_<<part, case, vars, replay, atRest, limits, tape, library_vars>>
Exchangeable == Permutations(OurOrders) \cup Permutations(Editor)

-----------------------------------------------------------------------------
(* The properties of the parts, each of its own inputs.                     *)

\* Events are dispatched once each, in the order of their keys, however they are
\* split over streams and scheduled; what the view of the book holds is what had
\* arrived, and no reading is used before it was received; and what a shadow
\* replays from a tape is what the session recorded and dispatched.
ReplaysTrue == E!InTurn /\ E!SeesWhatHadArrived /\ T!SealedIsWhole
\* Every halt and every refusal is owed to a limit that what was told breaks, and
\* every such break halts or refuses; projected exposure is never under what the
\* working orders can come to, and the sampled band of equity never narrower than
\* what the legs can be worth.
\* No resting order has more of a fill than the venue's queue would have given
\* it; a fill's price is one the book has, its limit kept and its tick rounded
\* against it; a fill-or-kill fills or kills; prints out of order are never
\* better for a trailing stop than in order.
TradesAreHonest ==
    /\ R!VerdictsAreOwed
    /\ part = "exposure" => R!ExposureIsBounded(case)
    /\ part = "band" => R!BandIsTrue(10, case.legs, case.r)
    /\ B!NeverFillsEarly
    /\ part = "crossing" =>
          /\ F!PricesAreHonest(case.far, case.qty, case.limit, case.up, case.pen)
          /\ F!PromiseKept(case.far, case.tif, case.qty, case.clamped, case.limit, case.up)
    /\ part = "trail" => F!UnorderedIsWorst(case.best, case.rate, case.path, case.up)
\* What the gap report says is missing is missing, all of it and however the
\* range is cut into windows; and a minute that is in the lake is in one bar of
\* what is read, once, and one that is not is named; and the fill model that a
\* manifest derives is the best that the days and what is missing support.
LakeIsReadRight ==
    /\ part = "gaps" =>
           CASE case.of = "bars"    -> G!BarGapsAreExact(case.x, case.start, case.end)
             [] case.of = "ticks"   -> G!SilenceIsLoss(case.x, case.y, case.start, case.end)
             [] case.of = "funding" -> G!SettlementsAreCounted(case.x, case.every, case.lost, case.start, case.end)
             [] case.of = "metrics" -> G!WindowsDoNotMatter(case.x, case.start, case.end)
    /\ part = "manifest" => \A start \in {0, 3}, end \in {4, 5, 8} :
                               M!TierIsSupported(case.gaps, case.days, case.symbols, start, end)
    /\ part = "reads" => Q!ReadsAreTrue(case.rows, case.tf, case.start, case.end)
\* A reading is what the window, the blend or the total it is named for comes
\* to, and a print that is delivered again changes none; no instant out of sample
\* was seen in sample or counted twice, the point that is chosen is the grid's
\* first best, and the stitched curve is the product of the folds' returns; and
\* a session's fills are compared with their own in the shadow, or with none; and
\* a pass of the reconciler halts on what is wrong at the venue and on no drift
\* of the marks.
FiguresAreTrue ==
    /\ part = "indicators" => I!IndicatorsAreTrue(case)
    /\ part = "prints" => I!PrintsCountOnce(case)
    /\ part = "folds" => W!FoldsAreHonest([start |-> 0, end |-> case.end], case.is, case.oos, case.step, case.mode)
    /\ part = "grid" => W!GridIsTrue(case)
    /\ part = "choice" => W!ChoiceIsSound(case.axes, case.sharpe)
    /\ part = "stitch" => W!StitchIsHonest(Folds, case)
    /\ part = "comparison" =>
          \A v \in VenueLegs, wallet \in 21 .. 22, mark \in {30}, labelled \in BOOLEAN :
              (labelled \/ \A n \in DOMAIN v : v[n].side = "BOTH") =>
                  C!ComparisonIsTrue([wallet |-> 20, mark |-> case.mark, legs |-> case.legs], case.sides,
                                     wallet, v, mark, labelled)
    /\ part = "parity" => \A h \in Shadows :
                             C!DivergenceIsTrue(case, h.later, h.worse, h.never, h.delta, h.realized)
=============================================================================
