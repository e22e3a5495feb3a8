------------------------------- MODULE Replay -------------------------------
(***************************************************************************)
(* How a backtest plays the lake: the loaders of engine/feed.py and        *)
(* engine/ticks.py, the merge of engine/clock.py's EventQueue, and the     *)
(* loop of engine/backtest.py, of src/perplab.                             *)
(*                                                                         *)
(* Events are ordered by instant, kind, place in their source and source.  *)
(* Bars, marks, funding and prints come as events; the book is read when   *)
(* somebody asks for it, and macro readings at the close of a bar.         *)
(***************************************************************************)
EXTENDS Integers, Sequences, FiniteSets, SequencesExt

CONSTANTS
    Bar,          \* length of a bar and of a mark sample
    Start,        \* start_ms: bars before it warm up
    Warmup,       \* bars that must have closed before the strategy may trade
    Latencies,    \* of an order on its way
    MaxOrders

\* EventKind, as spec 6.2 has it.
MARK == 0  FUNDING == 1  LIQUIDATION == 2  BOOK == 3
TRADE == 4  FILLCHECK == 5  BARCLOSE == 6  ARRIVAL == 8

VARIABLES
    lake,       \* what is replayed: bars and marks and funding and prints by symbol, book, macro
    left,       \* the events each stream has not delivered; its first is in the heap
    scheduled,  \* the events the engine pushed
    done,       \* the events dispatched, in order
    refused,    \* an OrderingViolation
    checks,     \* instants of the liquidation check and of the fill check under way
    prints,     \* prints waiting for the check
    resting,    \* orders that rest
    orders,     \* orders submitted, and when
    seen,       \* context.bars_seen
    warm,       \* the warm-up gate
    synced,     \* _book_synced
    view,       \* MarketView: top of the book and ladder
    macro,      \* readings consumed
    stopped     \* on_stop has run

vars == <<lake, left, scheduled, done, refused, checks, prints, resting, orders, seen, warm,
          synced, view, macro, stopped>>

Event(at, kind, seq, id) == [at |-> at, kind |-> kind, seq |-> seq, id |-> id]
Key(e) == <<e.at, e.kind, e.seq, e.id>>
Earlier(a, b) ==
    \E i \in 1 .. 4 : Key(a)[i] < Key(b)[i] /\ \A j \in 1 .. i - 1 : Key(a)[j] = Key(b)[j]
Never == Event(-1, -1, -1, -1)
Now == IF done = <<>> THEN Never ELSE done[Len(done)]

-----------------------------------------------------------------------------
(* The streams.  A source's place is its row's rank, of a print its id.    *)

Ranked(S, before(_, _)) == SetToSortSeq(S, before)

\* load_bars, bar_events: a bar step closes for all symbols or for none; the
\* open of a bar is its first print and the close its last, and only the tiers
\* without a tape take them for prints.
Steps(bars) == {t \in UNION {bars[s] : s \in DOMAIN bars} : \A s \in DOMAIN bars : t \in bars[s]}
BarEvents(bars, withPrints) ==
    LET n      == Cardinality(DOMAIN bars)
        places == IF withPrints THEN 2 * n + 1 ELSE 1
        order  == Ranked(Steps(bars), <)
        step(i) == LET base == (i - 1) * places
                       close == order[i]
                       print(at, k) == Event(at, TRADE, base + k, 2)
                   IN  (IF withPrints
                        THEN [k \in 1 .. 2 * n |-> print(IF k <= n THEN close - Bar + 1 ELSE close, k)]
                        ELSE <<>>)
                       \o <<Event(close, BARCLOSE, base + places, 2)>>
    IN  FlattenSeq([i \in DOMAIN order |-> step(i)])

\* mark_events, funding_events: by instant, then by symbol.
Rows(at, kind, id) ==
    LET rows  == UNION {{<<t, s>> : t \in at[s]} : s \in DOMAIN at}
        order == Ranked(rows, LAMBDA a, b : a[1] < b[1] \/ (a[1] = b[1] /\ a[2] < b[2]))
    IN  [i \in DOMAIN order |-> Event(order[i][1], kind, i, id)]

TradeEvents_BySymbol(at) ==   \* by instant, symbol and id
    LET rows  == UNION {{<<t, s, Cardinality({u \in at[s] : u <= t})>> : t \in at[s]} : s \in DOMAIN at}
        order == Ranked(rows, LAMBDA a, b : a[1] < b[1] \/ (a[1] = b[1] /\ a[2] < b[2]))
    IN  [i \in DOMAIN order |-> Event(order[i][1], TRADE, order[i][3], 10 + order[i][2])]

\* trade_events: a stream of all symbols, each print placed by its own id.
TradeEvents(at) ==
    LET rows  == UNION {{<<t, s, Cardinality({u \in at[s] : u <= t})>> : t \in at[s]} : s \in DOMAIN at}
        order == Ranked(rows, LAMBDA a, b : \/ a[1] < b[1]
                                            \/ a[1] = b[1] /\ a[3] < b[3]
                                            \/ a[1] = b[1] /\ a[3] = b[3] /\ a[2] < b[2])
    IN  [i \in DOMAIN order |-> Event(order[i][1], TRADE, order[i][3], 10 + order[i][2])]

\* LakeSource.prepare: a tape of trades, where there is one, is the only source
\* of prints.
Streams(l) ==
    <<BarEvents(l.bars, ~l.tape), Rows(l.marks, MARK, 3), Rows(l.funding, FUNDING, 1),
      IF l.tape THEN TradeEvents(l.trades) ELSE <<>>>>

InitAt(l) ==
    /\ lake = l /\ left = Streams(l)
    /\ scheduled = {} /\ done = <<>> /\ refused = FALSE
    /\ checks = [liquidation |-> -1, fill |-> -1] /\ prints = 0 /\ resting = 0
    /\ orders = <<>> /\ seen = 0 /\ warm = FALSE
    /\ synced = -1 /\ view = [top |-> 0, ladder |-> 0] 
    /\ macro = {} /\ stopped = FALSE

-----------------------------------------------------------------------------
(* The book.  Its rows are numbered as they became visible; the view holds *)
(* the number of a row, 0 for none.  A ragged row builds nothing and a     *)
(* crossed one is refused by the view.                                     *)

Row(i) == lake.book[i]
UpTo(horizon) == {i \in DOMAIN lake.book : Row(i).visible <= horizon}
Latest(S) == IF S = {} THEN 0 ELSE CHOOSE i \in S : \A j \in S : j <= i

\* MarketView.apply_top, apply_ladder: a ladder is the top, too, unless that is
\* fresher by the exchange's stamp.
Applied(v, i) ==
    IF i = 0 \/ Row(i).is = "crossed" THEN v
    ELSE IF Row(i).source = "top" THEN [v EXCEPT !.top = i]
    ELSE [top    |-> IF v.top = 0 \/ Row(v.top).stamp <= Row(i).stamp THEN i ELSE v.top,
          ladder |-> i]

\* StateStream.advance_to and _sync_market: the last row that builds, of each
\* stream, read once per horizon.
AdvanceTo(source, horizon) ==
    Latest({i \in UpTo(horizon) : Row(i).source = source /\ Row(i).is # "ragged"})
Synced(v, horizon) ==
    Applied(Applied(v, AdvanceTo("top", horizon)), AdvanceTo("ladder", horizon))

\* Of an event: rows stamped its instant are visible to it unless it precedes
\* BOOK_UPDATE.
Horizon(e) == IF e.kind >= BOOK THEN e.at ELSE e.at - 1
Read(e) ==
    IF lake.book = <<>> \/ Horizon(e) <= synced THEN UNCHANGED <<synced, view>>
    ELSE synced' = Horizon(e) /\ view' = Synced(view, Horizon(e))
MayRead(e) == Read(e) \/ UNCHANGED <<synced, view>>

-----------------------------------------------------------------------------
(* The queue and the loop.                                                 *)

Heads == {left[s][1] : s \in {k \in DOMAIN left : left[k] # <<>>}}
IsNext(e) == e \in Heads \cup scheduled /\ \A f \in Heads \cup scheduled : ~Earlier(f, e)

\* _schedule_liquidation_check, _schedule_fill_check: one for an instant.
CheckOf(check, kind, at) == IF checks[check] = at THEN {} ELSE {Event(at, kind, Len(done), 5)}
Waits(now) == now.kind = TRADE /\ lake.tape /\ resting > 0
Check(now) ==
    CASE now.kind \in {MARK, FUNDING} -> CheckOf("liquidation", LIQUIDATION, now.at)
      [] Waits(now)                   -> CheckOf("fill", FILLCHECK, now.at)
      [] OTHER                        -> {}

\* _submit, from a hook of a warm strategy: the order arrives after its latency.
Submission(now) ==
    {{}} \cup
    IF warm' /\ now.kind # MARK /\ Len(orders) < MaxOrders
    THEN {{Event(now.at + latency, ARRIVAL, Len(orders), 5)} : latency \in Latencies} ELSE {}

\* EventQueue.push refuses the present and the past.
Pushing(now) ==
    \E order \in Submission(now) :
        /\ orders' = IF order = {} THEN orders ELSE Append(orders, now.at)
        /\ scheduled' = (scheduled \ {now}) \cup order \cup Check(now)
        /\ refused' = \E e \in order \cup Check(now) : ~Earlier(now, e)

\* The handlers, and what each changes besides.
OnMark(now) ==
    /\ now.kind \in {MARK, FUNDING}
    /\ checks' = [checks EXCEPT !.liquidation = now.at]
    /\ UNCHANGED <<prints, resting, seen, warm, macro>>
OnLiquidationCheck(now) ==
    /\ now.kind = LIQUIDATION
    /\ checks' = [checks EXCEPT !.liquidation = -1]
    /\ UNCHANGED <<prints, resting, seen, warm, macro>>

\* A print of the tape waits for the check when something rests.
OnTrade(now) ==
    /\ now.kind = TRADE
    /\ prints' = IF Waits(now) THEN prints + 1 ELSE prints
    /\ checks' = IF Waits(now) THEN [checks EXCEPT !.fill = now.at] ELSE checks
    /\ UNCHANGED <<resting, seen, warm, macro>>
OnFillCheck(now) ==
    /\ now.kind = FILLCHECK
    /\ checks' = [checks EXCEPT !.fill = -1] /\ prints' = 0
    /\ resting' \in 0 .. resting
    /\ UNCHANGED <<seen, warm, macro>>

\* _consume_macro: by when a reading was received, never by its stamp.
Consumed(at) == {i \in DOMAIN lake.macro : lake.macro[i].received <= at}
OnBarClose(now) ==
    /\ now.kind = BARCLOSE
    /\ macro' = Consumed(now.at)
    /\ seen' = seen + 1
    /\ warm' = (seen' >= Warmup /\ now.at >= Start)
    /\ UNCHANGED <<checks, prints, resting>>

\* An order rests, or is filled at once.
OnArrival(now) ==
    /\ now.kind = ARRIVAL
    /\ resting' \in {resting, resting + 1}
    /\ UNCHANGED <<checks, prints, seen, warm, macro>>

Dispatch(e) ==
    /\ done' = Append(done, e)
    /\ left' = [s \in DOMAIN left |->
                    IF left[s] # <<>> /\ left[s][1] = e THEN Tail(left[s]) ELSE left[s]]
    /\ \/ OnMark(e) \/ OnLiquidationCheck(e) \/ OnTrade(e) \/ OnFillCheck(e)
       \/ OnBarClose(e) \/ OnArrival(e)
    /\ Pushing(e)
    /\ IF e.kind \in {FILLCHECK, ARRIVAL} THEN Read(e) ELSE MayRead(e)
    /\ UNCHANGED <<lake, stopped>>

\* drain: on_stop runs at the last event's instant, and what it hands in is
\* played, too.
OnStop ==
    /\ Heads \cup scheduled = {} /\ ~stopped /\ stopped' = TRUE
    /\ warm' = warm /\ Pushing(Now)
    /\ UNCHANGED <<lake, left, done, checks, prints, resting, seen, synced, view, macro>>

Next ==
    /\ ~refused
    /\ \/ \E e \in Heads \cup scheduled : IsNext(e) /\ Dispatch(e)
       \/ OnStop

-----------------------------------------------------------------------------
(* What a run relies on.                                                   *)

AllEvents == UNION {{Streams(lake)[s][i] : i \in DOMAIN Streams(lake)[s]} : s \in 1 .. 4}
Done == {done[i] : i \in DOMAIN done}
Past(e) == done # <<>> /\ ~Earlier(Now, e)

\* Everything of the lake up to now has been dispatched, once, in the order of
\* its key, and nothing else of the lake; every mark and settlement is followed
\* by one liquidation check of its instant, and no print waits past its own;
\* nothing the engine schedules is refused, and no order is older than Start.
InTurn ==
    /\ ~refused
    /\ \A i \in 2 .. Len(done) : Earlier(done[i - 1], done[i])
    /\ \A e \in AllEvents : e \in Done <=> Past(e)
    /\ \A e \in Done : e.kind \in {MARK, FUNDING} =>
          Cardinality({c \in Done \cup scheduled : c.kind = LIQUIDATION /\ c.at = e.at}) = 1
    /\ \A e \in scheduled : ~Past(e)
    /\ prints > 0 => \E e \in scheduled : e.kind = FILLCHECK /\ e.at = Now.at
    /\ \A i \in DOMAIN orders : orders[i] >= Start

\* The book as it would be had every row been dispatched as an event: of one
\* instant the quotes before the ladders.
Eager(horizon) ==
    LET order == Ranked(UpTo(horizon), LAMBDA i, j :
                    \/ Row(i).visible < Row(j).visible
                    \/ Row(i).visible = Row(j).visible
                         /\ (Row(i).source = Row(j).source => i < j)
                         /\ (Row(i).source # Row(j).source => Row(i).source = "top"))
        after[n \in 0 .. Len(order)] ==
            IF n = 0 THEN [top |-> 0, ladder |-> 0]
            ELSE IF Row(order[n]).is = "ragged" THEN after[n - 1] ELSE Applied(after[n - 1], order[n])
    IN  after[Len(order)]

\* "This is exactly equivalent to dispatching every row at BOOK_UPDATE priority,
\* not an approximation of it" (the docstring of ticks.StateStream).
LazyIsEager == view = Eager(synced)

\* It is when no row is crossed and the exchange stamps rows in the order they
\* are received in; and never has anybody seen a row of the book or a macro
\* reading that was not there before the event under way.
Plain ==
    /\ \A i \in DOMAIN lake.book : Row(i).is # "crossed"
    /\ \A i, j \in DOMAIN lake.book : i < j => Row(i).stamp < Row(j).stamp
SeesWhatHadArrived ==
    /\ Plain => LazyIsEager
    /\ done # <<>> => synced <= (IF Now.kind < BOOK THEN Now.at - 1 ELSE Now.at)
    /\ \A i \in macro : lake.macro[i].received <= Now.at
=============================================================================
