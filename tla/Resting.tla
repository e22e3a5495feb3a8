------------------------------ MODULE Resting ------------------------------
(***************************************************************************)
(* The resting limit orders of a replay: RestingBook of                    *)
(* src/perplab/engine/resting.py, the market view of engine/book.py and    *)
(* the order in which engine/backtest.py feeds them book rows, prints and  *)
(* arrivals within a millisecond.                                          *)
(*                                                                         *)
(* Buy orders of one symbol on a ladder of bid levels; sells mirror them.  *)
(* The venue's own queue, which the engine never sees, is kept beside its  *)
(* estimate, and so is what the tape would have owed each order there.     *)
(***************************************************************************)
EXTENDS Integers, Sequences, FiniteSets, SequencesExt

CONSTANTS
    Orders,     \* our orders
    Levels,     \* bid prices, 1 .. n
    Depths,     \* levels a published row shows: 0 is the bookTicker's touch
    MaxSize,    \* size others have at a level
    Qty,        \* quantity of an order
    MaxPrints   \* prints of one millisecond

VARIABLES
    depth,      \* of the rows this run replays
    crowd,      \* size of the others at each level, as history has it
    ahead,      \* how much of it is ahead of each order, unknown to the engine
    book,       \* MarketView: the last row received
    prints,     \* BacktestEngine._pending_trades of this millisecond
    order,      \* the orders
    resting     \* RestingBook._by_symbol: the resting orders as they arrived

vars == <<depth, crowd, ahead, book, prints, order, resting>>

NoRow   == [bids |-> <<>>, after |-> 0, grown |-> {}, misses |-> {}]
Unknown == -1
NoOrder == [level |-> 0, remaining |-> Qty, queue |-> Unknown, owed |-> 0, doubt |-> FALSE]
Filled(o) == Qty - order[o].remaining
Least(a, b) == IF a < b THEN a ELSE b
Rest(a, b)  == IF a > b THEN a - b ELSE 0

-----------------------------------------------------------------------------
(* What a row says of a level.                                             *)

Shown(row) == {l \in DOMAIN row.bids : row.bids[l] > 0}
Better(row, l) == {k \in Shown(row) : k > l}
Listed(row, n) == {l \in Shown(row) : Cardinality(Better(row, l)) < n}

RestingSize(row, n, l) ==
    LET listed == Listed(row, IF n = 0 THEN 1 ELSE n)
    IN  IF l \in listed THEN row.bids[l]
        ELSE IF n > 0 /\ \E k \in listed : l > k THEN 0 ELSE Unknown

\* RestingBook.observe_book.  doubt: the row is no bound on what is ahead, as
\* it misses others that arrived before us or has this millisecond's prints
\* already in it.
Observed(os, list, row, n, checked) ==
    [o \in Orders |->
        LET size == RestingSize(row, n, os[o].level)
            p    == os[o]
        IN  IF o \in Range(list) /\ size # Unknown /\ (p.queue = Unknown \/ size < p.queue)
            THEN [p EXCEPT !.queue = size,
                           !.doubt = @ \/ o \in row.misses \/ (checked /\ row.after > 0)]
            ELSE p]

-----------------------------------------------------------------------------
(* What a print does.                                                      *)

FillableOf(p, print, available) ==
    IF print.level < p.level THEN available
    ELSE IF p.queue = Unknown THEN 0 ELSE Rest(available, p.queue)

QueueAfter(p, print, available) ==
    IF print.level < p.level THEN 0
    ELSE IF p.queue = Unknown THEN Unknown ELSE Rest(p.queue, available)

OnOrder(acc, o, print) ==
    LET p    == acc.os[o]
        take == Least(FillableOf(p, print, acc.available), p.remaining)
    IN  IF acc.available = 0 \/ p.remaining = 0 \/ print.level > p.level THEN acc
        ELSE [available |-> acc.available - take,
              os |-> [acc.os EXCEPT ![o].remaining = @ - take,
                                    ![o].queue = QueueAfter(p, print, acc.available)]]

OnTrade(os, list, print) ==
    FoldLeft(LAMBDA acc, o : OnOrder(acc, o, print),
             [available |-> print.qty, os |-> os], list).os

OnTrades(os, list, tape) == FoldLeft(LAMBDA acc, print : OnTrade(acc, list, print), os, tape)

\* The venue fills a better price first and a price in the order of arrival; the
\* others leave its queue as they did in history.
Before(o, list) == {k \in Range(list) :
    \/ order[k].level > order[o].level
    \/ order[k].level = order[o].level
        /\ \E i, j \in DOMAIN list : i < j /\ list[i] = k /\ list[j] = o}
ByPriority(list) == SetToSortSeq(Range(list), LAMBDA a, b : a \in Before(b, list))

Owing(acc, o, print) ==
    LET p    == acc.os[o]
        mine == IF print.level < p.level THEN acc.left ELSE Rest(acc.left, ahead[o])
        take == Least(mine, Qty - p.owed)
        jumped == \E k \in Before(o, acc.list) : order[k].level > p.level
                     /\ \E i, j \in DOMAIN acc.list :
                            i < j /\ acc.list[i] = o /\ acc.list[j] = k
    IN  IF print.level > p.level THEN acc
        ELSE [acc EXCEPT !.left = @ - take,
                         !.os = [@ EXCEPT ![o].owed = @ + take, ![o].doubt = @ \/ jumped]]
Owed(print) == FoldLeft(LAMBDA acc, o : Owing(acc, o, print),
                        [left |-> print.qty, os |-> order, list |-> resting],
                        ByPriority(resting)).os

-----------------------------------------------------------------------------
Init ==
    /\ depth \in Depths
    /\ crowd \in [Levels -> 0 .. MaxSize] /\ ahead = [o \in Orders |-> 0]
    /\ book = NoRow /\ prints = <<>>
    /\ order = [o \in Orders |-> NoOrder] /\ resting = <<>>

Noted(row, l) == IF row = NoRow THEN row ELSE [row EXCEPT !.grown = @ \cup {l}]

\* The venue: others join a level, leave it from wherever they stand, or are
\* hit by a seller, best price first.
Join(l) ==
    /\ crowd[l] < MaxSize /\ crowd' = [crowd EXCEPT ![l] = @ + 1]
    /\ book' = Noted(book, l)
    /\ UNCHANGED <<depth, ahead, prints, order, resting>>

Leave(l, front) ==     \* front: the orders of ours this one stood ahead of
    LET mine == {o \in Range(resting) : order[o].level = l}
    IN  /\ crowd[l] > 0 /\ front \subseteq mine
        /\ \A o \in front : ahead[o] > 0
        /\ \A o \in mine \ front : ahead[o] < crowd[l]
        /\ \A o \in front : \A k \in mine \ front : k \in Before(o, resting)
        /\ crowd' = [crowd EXCEPT ![l] = @ - 1]
        /\ ahead' = [o \in Orders |-> IF o \in front THEN ahead[o] - 1 ELSE ahead[o]]
        /\ UNCHANGED <<depth, book, prints, order, resting>>

\* BacktestEngine._on_trade: a print is kept for the check if an order rests.
Hit(l, qty) ==
    /\ Len(prints) < MaxPrints /\ qty \in 1 .. crowd[l]
    /\ \A k \in Levels : k > l => crowd[k] = 0
    /\ crowd' = [crowd EXCEPT ![l] = @ - qty]
    /\ ahead' = [o \in Orders |->
                    IF o \in Range(resting) /\ order[o].level = l THEN Rest(ahead[o], qty)
                    ELSE ahead[o]]
    /\ prints' = IF resting = <<>> THEN prints
                 ELSE Append(prints, [level |-> l, qty |-> qty])
    /\ order' = Owed([level |-> l, qty |-> qty])
    /\ UNCHANGED <<depth, book, resting>>

\* A row of the book is taken and received; one without bids is skipped.  A
\* row that is still on its way is one the engine has not read yet: only what
\* the book shows at a check or a placement matters.  A row no newer one
\* replaces is dropped when it is stale.
Publish ==
    /\ \E l \in Levels : crowd[l] > 0
    /\ book' = [bids |-> crowd, after |-> Len(prints), grown |-> {}, misses |-> {}]
    /\ UNCHANGED <<depth, crowd, ahead, prints, order, resting>>
GoStale ==
    /\ book # NoRow /\ book' = NoRow
    /\ UNCHANGED <<depth, crowd, ahead, prints, order, resting>>

\* BacktestEngine._on_fill_check, at the end of a millisecond with prints.
FillCheck ==
    /\ prints # <<>>
    /\ \E os \in {OnTrades(Observed(order, resting, book, depth, TRUE), resting, prints)} :
        /\ order' = os
        /\ resting' = SelectSeq(resting, LAMBDA o : os[o].remaining > 0)
    /\ prints' = <<>>
    /\ book' = [book EXCEPT !.after = 0]
    /\ UNCHANGED <<depth, crowd, ahead>>

\* BacktestEngine._place_limit, when nothing crosses: after the prints of its
\* millisecond.
Missed(row, o, l) == IF l \in row.grown THEN [row EXCEPT !.misses = @ \cup {o}] ELSE row
Place(o, l) ==
    /\ order[o].level = 0 /\ prints = <<>>
    /\ resting' = Append(resting, o)
    /\ ahead' = [ahead EXCEPT ![o] = crowd[l]]
    /\ book' = Missed(book, o, l)
    /\ order' = Observed([order EXCEPT ![o].level = l], Append(resting, o), book', depth, FALSE)
    /\ UNCHANGED <<depth, crowd, prints>>

\* RestingBook.discard, for a cancel that arrives.
Discard(o) ==
    /\ o \in Range(resting) /\ prints = <<>>
    /\ resting' = SelectSeq(resting, LAMBDA k : k # o)
    /\ UNCHANGED <<depth, crowd, ahead, book, prints, order>>

Next ==
    \/ \E l \in Levels : Join(l) \/ \E front \in SUBSET Orders : Leave(l, front)
    \/ \E l \in Levels, qty \in 1 .. MaxSize : Hit(l, qty)
    \/ Publish \/ GoStale \/ FillCheck
    \/ \E o \in Orders, l \in Levels : Place(o, l)
    \/ \E o \in Orders : Discard(o)

Spec == Init /\ [][Next]_vars

-----------------------------------------------------------------------------
(* While no order is in doubt, none has more of a fill than the venue's     *)
(* queue would have given it, whatever joins, leaves, prints and rows it    *)
(* meets.  In doubt is an order whose bound came from a row that misses     *)
(* others who were there first, or that has the prints it is about to       *)
(* consume in it already, or that was served before a better price because  *)
(* it arrived first (resting.py:222, 296, backtest.py:1572).                *)
InDoubt == \E o \in Orders : order[o].doubt
NeverFillsEarly == ~InDoubt => \A o \in Orders : Filled(o) <= order[o].owed
===========================================================================
