------------------------------- MODULE Engine -------------------------------
(***************************************************************************)
(* The order lifecycle of BacktestEngine (perplab.engine.backtest) for one *)
(* symbol held one-way: submission under the risk limits of RiskEngine     *)
(* (perplab.core.risk), a wire on which every instruction takes its own    *)
(* time, the matching of resting orders (perplab.engine.resting), the mark *)
(* that liquidates, triggers and flattens, and the halt.                   *)
(* Prices are abstract: what depends on one (a trigger, a crossing, a      *)
(* margin or filter refusal, a breached equity limit) may happen or not.   *)
(***************************************************************************)
EXTENDS Integers, FiniteSets, TLC

CONSTANTS Order,        \* the orders the strategy may submit
          Exit,         \* the orders the platform may submit
          Kind,         \* of the strategy's orders: market, limit, stop
          Reduces,      \* the values of reduce_only it uses
          MaxLots,      \* the largest size it asks for
          MaxTotal,     \* the largest size it amends to
          Limit,        \* max_position_notional, at a constant mark
          MaxOpen,      \* max_open_orders
          MaxStreak     \* max_consecutive_rejections

ASSUME EngineAssumption ==
    /\ IsFiniteSet(Order) /\ IsFiniteSet(Exit) /\ Order \cap Exit = {}
    /\ Kind \subseteq {"market", "limit", "stop"}
    /\ Reduces \subseteq BOOLEAN
    /\ MaxLots \in Nat /\ MaxTotal \in Nat /\ Limit \in Nat
    /\ MaxOpen \in Nat \ {0} /\ MaxStreak \in Nat \ {0}

VARIABLES order,        \* every order
          wire,         \* the instructions under way to the exchange
          position,     \* the ledger's signed position
          streak,       \* consecutive rejections
          breach,       \* a halt: none, pending, performed
          overdue,      \* the position is past a platform deadline
          latch,        \* _flatten_sent
          flatten       \* _flatten_orders

engine_vars == <<order, wire, position, streak, breach, overdue, latch, flatten>>

Id == Order \cup Exit

Instruction == [order : Id, action : {"submit", "cancel", "modify", "expire"}, total : Nat]

Instruct(o, action) == [order |-> o, action |-> action, total |-> 0]

Ends == {"filled", "cancelled", "expired", "rejected"}

Row == [status : {"none", "pending", "working"} \cup Ends, kind : {"market", "limit", "stop"},
        side : {1, -1}, reduce : BOOLEAN, left : Nat, done : Nat, triggered : BOOLEAN]

TypeOK ==
    /\ order \in [Id -> Row]
    /\ wire \subseteq Instruction
    /\ position \in Int
    /\ streak \in Nat /\ (breach = "none" => streak < MaxStreak)
    /\ breach \in {"none", "pending", "performed"}
    /\ overdue \in BOOLEAN /\ latch \in BOOLEAN /\ flatten \subseteq Exit

NoOrder == [status |-> "none", kind |-> "market", side |-> 1, reduce |-> FALSE,
            left |-> 0, done |-> 0, triggered |-> FALSE]

(* Of an order that has ended, how it ended.                               *)
Gone(status) == [NoOrder EXCEPT !.status = status]

EngineInit ==
    /\ order = [o \in Id |-> NoOrder] /\ wire = {} /\ position = 0
    /\ streak = 0 /\ breach = "none"
    /\ overdue = FALSE /\ latch = FALSE /\ flatten = {}

-----------------------------------------------------------------------------
(* The risk check.                                                         *)

Open(o) == order[o].status \in {"pending", "working"}

Pos(n) == IF n > 0 THEN n ELSE 0
Abs(n) == IF n < 0 THEN -n ELSE n

(* Wrong variant of Working: an order on the wire is not counted.          *)
Working_Resting(side, among) ==
    LET os == {o \in among : order[o].status = "working"
                            /\ order[o].side = side /\ ~ order[o].reduce}
    IN Cardinality(UNION {{o} \X (1 .. order[o].left) : o \in os})

(* What could still execute on a side, reduce-only orders apart.           *)
Working(side, among) ==
    LET os == {o \in among : Open(o)
                            /\ order[o].side = side /\ ~ order[o].reduce}
    IN Cardinality(UNION {{o} \X (1 .. order[o].left) : o \in os})

(* projected_exposure of these orders, with lots more on a side.           *)
Projected(among, side, lots) ==
    LET upper == position + Working(1, among) + (IF side = 1 THEN lots ELSE 0)
        lower == position - Working(-1, among) - (IF side = -1 THEN lots ELSE 0)
    IN IF Abs(upper) > Abs(lower) THEN Abs(upper) ELSE Abs(lower)

Refuses(o, side, lots, reduce) ==
    \/ breach # "none"
    \/ /\ ~ reduce
       /\ \/ Cardinality({p \in Id : Open(p) /\ p # o}) >= MaxOpen
          \/ Projected(Id \ {o}, side, lots) > Limit

-----------------------------------------------------------------------------
(* The strategy, inside a hook.                                            *)

Submit(o, kind, side, lots, reduce) ==
    /\ order[o].status = "none"
    /\ LET refused == Refuses(o, side, lots, reduce) IN
       /\ order' = [order EXCEPT ![o] =
              IF refused THEN Gone("rejected")
              ELSE [status |-> "pending", kind |-> kind, side |-> side, reduce |-> reduce,
                    left |-> lots, done |-> 0, triggered |-> FALSE]]
       /\ wire' = IF refused THEN wire ELSE wire \cup {Instruct(o, "submit")}
    /\ UNCHANGED <<position, streak, breach, overdue, latch, flatten>>

Cancel(o) ==
    /\ Open(o)
    /\ wire' = wire \cup {Instruct(o, "cancel")}
    /\ UNCHANGED <<order, position, streak, breach, overdue, latch, flatten>>

(* _modify: a shrink is not risk-checked.                                  *)
Modify(o, total) ==
    /\ Open(o) /\ order[o].kind = "limit" /\ total > order[o].done
    /\ \/ total - order[o].done <= order[o].left
       \/ ~ Refuses(o, order[o].side, total - order[o].done, order[o].reduce)
    /\ wire' = wire \cup {[order |-> o, action |-> "modify", total |-> total]}
    /\ UNCHANGED <<order, position, streak, breach, overdue, latch, flatten>>

-----------------------------------------------------------------------------
(* What an execution, a removal or a rejection does.                       *)

(* _note_position_change: a flat or flipped position has a new clock.      *)
Kept(after) == position * after > 0

(* The order executes lots and is left with status s: _book_fill, _remove  *)
(* and _reject, with _release_flatten.                                     *)
Settle(o, left, lots, s) ==
    LET after == position + order[o].side * lots IN
    /\ order' = [order EXCEPT ![o] =
           IF s \in Ends THEN Gone(s)
           ELSE [order[o] EXCEPT !.status = s, !.left = left - lots, !.done = @ + lots]]
    /\ position' = after
    /\ overdue' = (overdue /\ Kept(after))
    /\ latch' = (latch /\ Kept(after)
                       /\ ~ (o \in flatten /\ s \in Ends \ {"filled"} /\ after # 0))
    /\ flatten' = IF s \in Ends THEN flatten \ {o} ELSE flatten

(* observe_rejection, observe_trade_closed: a streak of rejections, or of  *)
(* losing trades, asks for a halt.                                         *)
Tally(o, s, accepted) ==
    /\ streak' = IF s = "rejected"
                 THEN IF o \in Exit THEN streak ELSE streak + 1
                 ELSE IF accepted THEN 0 ELSE streak
    /\ \/ breach' = IF breach = "none" /\ streak' >= MaxStreak THEN "pending" ELSE breach
       \/ Abs(position') < Abs(position) /\ breach = "none" /\ breach' = "pending"

(* _clamp: a reduce-only order finds nothing to reduce, or less.           *)
Nothing2Reduce(o) == order[o].reduce /\ position * order[o].side >= 0

Clamped(o, lots) ==
    IF order[o].reduce /\ Abs(position) < lots THEN Abs(position) ELSE lots

(* _execute_market: all there is to execute, or a refusal (no quote, a     *)
(* filter, the margin).                                                    *)
Execute(o, accepted) ==
    \/ Nothing2Reduce(o) /\ Settle(o, order[o].left, 0, "cancelled")
                         /\ Tally(o, "cancelled", accepted)
    \/ /\ ~ Nothing2Reduce(o)
       /\ LET lots == Clamped(o, order[o].left)
              s    == IF lots = order[o].left THEN "filled" ELSE "expired"
          IN \/ Settle(o, order[o].left, lots, s) /\ Tally(o, s, accepted)
             \/ Settle(o, order[o].left, 0, "rejected") /\ Tally(o, "rejected", FALSE)

(* _place_limit: refused, expired by its time in force, or executed as far *)
(* as the book allows, the remainder resting or expiring.                  *)
PlaceLimit(o, left) ==
    \/ Nothing2Reduce(o) /\ Settle(o, left, 0, "cancelled") /\ Tally(o, "cancelled", TRUE)
    \/ /\ ~ Nothing2Reduce(o)
       /\ \/ Settle(o, left, 0, "rejected") /\ Tally(o, "rejected", FALSE)
          \/ \E lots \in 0 .. Clamped(o, left) :
             \E s \in IF lots = left THEN {"filled"} ELSE {"working", "expired"} :
                Settle(o, left, lots, s) /\ Tally(o, s, TRUE)

-----------------------------------------------------------------------------
(* An instruction reaches the exchange (_on_arrival).                      *)

Dropped == UNCHANGED <<order, position, streak, breach, overdue, latch, flatten>>

ArriveCancel(o) ==
    /\ Settle(o, order[o].left, 0, "cancelled")
    /\ UNCHANGED <<streak, breach>>

(* Wrong variant of ApplyModify: the amendment may overtake the order.     *)
ApplyModify_Overtakes(o, total) ==
    IF total <= order[o].done THEN Dropped ELSE PlaceLimit(o, total - order[o].done)

ApplyModify(o, total) ==
    IF order[o].status = "pending" \/ total <= order[o].done
    THEN Dropped
    ELSE PlaceLimit(o, total - order[o].done)

ArriveExpire(o) ==
    IF order[o].status = "working" /\ (order[o].kind = "market" \/ order[o].triggered)
    THEN Settle(o, order[o].left, 0, "expired") /\ UNCHANGED <<streak, breach>>
    ELSE Dropped

(* A market order executes, or waits for the next print; a limit order is  *)
(* placed; a stop order is armed.                                          *)
ArriveSubmit(o, i) ==
    LET market == order[o].kind = "market" \/ order[o].triggered IN
    \/ market /\ Execute(o, TRUE) /\ wire' = wire \ {i}
    \/ /\ market /\ Settle(o, order[o].left, 0, "working") /\ Tally(o, "working", TRUE)
       /\ wire' = (wire \ {i}) \cup {Instruct(o, "expire")}
    \/ ~ market /\ order[o].kind = "limit" /\ PlaceLimit(o, order[o].left) /\ wire' = wire \ {i}
    \/ /\ ~ market /\ order[o].kind = "stop"
       /\ Settle(o, order[o].left, 0, "working") /\ Tally(o, "working", TRUE)
       /\ wire' = wire \ {i}

Arrive(i) ==
    /\ breach = "none" /\ i \in wire
    /\ LET o == i.order IN
       IF ~ Open(o) THEN Dropped /\ wire' = wire \ {i}
       ELSE \/ i.action = "submit" /\ ArriveSubmit(o, i)
            \/ /\ wire' = wire \ {i}
               /\ CASE i.action = "cancel" -> ArriveCancel(o)
                    [] i.action = "modify" -> ApplyModify(o, i.total)
                    [] i.action = "expire" -> ArriveExpire(o)
                    [] OTHER -> FALSE

-----------------------------------------------------------------------------
(* A print: a fill check is as many of these steps as it matches orders,   *)
(* and a halt that one of them asks for waits for the last.                *)

MakerFill(o, lots) ==
    /\ breach # "performed"
    /\ order[o].status = "working" /\ order[o].kind = "limit" /\ lots <= order[o].left
    /\ \/ /\ Nothing2Reduce(o)
          /\ Settle(o, order[o].left, 0, "cancelled") /\ Tally(o, "cancelled", FALSE)
       \/ /\ ~ Nothing2Reduce(o)
          /\ LET taken == Clamped(o, lots)
                 s     == IF taken = order[o].left THEN "filled" ELSE "working"
             IN \/ Settle(o, order[o].left, taken, s) /\ Tally(o, s, FALSE)
                \/ Settle(o, order[o].left, 0, "rejected") /\ Tally(o, "rejected", FALSE)
    /\ UNCHANGED wire

(* _service_parked_markets: the print an order without one waited for.     *)
ServiceParked(o) ==
    /\ breach # "performed"
    /\ order[o].status = "working" /\ (order[o].kind = "market" \/ order[o].triggered)
    /\ Execute(o, FALSE)
    /\ UNCHANGED wire

(* _fire_trigger, on a contract or a mark price.                           *)
Fired(o) == [order[o] EXCEPT !.status = "pending", !.triggered = TRUE]

FireTrigger(o) ==
    /\ breach # "performed"
    /\ order[o].status = "working" /\ order[o].kind = "stop" /\ ~ order[o].triggered
    /\ order' = [order EXCEPT ![o] = Fired(o)]
    /\ wire' = wire \cup {Instruct(o, "submit")}
    /\ UNCHANGED <<position, streak, breach, overdue, latch, flatten>>

-----------------------------------------------------------------------------
(* A mark (_on_liquidation_check).                                         *)

Removed == [o \in Id |-> IF Open(o) THEN Gone("cancelled") ELSE order[o]]

(* The position is liquidated, its orders cancelled at once, and the run   *)
(* halts if its limits say so.                                             *)
Liquidate ==
    /\ breach = "none" /\ position # 0
    /\ position' = 0 /\ order' = Removed
    /\ overdue' = FALSE /\ latch' = FALSE /\ flatten' = {}
    /\ breach' \in {"none", "pending"}
    /\ UNCHANGED <<wire, streak>>

(* observe_equity: the floor, the daily loss or the drawdown.              *)
EquityBreach ==
    /\ breach = "none"
    /\ breach' = "pending"
    /\ UNCHANGED <<order, wire, position, streak, overdue, latch, flatten>>

(* _check_auto_flatten: a position found past its deadline is given one    *)
(* exit, which travels like any order.                                     *)
AutoFlatten(e) ==
    /\ breach = "none" /\ position # 0 /\ ~ latch
    /\ order[e].status = "none"
    /\ overdue' = TRUE /\ latch' = TRUE /\ flatten' = flatten \cup {e}
    /\ order' = [order EXCEPT ![e] =
           [status |-> "pending", kind |-> "market", side |-> IF position > 0 THEN -1 ELSE 1,
            reduce |-> TRUE, left |-> Abs(position), done |-> 0, triggered |-> FALSE]]
    /\ wire' = wire \cup {Instruct(e, "submit")}
    /\ UNCHANGED <<position, streak, breach>>

-----------------------------------------------------------------------------
(* _perform_halt, after the event that asked for it: every order goes, and *)
(* with kill_switch.flatten the position does too, if it can be priced.    *)
PerformHalt ==
    /\ breach = "pending"
    /\ breach' = "performed"
    /\ order' = Removed /\ flatten' = {}
    /\ position' \in {position, 0}
    /\ overdue' = (overdue /\ Kept(position'))
    /\ latch' = (latch /\ Kept(position') /\ \A e \in flatten : ~ Open(e))
    /\ UNCHANGED <<wire, streak>>

EngineNext ==
    \/ \E o \in Order :
          \/ \E k \in Kind, d \in {1, -1}, n \in 1 .. MaxLots, r \in Reduces : Submit(o, k, d, n, r)
          \/ Cancel(o)
          \/ \E n \in 1 .. MaxTotal : Modify(o, n)
    \/ \E o \in Id :
          \/ \E n \in 1 .. MaxLots : MakerFill(o, n)
          \/ ServiceParked(o) \/ FireTrigger(o)
    \/ \E i \in wire : Arrive(i)
    \/ \E e \in Exit : AutoFlatten(e)
    \/ Liquidate \/ EquityBreach \/ PerformHalt

EngineSpec == EngineInit /\ [][EngineNext]_engine_vars
-----------------------------------------------------------------------------
(* An order that has ended stays as it ended: an instruction still on the  *)
(* wire finds it closed (is_open in _on_arrival).                          *)
ClosedIsFinal ==
    [][\A o \in Id : order[o].status \in Ends => order'[o] = order[o]]_engine_vars

(* "A reduce-only order cannot increase exposure" (RiskEngine.check_order, *)
(* which is why no limit refuses one): however the position has moved      *)
(* since it was sent, its execution shrinks the position and never flips   *)
(* it.                                                                     *)
ReduceOnlyReduces ==
    [][\A o \in Id : Open(o) /\ order[o].reduce /\ order'[o] # order[o] /\ position' # position
                        => Abs(position') < Abs(position) /\ position' * position >= 0]_engine_vars

(* Everything that travels or rests, executed in the worst order.          *)
CouldExecute(side) ==
    UNION {{o} \X (1 .. order[o].left) :
               o \in {o \in Id : Open(o) /\ order[o].side = side /\ ~ order[o].reduce}}

ReachWithinLimit ==
    /\ position + Cardinality(CouldExecute(1)) <= Limit
    /\ position - Cardinality(CouldExecute(-1)) >= - Limit

(* Nothing but a reduction of the position, or an amendment that grew, can *)
(* put the reachable position over the limit: a submission is checked      *)
(* against all that travels or rests (_working_exposure).                  *)
OverrunBySubmission ==
    /\ ReachWithinLimit /\ ~ ReachWithinLimit'
    /\ \E o \in Id : order[o].status = "none" /\ order'[o].status = "pending"

ChecksCountTheWire == [][~ OverrunBySubmission]_engine_vars

(* "The largest |position| reachable from here, over every order of fills" *)
(* (projected_exposure) is what a submission was checked against: the      *)
(* position stays within the limit.                                        *)
WithinLimit == Abs(position) <= Limit

(* A halted run holds no order, and takes none, though its hooks may ask.  *)
HaltedIsQuiet == breach = "performed" => \A o \in Id : ~ Open(o)

(* An order rests in the book once: nothing will place it again.  "Applying *)
(* it anyway put the order on the resting book twice" (_apply_modify).     *)
RestsOnce ==
    \A o \in Id : order[o].status = "working" => Instruct(o, "submit") \notin wire

(* A latched position has an exit on its way: otherwise its deadline is    *)
(* never retried (_release_flatten).                                       *)
LatchedHasExit == latch => \E e \in flatten : Open(e)

(* The strategy's orders are interchangeable, and so are the platform's.   *)
Alike == Permutations(Order) \cup Permutations(Exit)
=============================================================================
