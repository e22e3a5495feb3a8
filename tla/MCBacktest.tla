----------------------------- MODULE MCBacktest -----------------------------
(* A backtest: its orders and the checks made of them; or its ledger, over  *)
(* a table of two tiers, whose amounts make the maintenance continuous as   *)
(* the venue's do, and Steps operations.                                    *)
EXTENDS Engine, Ledger

CONSTANT Steps    \* operations of a behaviour, liquidation checks not counted

MCBrackets == << [cap |-> 64, mmr |-> 1, cum |-> 0, maxLeverage |-> 4],
                 [cap |-> 200, mmr |-> 2, cum |-> 8, maxLeverage |-> 2] >>

VARIABLES part, steps

MCInit ==
    /\ Init /\ EngineInit /\ steps = 0
    /\ \/ part = "ledger"
       \/ part = "orders" /\ ~ hedge

Trades == part = "orders" /\ EngineNext /\ UNCHANGED <<part, steps, vars>>

Keeps ==
    /\ part = "ledger" /\ Next
    /\ IF pending # NoBar /\ pending' = NoBar THEN steps' = steps ELSE steps < Steps /\ steps' = steps + 1
    /\ UNCHANGED <<part, engine_vars>>

MCSpec == MCInit /\ [][Trades \/ Keeps]_<<part, steps, vars, engine_vars>>
=============================================================================
