------------------------------- MODULE MCFeed -------------------------------
(* A small feed: short minutes, and a settlement in the middle of one.     *)
EXTENDS Feed

CONSTANTS s1, s2

Symbols == {s1, s2}

Session(bars, marks, settlements, trades, lead) ==
    [covers |-> [p \in Slow |-> CASE p = "klines" -> bars [] p = "markPrice" -> marks
                                  [] p = "funding" -> settlements],
     trades |-> trades, ahead |-> lead]

(* The sources meet only in the cutoff, so each session has few of them.   *)
Lineups == {Session(Symbols, {}, {}, FALSE, 0), Session({}, Symbols, {}, FALSE, 0),
            Session({s1}, {}, {}, TRUE, 1), Session({}, {s1}, {s1}, FALSE, 0)}

OneSettlement == {Session({}, {s1}, {s1}, FALSE, 0)}

StaleAfter == [p \in Slow |-> 1]
=============================================================================
