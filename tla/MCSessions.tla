----------------------------- MODULE MCSessions -----------------------------
(* Sessions of one account: two that want one symbol, two that want one    *)
(* each, or one alone; and what may happen to them in one behaviour,       *)
(* chosen at the outset, as everything at once is beyond TLC with two.     *)
EXTENDS Sessions, TLC
CONSTANTS r1, r2, btc, eth, testnet,
          Casts     \* the choices

BothWant == [r \in Run |-> {btc}]

Apart == [r \in Run |-> IF r = r1 THEN {btc} ELSE {eth}]

OneAccount == [r \in Run |-> testnet]

Sources == Run \cup {Api}

Nothing == {}

Sessions12 == Permutations({r1, r2})

Everything == {"list", "sleep", "cancel", "restart", "crash", "kill", "unarm", "halt", "trade"}

ASSUME CastsAssumption == Casts \subseteq SUBSET Everything

VARIABLE cast

May(kind) == kind \in cast

MCInit == Init /\ cast \in Casts

MCNext ==
    /\ \/ \E r \in Run :
             \/ StartGate(r) \/ StartStep(r) \/ WorkerStep(r)
             \/ Raises(r) \/ Stops(r) \/ Stop(r) \/ KillTell(r)
             \/ May("trade") /\ Trade(r)
             \/ May("halt") /\ (Halt(r) \/ InvariantFails(r))
             \/ May("crash") /\ Crash(r)
             \/ May("cancel") /\ Cancel(r)
             \/ (~ May("sleep") => Dead(r)) /\ Reap(r)
       \/ May("list") /\ \E e \in Endpoint : ListLook(e)
       \/ May("restart") /\ Restart
       \/ May("kill") /\ KillSweep
       \/ May("unarm") /\ UnarmRead
       \/ ListPrune \/ KillArm \/ UnarmClear
    /\ UNCHANGED cast

MCSpec == MCInit /\ [][MCNext]_<<vars, cast>>

MCFairSpec == MCSpec /\ Fairness

\* What one run can hold.
Casting == {{"list", "cancel", "sleep", "restart", "crash"},
            {"kill", "sleep"}, {"kill", "unarm"}, {"kill", "restart"}, {"kill", "halt"},
            {"halt", "unarm", "crash", "restart"}, {"halt", "trade"}}

AllTogether == {Everything}

HaltsAndTrades == {{"halt", "trade"}}
=============================================================================
