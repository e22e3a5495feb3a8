-------------------------- MODULE SymbolOwnership --------------------------
(***************************************************************************)
(* What perplab.store.claims promises, with the table left out: on each    *)
(* endpoint a symbol has at most one owner, a run becomes the owner of its *)
(* whole symbol set or of none of it, and it loses the set as a whole.     *)
(***************************************************************************)
CONSTANTS Run,          \* the runs that may trade
          Symbol,       \* the symbols of the exchange
          Endpoint,     \* the exchange accounts (testnet, production)
          SymbolsOf,    \* the symbols a run asks for
          EndpointOf,   \* the endpoint a run trades on
          Nobody        \* the owner of a free symbol

VARIABLE owner          \* owner[e][s]: the run that holds s on e, or Nobody

TypeOK == owner \in [Endpoint -> [Symbol -> Run \cup {Nobody}]]

Init == owner = [e \in Endpoint |-> [s \in Symbol |-> Nobody]]

(* The owners once every run of Gone has lost what it held.                *)
Without(Gone) ==
    [e \in Endpoint |-> [s \in Symbol |->
        IF owner[e][s] \in Gone THEN Nobody ELSE owner[e][s]]]

(* Runs lose everything they own: they released it or were found stale.    *)
Lose(Gone) == owner' = Without(Gone)

(* A run is granted its whole set, the runs found stale losing theirs.     *)
Grant(r, Gone) ==
    LET e    == EndpointOf[r]
        left == Without(Gone \ {r})
    IN /\ \A s \in SymbolsOf[r] : left[e][s] \in {Nobody, r}
       /\ owner' = [left EXCEPT ![e] = [s \in Symbol |->
                        IF s \in SymbolsOf[r] THEN r ELSE left[e][s]]]

Next == \E Gone \in SUBSET Run : Lose(Gone) \/ \E r \in Run : Grant(r, Gone)

Spec == Init /\ [][Next]_owner
=============================================================================
