----------------------------- MODULE ClaimTable -----------------------------
(***************************************************************************)
(* The operations of the symbol_claims table of perplab.store.claims, as   *)
(* functions of its open rows.  A row is open while its released_ms is     *)
(* null; nothing reads a released row, so the table is the set of open     *)
(* symbols of each run.  Leverage, margin mode and timestamps decide       *)
(* nothing and are left out.                                               *)
(***************************************************************************)
CONSTANTS Run,          \* the sessions that may trade
          Symbol,       \* the symbols of the exchange
          Endpoint,     \* the exchange accounts (testnet, production)
          SymbolsOf,    \* the symbols a run asks for
          EndpointOf    \* the account a run trades on

ASSUME ConfigAssumption ==
    /\ SymbolsOf \in [Run -> (SUBSET Symbol) \ {{}}]
    /\ EndpointOf \in [Run -> Endpoint]

(* The open rows of endpoint e whose run the caller did not see running.   *)
Stale(rows, e, live) ==
    [r \in Run |-> IF EndpointOf[r] = e /\ r \notin live THEN rows[r] ELSE {}]

(* What the UPDATE of _open_locked leaves open.                            *)
Pruned(rows, stale) == [r \in Run |-> rows[r] \ stale[r]]

(* Wrong variant of Conflicts: the symbol lists are compared as a whole.   *)
Conflicts_SameList(rows, r) ==
    {q \in Run \ {r} : EndpointOf[q] = EndpointOf[r] /\ rows[q] = SymbolsOf[r]}

(* The runs whose open rows stand in the way of run r.                     *)
Conflicts(rows, r) ==
    {q \in Run \ {r} : /\ EndpointOf[q] = EndpointOf[r]
                       /\ rows[q] \cap SymbolsOf[r] # {}}

(* Wrong variant of Upsert: the loop over the symbols stops after one.     *)
Upsert_First(rows, r) ==
    [rows EXCEPT ![r] = @ \cup {CHOOSE s \in SymbolsOf[r] : TRUE}]

(* The upsert of every wanted symbol.                                      *)
Upsert(rows, r) == [rows EXCEPT ![r] = @ \cup SymbolsOf[r]]
=============================================================================
