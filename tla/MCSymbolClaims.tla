--------------------------- MODULE MCSymbolClaims ---------------------------
(* Two callers of the table.  Three runs share an account, and the second  *)
(* wants what the other two hold, so that its claim can meet a stale and a *)
(* running holder at once; the fourth wants both symbols on another        *)
(* account.  The callers are alike, and so are the symbols if the runs     *)
(* that want one each change places with them.                             *)
EXTENDS SymbolClaims, TLC
CONSTANTS r1, r2, r3, r4, btc, eth, testnet, production, c1, c2

MCSymbolsOf ==
    r1 :> {btc} @@ r2 :> {btc, eth} @@ r3 :> {eth} @@ r4 :> {btc, eth}

MCEndpointOf == [r \in Run |-> IF r = r4 THEN production ELSE testnet]

Straight == btc :> btc @@ eth :> eth @@ r1 :> r1 @@ r3 :> r3
Crossed  == btc :> eth @@ eth :> btc @@ r1 :> r3 @@ r3 :> r1

Alike == {f @@ g : f \in Permutations({c1, c2}), g \in {Straight, Crossed}}
=============================================================================
