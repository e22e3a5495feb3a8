---------------------------- MODULE Tables_proofs ----------------------------
(***************************************************************************)
(* Proofs about the tables that processes share: the claims table, for any *)
(* number of runs, symbols, endpoints and concurrent callers; the rows of  *)
(* background work with their leases and lock, for any number of jobs,     *)
(* refreshes and validations, any resource settings and number of folds;   *)
(* and the library's, for any number of strategies, versions and runs.     *)
(***************************************************************************)
EXTENDS SymbolClaims, Jobs, Library, FiniteSetTheorems, NaturalsInduction,
        WellFoundedInduction, TLAPS

-----------------------------------------------------------------------------
(* The claims table.                                                       *)

(* Whatever rows a caller found stale, they are rows of the table.         *)
LEMMA StaleType ==
    ASSUME NEW rows \in [Run -> SUBSET Symbol], NEW e, NEW live
    PROVE  Stale(rows, e, live) \in [Run -> SUBSET Symbol]
BY DEF Stale

LEMMA PrunedType ==
    ASSUME NEW rows \in [Run -> SUBSET Symbol], NEW gone \in [Run -> SUBSET Symbol]
    PROVE  /\ Pruned(rows, gone) \in [Run -> SUBSET Symbol]
           /\ \A r \in Run : Pruned(rows, gone)[r] \subseteq rows[r]
BY DEF Pruned

(* An upsert adds exactly the run's own symbol set to its own rows.        *)
LEMMA UpsertType ==
    ASSUME NEW rows \in [Run -> SUBSET Symbol], NEW r \in Run
    PROVE  /\ Upsert(rows, r) \in [Run -> SUBSET Symbol]
           /\ Upsert(rows, r)[r] = rows[r] \cup SymbolsOf[r]
           /\ \A q \in Run \ {r} : Upsert(rows, r)[q] = rows[q]
BY ConfigAssumption DEF Upsert

(* What a request under way carries is told by its op.                     *)
LEMMA RequestFields ==
    ASSUME ClaimsTypeOK, NEW c \in Client
    PROVE  /\ request[c].op = "claim" =>
                  request[c].run \in Run /\ request[c].live \subseteq Run
           /\ request[c].op = "list" => request[c].endpoint \in Endpoint
           /\ request[c].op = "prune" => request[c].stale \in [Run -> SUBSET Symbol]
<1>1. request[c] \in Idle \cup Claiming \cup Listing \cup Pruning
  BY DEF ClaimsTypeOK
<1>2. CASE request[c] \in Idle
  BY <1>2 DEF Idle
<1>3. CASE request[c] \in Claiming
  BY <1>3 DEF Claiming
<1>4. CASE request[c] \in Listing
  BY <1>4 DEF Listing
<1>5. CASE request[c] \in Pruning
  BY <1>5 DEF Pruning
<1> QED  BY <1>1, <1>2, <1>3, <1>4, <1>5

LEMMA IdleRequest == [op |-> "idle"] \in Idle
BY DEF Idle

-----------------------------------------------------------------------------
(* The table and its callers keep their types (SymbolClaims).              *)
THEOREM ClaimsTypeCorrect == ClaimsSpec => []ClaimsTypeOK
<1>1. ClaimsInit => ClaimsTypeOK
  BY IdleRequest DEF ClaimsInit, ClaimsTypeOK
<1>2. ClaimsTypeOK /\ [ClaimsNext]_claims_vars => ClaimsTypeOK'
  <2> SUFFICES ASSUME ClaimsTypeOK, [ClaimsNext]_claims_vars PROVE ClaimsTypeOK'
    OBVIOUS
  <2> USE DEF ClaimsTypeOK
  <2>1. ASSUME NEW r \in Run, RunStarts(r) \/ RunEnds(r) PROVE ClaimsTypeOK'
    BY <2>1 DEF RunStarts, RunEnds
  <2>2. ASSUME NEW r \in Run, Release(r) PROVE ClaimsTypeOK'
    BY <2>2 DEF Release
  <2>3. ASSUME NEW c \in Client, NEW r \in Run, BeginClaim(c, r) PROVE ClaimsTypeOK'
    <3>1. [op |-> "claim", run |-> r, live |-> active] \in Claiming
      BY DEF Claiming
    <3> QED
      BY <2>3, <3>1 DEF BeginClaim
  <2>4. ASSUME NEW c \in Client, NEW e \in Endpoint, BeginList(c, e) PROVE ClaimsTypeOK'
    <3>1. [op |-> "list", endpoint |-> e, live |-> active] \in Listing
      BY DEF Listing
    <3> QED
      BY <2>4, <3>1 DEF BeginList
  <2>5. ASSUME NEW c \in Client, Claim(c) PROVE ClaimsTypeOK'
    <3> DEFINE r    == request[c].run
               kept == Pruned(open, Stale(open, EndpointOf[r], request[c].live))
    <3>1. r \in Run
      BY <2>5, RequestFields DEF Claim
    <3>2. kept \in [Run -> SUBSET Symbol]
      BY StaleType, PrunedType
    <3>3. Upsert(kept, r) \in [Run -> SUBSET Symbol]
      <4> HIDE DEF kept, r
      <4> QED  BY <3>1, <3>2, UpsertType
    <3>4. open' = open \/ open' = Upsert(kept, r)
      BY <2>5 DEF Claim
    <3>5. open' \in [Run -> SUBSET Symbol]
      BY <3>3, <3>4
    <3> QED
      BY <2>5, <3>5, IdleRequest DEF Claim
  <2>6. ASSUME NEW c \in Client, SelectOpen(c) PROVE ClaimsTypeOK'
    <3> DEFINE gone == Stale(open, request[c].endpoint, request[c].live)
    <3>1. gone \in [Run -> SUBSET Symbol]
      BY StaleType
    <3>2. [op |-> "prune", stale |-> gone] \in Pruning
      BY <3>1 DEF Pruning
    <3> QED
      BY <2>6, <3>2 DEF SelectOpen
  <2>7. ASSUME NEW c \in Client, PruneStale(c) PROVE ClaimsTypeOK'
    <3>1. request[c].stale \in [Run -> SUBSET Symbol]
      BY <2>7, RequestFields DEF PruneStale
    <3>2. open' \in [Run -> SUBSET Symbol]
      BY <2>7, <3>1, PrunedType DEF PruneStale
    <3> QED
      BY <2>7, <3>2, IdleRequest DEF PruneStale
  <2>8. CASE UNCHANGED claims_vars
    BY <2>8 DEF claims_vars
  <2> QED
    BY <2>1, <2>2, <2>3, <2>4, <2>5, <2>6, <2>7, <2>8 DEF ClaimsNext
<1> QED
  BY <1>1, <1>2, PTL DEF ClaimsSpec

-----------------------------------------------------------------------------
(* OneOwner needs no strengthening beyond types: a grant excludes every    *)
(* other holder inside its own transaction, and nothing else adds a row.   *)
THEOREM OneOwnerHolds == ClaimsSpec => []OneOwner
<1>1. ClaimsInit => OneOwner
  BY DEF ClaimsInit, OneOwner
<1>2. ClaimsTypeOK /\ OneOwner /\ [ClaimsNext]_claims_vars => OneOwner'
  <2> SUFFICES ASSUME ClaimsTypeOK, OneOwner, [ClaimsNext]_claims_vars PROVE OneOwner'
    OBVIOUS
  <2> USE DEF ClaimsTypeOK
  <2>1. ASSUME UNCHANGED open PROVE OneOwner'
    BY <2>1 DEF OneOwner
  <2>2. ASSUME \A r \in Run : open'[r] \subseteq open[r] PROVE OneOwner'
    BY <2>2 DEF OneOwner
  <2>3. ASSUME NEW c \in Client, Claim(c) PROVE OneOwner'
    <3> DEFINE r    == request[c].run
               kept == Pruned(open, Stale(open, EndpointOf[r], request[c].live))
    <3>1. r \in Run
      BY <2>3, RequestFields DEF Claim
    <3>2. /\ kept \in [Run -> SUBSET Symbol]
          /\ \A q \in Run : kept[q] \subseteq open[q]
      BY StaleType, PrunedType
    <3>3. CASE UNCHANGED open
      BY <3>3, <2>1
    <3>4. CASE Conflicts(kept, r) = {} /\ open' = Upsert(kept, r)
      <4> HIDE DEF kept, r
      <4>1. /\ open'[r] = kept[r] \cup SymbolsOf[r]
            /\ \A q \in Run \ {r} : open'[q] = kept[q]
        BY <3>1, <3>2, <3>4, UpsertType
      <4>2. \A q \in Run \ {r} : EndpointOf[q] = EndpointOf[r] =>
                kept[q] \cap SymbolsOf[r] = {}
        BY <3>4 DEF Conflicts
      <4>3. \A q \in Run \ {r} : EndpointOf[q] = EndpointOf[r] =>
                open'[q] \cap open'[r] = {}
        BY <3>1, <3>2, <4>1, <4>2 DEF OneOwner
      <4> QED
        BY <3>1, <3>2, <4>1, <4>3 DEF OneOwner
    <3> QED
      BY <2>3, <3>3, <3>4 DEF Claim
  <2>4. ASSUME NEW r \in Run, Release(r) PROVE OneOwner'
    BY <2>4, <2>2 DEF Release
  <2>5. ASSUME NEW c \in Client, PruneStale(c) PROVE OneOwner'
    <3>1. request[c].stale \in [Run -> SUBSET Symbol]
      BY <2>5, RequestFields DEF PruneStale
    <3> QED
      BY <2>5, <2>2, <3>1, PrunedType DEF PruneStale
  <2> QED
    BY <2>1, <2>3, <2>4, <2>5
    DEF ClaimsNext, claims_vars, RunStarts, RunEnds, BeginClaim, BeginList, SelectOpen
<1> QED
  BY <1>1, <1>2, ClaimsTypeCorrect, PTL DEF ClaimsSpec

-----------------------------------------------------------------------------
(* A run holds its whole set or nothing.  The inductive invariant adds     *)
(* that the stale rows a listing is about to release are whole sets too.   *)
Whole(rows) == \A r \in Run : rows[r] \in {{}, SymbolsOf[r]}

(* Taking whole sets out of a table of whole sets leaves whole sets.       *)
LEMMA WholeKept ==
    ASSUME NEW rows \in [Run -> SUBSET Symbol], NEW gone \in [Run -> SUBSET Symbol],
           Whole(rows), Whole(gone)
    PROVE  Whole(Pruned(rows, gone))
BY DEF Whole, Pruned

LEMMA WholeStaleRows ==
    ASSUME NEW rows \in [Run -> SUBSET Symbol], Whole(rows), NEW e, NEW live
    PROVE  Whole(Stale(rows, e, live))
BY DEF Whole, Stale

THEOREM AllOrNothingHolds == ClaimsSpec => [](AllOrNothing /\ WholeStale)
<1>1. ClaimsInit => AllOrNothing /\ WholeStale
  <2> SUFFICES ASSUME ClaimsInit PROVE AllOrNothing /\ WholeStale
    OBVIOUS
  <2>1. AllOrNothing
    BY DEF ClaimsInit, AllOrNothing
  <2>2. WholeStale
    BY DEF ClaimsInit, WholeStale
  <2> QED  BY <2>1, <2>2
<1>2. ClaimsTypeOK /\ AllOrNothing /\ WholeStale /\ [ClaimsNext]_claims_vars => (AllOrNothing /\ WholeStale)'
  <2> SUFFICES ASSUME ClaimsTypeOK, AllOrNothing, WholeStale, [ClaimsNext]_claims_vars
               PROVE  (AllOrNothing /\ WholeStale)'
    OBVIOUS
  <2> USE DEF ClaimsTypeOK
  <2>0. Whole(open)
    BY DEF AllOrNothing, Whole
  <2>1. ASSUME NEW r \in Run, RunStarts(r) \/ RunEnds(r) PROVE (AllOrNothing /\ WholeStale)'
    BY <2>1 DEF RunStarts, RunEnds, AllOrNothing, WholeStale
  <2>2. ASSUME NEW r \in Run, Release(r) PROVE (AllOrNothing /\ WholeStale)'
    BY <2>2 DEF Release, AllOrNothing, WholeStale
  <2>3. ASSUME NEW c \in Client, Claim(c) PROVE (AllOrNothing /\ WholeStale)'
    <3> DEFINE r     == request[c].run
               gone  == Stale(open, EndpointOf[r], request[c].live)
               kept  == Pruned(open, gone)
    <3>1. r \in Run
      BY <2>3, RequestFields DEF Claim
    <3>2. kept \in [Run -> SUBSET Symbol] /\ Whole(kept)
      BY <2>0, StaleType, PrunedType, WholeStaleRows, WholeKept
    <3>3. ASSUME open' = Upsert(kept, r) PROVE AllOrNothing'
      <4> HIDE DEF kept, r
      <4>1. /\ open'[r] = kept[r] \cup SymbolsOf[r]
            /\ \A q \in Run \ {r} : open'[q] = kept[q]
        BY <3>1, <3>2, <3>3, UpsertType
      <4>2. \A q \in Run : kept[q] = {} \/ kept[q] = SymbolsOf[q]
        BY <3>2 DEF Whole
      <4>3. open'[r] = SymbolsOf[r]
        BY <3>1, <4>1, <4>2
      <4> QED  BY <4>1, <4>2, <4>3 DEF AllOrNothing
    <3>4. AllOrNothing'
      BY <2>3, <3>3 DEF Claim, AllOrNothing
    <3>5. WholeStale'
      BY <2>3 DEF Claim, WholeStale
    <3> QED  BY <3>4, <3>5
  <2>4. ASSUME NEW c \in Client, NEW r \in Run, BeginClaim(c, r)
        PROVE (AllOrNothing /\ WholeStale)'
    BY <2>4 DEF BeginClaim, AllOrNothing, WholeStale
  <2>5. ASSUME NEW c \in Client, NEW e \in Endpoint, BeginList(c, e)
        PROVE (AllOrNothing /\ WholeStale)'
    BY <2>5 DEF BeginList, AllOrNothing, WholeStale
  <2>6. ASSUME NEW c \in Client, SelectOpen(c) PROVE (AllOrNothing /\ WholeStale)'
    <3> DEFINE gone == Stale(open, request[c].endpoint, request[c].live)
    <3>1. Whole(gone)
      BY <2>0, WholeStaleRows
    <3>2. AllOrNothing'
      BY <2>6 DEF SelectOpen, AllOrNothing
    <3> HIDE DEF gone
    <3>3. /\ request'[c].stale = gone
          /\ \A d \in Client \ {c} : request'[d] = request[d]
      BY <2>6 DEF SelectOpen, gone
    <3>4. WholeStale'
      BY <3>1, <3>3 DEF WholeStale, Whole
    <3> QED  BY <3>2, <3>4
  <2>7. ASSUME NEW c \in Client, PruneStale(c) PROVE (AllOrNothing /\ WholeStale)'
    <3>1. request[c].stale \in [Run -> SUBSET Symbol] /\ Whole(request[c].stale)
      BY <2>7, RequestFields DEF PruneStale, WholeStale, Whole
    <3>2. AllOrNothing'
      BY <2>0, <2>7, <3>1, WholeKept DEF PruneStale, AllOrNothing, Whole
    <3>3. WholeStale'
      BY <2>7 DEF PruneStale, WholeStale
    <3> QED  BY <3>2, <3>3
  <2>8. CASE UNCHANGED claims_vars
    BY <2>8 DEF claims_vars, AllOrNothing, WholeStale
  <2> QED
    BY <2>1, <2>2, <2>3, <2>4, <2>5, <2>6, <2>7, <2>8 DEF ClaimsNext
<1> QED
  BY <1>1, <1>2, ClaimsTypeCorrect, PTL DEF ClaimsSpec

-----------------------------------------------------------------------------
(* The refinement.  Under one-owner the mapping's CHOOSE has one candidate *)
(* only, so the owner of a symbol is simply whoever has it open.           *)
Exclusive(rows) ==
    \A q, r \in Run : q # r /\ EndpointOf[q] = EndpointOf[r] => rows[q] \cap rows[r] = {}

LEMMA OwnerIsHolder ==
    ASSUME NEW rows \in [Run -> SUBSET Symbol], Exclusive(rows),
           NEW e \in Endpoint, NEW s \in Symbol
    PROVE  /\ OwnerIn(rows)[e][s] \in Run \cup {Nobody}
           /\ \A r \in Run : OwnerIn(rows)[e][s] = r <=> Holds(rows, r, e, s)
<1>1. CASE \E r \in Run : Holds(rows, r, e, s)
  <2>1. PICK h \in Run : Holds(rows, h, e, s)
    BY <1>1
  <2>2. \A r \in Run : Holds(rows, r, e, s) => r = h
    BY <2>1 DEF Exclusive, Holds
  <2>3. (CHOOSE r \in Run : Holds(rows, r, e, s)) = h
    BY <2>1, <2>2
  <2>4. OwnerIn(rows)[e][s] = h
    BY <1>1, <2>3 DEF OwnerIn
  <2> QED  BY <2>1, <2>2, <2>4
<1>2. CASE ~ \E r \in Run : Holds(rows, r, e, s)
  <2>1. OwnerIn(rows)[e][s] = Nobody
    BY <1>2 DEF OwnerIn
  <2> QED  BY <1>2, <2>1, NobodyAssumption
<1> QED  BY <1>1, <1>2

(* Dropping the whole sets of the runs of Gone is the abstract loss.       *)
LEMMA LossMaps ==
    ASSUME NEW old \in [Run -> SUBSET Symbol], NEW new \in [Run -> SUBSET Symbol],
           Exclusive(old), NEW Gone \in SUBSET Run,
           \A r \in Run : new[r] = IF r \in Gone THEN {} ELSE old[r]
    PROVE  /\ Exclusive(new)
           /\ OwnerIn(new) = [e \in Endpoint |-> [s \in Symbol |->
                  IF OwnerIn(old)[e][s] \in Gone THEN Nobody ELSE OwnerIn(old)[e][s]]]
<1>1. Exclusive(new)
  BY DEF Exclusive
<1>2. ASSUME NEW e \in Endpoint, NEW s \in Symbol
      PROVE  OwnerIn(new)[e][s] =
                 IF OwnerIn(old)[e][s] \in Gone THEN Nobody ELSE OwnerIn(old)[e][s]
  <2>1. /\ OwnerIn(new)[e][s] \in Run \cup {Nobody}
        /\ \A r \in Run : OwnerIn(new)[e][s] = r <=> Holds(new, r, e, s)
    BY <1>1, OwnerIsHolder
  <2>2. /\ OwnerIn(old)[e][s] \in Run \cup {Nobody}
        /\ \A r \in Run : OwnerIn(old)[e][s] = r <=> Holds(old, r, e, s)
    BY OwnerIsHolder
  <2>3. \A r \in Run : Holds(new, r, e, s) <=> r \notin Gone /\ Holds(old, r, e, s)
    BY DEF Holds
  <2> QED  BY <2>1, <2>2, <2>3, NobodyAssumption
<1>3. OwnerIn(new) = [e \in Endpoint |-> [s \in Symbol |-> OwnerIn(new)[e][s]]]
  BY DEF OwnerIn
<1> QED  BY <1>1, <1>2, <1>3

(* A grant on top of the loss is the abstract grant.                       *)
Granted(owners, g) ==
    [owners EXCEPT ![EndpointOf[g]] = [s \in Symbol |->
        IF s \in SymbolsOf[g] THEN g ELSE owners[EndpointOf[g]][s]]]

GrantStep(kept, new, g) ==
    /\ kept \in [Run -> SUBSET Symbol]
    /\ new \in [Run -> SUBSET Symbol]
    /\ Exclusive(kept)
    /\ Conflicts(kept, g) = {}
    /\ kept[g] \subseteq SymbolsOf[g]
    /\ new[g] = SymbolsOf[g]
    /\ \A q \in Run \ {g} : new[q] = kept[q]

LEMMA GrantMaps ==
    ASSUME NEW kept, NEW new, NEW g \in Run, GrantStep(kept, new, g)
    PROVE  /\ \A s \in SymbolsOf[g] : OwnerIn(kept)[EndpointOf[g]][s] \in {Nobody, g}
           /\ OwnerIn(new) = Granted(OwnerIn(kept), g)
<1> USE DEF GrantStep
<1>0. SymbolsOf[g] \subseteq Symbol /\ EndpointOf[g] \in Endpoint
  BY ConfigAssumption
<1>1. \A q \in Run \ {g} : EndpointOf[q] = EndpointOf[g] => kept[q] \cap SymbolsOf[g] = {}
  BY DEF Conflicts
<1>2. Exclusive(new)
  BY <1>0, <1>1 DEF Exclusive
<1>3. ASSUME NEW s \in SymbolsOf[g]
      PROVE  OwnerIn(kept)[EndpointOf[g]][s] \in {Nobody, g}
  <2>1. /\ OwnerIn(kept)[EndpointOf[g]][s] \in Run \cup {Nobody}
        /\ \A r \in Run : OwnerIn(kept)[EndpointOf[g]][s] = r
                               <=> Holds(kept, r, EndpointOf[g], s)
    BY <1>0, OwnerIsHolder
  <2>2. \A r \in Run \ {g} : ~ Holds(kept, r, EndpointOf[g], s)
    BY <1>1 DEF Holds
  <2> QED  BY <2>1, <2>2
<1>4. ASSUME NEW e \in Endpoint, NEW s \in Symbol
      PROVE  OwnerIn(new)[e][s] = IF e = EndpointOf[g] /\ s \in SymbolsOf[g] THEN g
                                  ELSE OwnerIn(kept)[e][s]
  <2>1. /\ OwnerIn(new)[e][s] \in Run \cup {Nobody}
        /\ \A r \in Run : OwnerIn(new)[e][s] = r <=> Holds(new, r, e, s)
    BY <1>2, OwnerIsHolder
  <2>2. /\ OwnerIn(kept)[e][s] \in Run \cup {Nobody}
        /\ \A r \in Run : OwnerIn(kept)[e][s] = r <=> Holds(kept, r, e, s)
    BY OwnerIsHolder
  <2>3. CASE e = EndpointOf[g] /\ s \in SymbolsOf[g]
    BY <2>1, <2>3 DEF Holds
  <2>4. CASE ~ (e = EndpointOf[g] /\ s \in SymbolsOf[g])
    <3>1. \A r \in Run : Holds(new, r, e, s) <=> Holds(kept, r, e, s)
      BY <2>4 DEF Holds
    <3> QED  BY <2>1, <2>2, <2>4, <3>1
  <2> QED  BY <2>3, <2>4
<1>5. /\ OwnerIn(new) = [e \in Endpoint |-> [s \in Symbol |-> OwnerIn(new)[e][s]]]
      /\ OwnerIn(kept) = [e \in Endpoint |-> [s \in Symbol |-> OwnerIn(kept)[e][s]]]
  BY DEF OwnerIn
<1>6. OwnerIn(new) = Granted(OwnerIn(kept), g)
  <2> DEFINE granted == [s \in Symbol |-> IF s \in SymbolsOf[g] THEN g
                                          ELSE OwnerIn(kept)[EndpointOf[g]][s]]
             old == OwnerIn(kept)
             nxt == OwnerIn(new)
  <2>1. nxt[EndpointOf[g]] = [s \in Symbol |-> nxt[EndpointOf[g]][s]]
    BY <1>0, <1>5
  <2>2. nxt[EndpointOf[g]] = granted
    BY <1>0, <1>4, <2>1
  <2>3. ASSUME NEW e \in Endpoint, e # EndpointOf[g] PROVE nxt[e] = old[e]
    <3>1. \A s \in Symbol : nxt[e][s] = old[e][s]
      BY <1>4, <2>3
    <3>2. /\ nxt[e] = [s \in Symbol |-> nxt[e][s]]
          /\ old[e] = [s \in Symbol |-> old[e][s]]
      BY <1>5
    <3> HIDE DEF nxt, old
    <3> QED  BY <3>1, <3>2
  <2>4. DOMAIN nxt = Endpoint /\ DOMAIN old = Endpoint /\ nxt = [e \in Endpoint |-> nxt[e]]
    BY DEF OwnerIn
  <2> HIDE DEF nxt, old, granted
  <2>5. nxt = [old EXCEPT ![EndpointOf[g]] = granted]
    BY <1>0, <2>2, <2>3, <2>4
  <2> QED  BY <2>5 DEF nxt, old, granted, Granted
<1> QED  BY <1>3, <1>6

(* The table with its concurrent callers implements the abstract ownership *)
(* (perplab.store.claims, module docstring).                               *)
THEOREM Refinement == ClaimsSpec => ImplementsOwnership
<1>1. ClaimsInit => Ownership!Init
  BY DEF ClaimsInit, Ownership!Init, OwnerIn, Holds
<1>2. ClaimsTypeOK /\ OneOwner /\ AllOrNothing /\ WholeStale /\ [ClaimsNext]_claims_vars
          => [Ownership!Next]_(OwnerIn(open))
  <2> SUFFICES ASSUME ClaimsTypeOK, OneOwner, AllOrNothing, WholeStale, [ClaimsNext]_claims_vars
               PROVE  Ownership!Next \/ OwnerIn(open)' = OwnerIn(open)
    OBVIOUS
  <2>0. /\ open \in [Run -> SUBSET Symbol]
        /\ Exclusive(open)
        /\ Whole(open)
    BY DEF ClaimsTypeOK, OneOwner, Exclusive, AllOrNothing, Whole
  <2>1. ASSUME UNCHANGED open PROVE OwnerIn(open)' = OwnerIn(open)
    BY <2>1 DEF OwnerIn, Holds
  <2>2. ASSUME NEW Gone \in SUBSET Run, open' \in [Run -> SUBSET Symbol],
               \A q \in Run : open'[q] = IF q \in Gone THEN {} ELSE open[q]
        PROVE  Ownership!Next
    <3>1. Ownership!Lose(Gone)
      BY <2>0, <2>2, LossMaps DEF Ownership!Lose, Ownership!Without
    <3> QED  BY <3>1 DEF Ownership!Next
  <2>3. ASSUME NEW r \in Run, Release(r) PROVE Ownership!Next
    <3>1. /\ open' \in [Run -> SUBSET Symbol]
          /\ \A q \in Run : open'[q] = IF q \in {r} THEN {} ELSE open[q]
      BY <2>0, <2>3 DEF Release
    <3>2. {r} \in SUBSET Run
      OBVIOUS
    <3> QED  BY <2>2, <3>1, <3>2
  <2>4. ASSUME NEW c \in Client, PruneStale(c) PROVE Ownership!Next
    <3> DEFINE Gone == {q \in Run : request[c].stale[q] # {}}
    <3>1. request[c].stale \in [Run -> SUBSET Symbol]
      BY <2>4, RequestFields DEF PruneStale
    <3>2. \A q \in Run : request[c].stale[q] \in {{}, SymbolsOf[q]}
      BY <2>4 DEF PruneStale, WholeStale
    <3>3. open' \in [Run -> SUBSET Symbol]
      BY <2>0, <2>4, <3>1, PrunedType DEF PruneStale
    <3>4. \A q \in Run : open'[q] = IF q \in Gone THEN {} ELSE open[q]
      BY <2>0, <2>4, <3>1, <3>2 DEF PruneStale, Pruned, Whole
    <3> QED  BY <2>2, <3>3, <3>4
  <2>5. ASSUME NEW c \in Client, Claim(c)
        PROVE  Ownership!Next \/ OwnerIn(open)' = OwnerIn(open)
    <3> DEFINE r    == request[c].run
               kept == Pruned(open, Stale(open, EndpointOf[r], request[c].live))
               Gone == {q \in Run : EndpointOf[q] = EndpointOf[r] /\ q \notin request[c].live}
               left == [q \in Run |-> IF q \in Gone \ {r} THEN {} ELSE open[q]]
               next == Upsert(kept, r)
    <3>1. r \in Run
      BY <2>5, RequestFields DEF Claim
    <3>2. kept \in [Run -> SUBSET Symbol]
      BY <2>0, StaleType, PrunedType
    <3>3. \A q \in Run : kept[q] = IF q \in Gone THEN {} ELSE open[q]
      BY <2>0 DEF Pruned, Stale
    <3>4. SUFFICES ASSUME Conflicts(kept, r) = {}, open' = Upsert(kept, r)
                   PROVE  Ownership!Next
      BY <2>1, <2>5 DEF Claim
    <3>5. /\ left \in [Run -> SUBSET Symbol]
          /\ \A q \in Run : left[q] = IF q \in Gone \ {r} THEN {} ELSE open[q]
          /\ \A q \in Run \ {r} : left[q] = kept[q]
          /\ left[r] = open[r]
      BY <2>0, <3>1, <3>3
    <3> HIDE DEF kept, r, left, Gone, next
    <3>6. /\ next \in [Run -> SUBSET Symbol]
          /\ \A q \in Run \ {r} : next[q] = left[q]
          /\ next[r] = SymbolsOf[r]
      <4>1. /\ next \in [Run -> SUBSET Symbol]
            /\ next[r] = kept[r] \cup SymbolsOf[r]
            /\ \A q \in Run \ {r} : next[q] = kept[q]
        BY <3>1, <3>2, UpsertType DEF next
      <4>2. kept[r] \subseteq SymbolsOf[r]
        BY <2>0, <3>1, <3>3 DEF Whole
      <4> QED  BY <3>5, <4>1, <4>2
    <3>7. Conflicts(left, r) = {}
      BY <3>4, <3>5 DEF Conflicts
    <3>8. left[r] \subseteq SymbolsOf[r]
      BY <2>0, <3>1, <3>5 DEF Whole
    <3>9. Gone \ {r} \in SUBSET Run
      BY DEF Gone
    <3>10. /\ Exclusive(left)
           /\ OwnerIn(left) = Ownership!Without(Gone \ {r})
      BY <2>0, <3>5, <3>9, LossMaps DEF Ownership!Without
    <3>11. /\ \A s \in SymbolsOf[r] : OwnerIn(left)[EndpointOf[r]][s] \in {Nobody, r}
           /\ OwnerIn(next) = Granted(OwnerIn(left), r)
      <4>1. GrantStep(left, next, r)
        BY <3>5, <3>6, <3>7, <3>8, <3>10 DEF GrantStep
      <4> QED  BY <3>1, <4>1, GrantMaps
    <3>12. OwnerIn(open)' = OwnerIn(next)
      BY <3>4 DEF next, OwnerIn, Holds
    <3>13. Ownership!Grant(r, Gone)
      BY <3>10, <3>11, <3>12 DEF Ownership!Grant, Granted
    <3> QED  BY <3>1, <3>13 DEF Ownership!Next, Gone
  <2> QED
    BY <2>1, <2>3, <2>4, <2>5
    DEF ClaimsNext, claims_vars, RunStarts, RunEnds, BeginClaim, BeginList, SelectOpen
<1> QED
  BY <1>1, <1>2, ClaimsTypeCorrect, OneOwnerHolds, AllOrNothingHolds, PTL
  DEF ClaimsSpec, ImplementsOwnership, Ownership!Spec
-----------------------------------------------------------------------------
(* What a claim that ends in a refusal does: it is one whole transaction,  *)
(* so it names who stood in its way and leaves the table as it was.        *)
LEMMA RefusalIsAClaim ==
    ASSUME ClaimsTypeOK, ClaimsNext, NEW c \in Client,
           request[c].op = "claim", request'[c].op = "idle", answer'[c] = "refused"
    PROVE  /\ open' = open
           /\ LET r == request[c].run
              IN  Conflicts(Pruned(open, Stale(open, EndpointOf[r], request[c].live)), r) # {}
<1> USE DEF ClaimsTypeOK
<1>1. ASSUME NEW d \in Client, Claim(d)
      PROVE  /\ open' = open
             /\ LET r == request[c].run
                IN  Conflicts(Pruned(open, Stale(open, EndpointOf[r], request[c].live)), r) # {}
  <2>1. d = c
    BY <1>1 DEF Claim
  <2>2. answer' # [answer EXCEPT ![c] = "granted"]
    OBVIOUS
  <2> QED  BY <1>1, <2>1, <2>2 DEF Claim
<1>2. ASSUME NEW d \in Client, PruneStale(d) PROVE FALSE
  BY <1>2 DEF PruneStale
<1>3. ASSUME NEW d \in Client, SelectOpen(d) PROVE FALSE
  BY <1>3 DEF SelectOpen
<1>4. ASSUME NEW d \in Client, NEW e \in Endpoint, BeginList(d, e) PROVE FALSE
  BY <1>4 DEF BeginList
<1>5. ASSUME NEW d \in Client, NEW r \in Run, BeginClaim(d, r) PROVE FALSE
  BY <1>5 DEF BeginClaim
<1>6. ASSUME NEW r \in Run, RunStarts(r) \/ RunEnds(r) \/ Release(r) PROVE FALSE
  BY <1>6 DEF RunStarts, RunEnds, Release
<1> QED  BY <1>1, <1>2, <1>3, <1>4, <1>5, <1>6 DEF ClaimsNext

(* Whatever the callers' enumerations missed, a refused claim met a run    *)
(* that its caller had seen running and that holds one of its symbols: a   *)
(* claim left by a killed session blocks nobody (_open_locked).            *)
THEOREM RefusedOnlyByRunningHolds == ClaimsSpec => RefusedOnlyByRunning
<1> DEFINE Owed ==
       \A c \in Client :
          (request[c].op = "claim" /\ answer'[c] = "refused" /\ request'[c].op = "idle") =>
             \E q \in request[c].live \ {request[c].run} :
                 /\ EndpointOf[q] = EndpointOf[request[c].run]
                 /\ open[q] \cap SymbolsOf[request[c].run] # {}
<1>1. ClaimsTypeOK /\ [ClaimsNext]_claims_vars => [Owed]_claims_vars
  <2> SUFFICES ASSUME ClaimsTypeOK, ClaimsNext, NEW c \in Client,
                      request[c].op = "claim", answer'[c] = "refused", request'[c].op = "idle"
               PROVE  \E q \in request[c].live \ {request[c].run} :
                         /\ EndpointOf[q] = EndpointOf[request[c].run]
                         /\ open[q] \cap SymbolsOf[request[c].run] # {}
    OBVIOUS
  <2> DEFINE r    == request[c].run
             kept == Pruned(open, Stale(open, EndpointOf[r], request[c].live))
  <2>1. PICK q \in Conflicts(kept, r) : TRUE
    BY RefusalIsAClaim
  <2>2. /\ q \in Run \ {r} /\ EndpointOf[q] = EndpointOf[r]
        /\ kept[q] \cap SymbolsOf[r] # {}
    BY <2>1 DEF Conflicts
  <2>3. kept[q] = open[q] \ Stale(open, EndpointOf[r], request[c].live)[q]
    BY <2>2 DEF Pruned
  <2>4. q \in request[c].live
    BY <2>2, <2>3 DEF Stale
  <2> QED  BY <2>2, <2>3, <2>4
<1> QED  BY <1>1, ClaimsTypeCorrect, PTL DEF ClaimsSpec, RefusedOnlyByRunning

(* ... and it takes nothing from anybody: the prune is rolled back (claim). *)
THEOREM RefusalRollsBackHolds == ClaimsSpec => RefusalRollsBack
<1> DEFINE Kept ==
       \A c \in Client :
          (request[c].op = "claim" /\ request'[c].op = "idle" /\ answer'[c] = "refused")
             => open' = open
<1>1. ClaimsTypeOK /\ [ClaimsNext]_claims_vars => [Kept]_claims_vars
  BY RefusalIsAClaim
<1> QED  BY <1>1, ClaimsTypeCorrect, PTL DEF ClaimsSpec, RefusalRollsBack

-----------------------------------------------------------------------------
(* Background work.                                                        *)

Point    == Lab \X {1, 2}
Status   == {"none", "deleted"} \cup Active \cup Terminal
Standing == {"none", "waiting", "admitted", "opened", "working", "pooling", "unlocking",
             "leaving", "gone"}

-----------------------------------------------------------------------------
(* Types.                                                                  *)

LEMMA WriteType ==
    ASSUME row \in [Job -> Status], {stop, beats, handle} \subseteq [Job -> BOOLEAN],
           NEW j \in Job, NEW s \in Active \cup Terminal, Write(j, s)
    PROVE  /\ row' \in [Job -> Status] /\ stop' \in [Job -> BOOLEAN]
           /\ beats' \in [Job -> BOOLEAN]
BY DEF Write, Status

LEMMA RowsNext ==
    ASSUME TypeOK, [Next]_vars
    PROVE  row' \in [Job -> Status] /\ {stop', beats', handle'} \subseteq [Job -> BOOLEAN]
<1> row \in [Job -> Status] /\ {stop, beats, handle} \subseteq [Job -> BOOLEAN]
  BY DEF TypeOK, Status
<1> Lab \subseteq Job /\ Fill \subseteq Job
  BY DEF Job
<1> DEFINE Rows == row' \in [Job -> Status] /\ {stop', beats', handle'} \subseteq [Job -> BOOLEAN]
<1>1. ASSUME NEW j \in Job, NEW s \in Active \cup Terminal, Write(j, s),
             handle' \in [Job -> BOOLEAN]
      PROVE  Rows
  BY <1>1, WriteType
<1>2. ASSUME NEW j \in Job, Server(j) PROVE Rows
  <2>1. CASE Create(j) \/ Delete(j)
    BY <2>1 DEF Create, Delete, api_vars, Status, Active
  <2>4. CASE Launch(j) \/ Cancel(j)
    BY <2>4 DEF Launch, Cancel, api_vars
  <2>2. CASE Reap(j)
    <3>1. handle' \in [Job -> BOOLEAN]
      BY <2>2 DEF Reap
    <3>2. CASE Write(j, "failed")
      BY <3>1, <3>2, <1>1 DEF Terminal, Deletable
    <3>3. CASE UNCHANGED row_vars
      BY <3>1, <3>3 DEF row_vars
    <3> QED  BY <2>2, <3>2, <3>3 DEF Reap
  <2>3. CASE FailStale(j)
    <3>1. handle' \in [Job -> BOOLEAN]
      BY <2>3 DEF FailStale
    <3>2. CASE Write(j, "lost")
      BY <3>1, <3>2, <1>1 DEF Terminal
    <3>3. CASE UNCHANGED row_vars
      BY <3>1, <3>3 DEF row_vars
    <3> QED  BY <2>3, <3>2, <3>3 DEF FailStale
  <2> QED  BY <1>2, <2>1, <2>2, <2>3, <2>4 DEF Server
<1>3. ASSUME NEW j \in Job,
             Dismissed(j) \/ Complete(j) \/ Stopped(j) \/ Fail(j) \/ Refused(j) \/ Locked(j)
             \/ Start(j) \/ Uncleaned(j) \/ BreakPool(j)
      PROVE  Rows
  <2>1. \E s \in {"failed", "done", "cancelled", "running"} : Write(j, s)
    BY <1>3 DEF Dismissed, Complete, Stopped, Fail, Refused, Locked, Start,
       Uncleaned, BreakPool,
                Record
  <2>2. handle' = handle
    BY <1>3 DEF Dismissed, Complete, Stopped, Fail, Refused, Locked, Start,
       Uncleaned, BreakPool,
                api_vars
  <2>3. {"failed", "done", "cancelled", "running"} \subseteq Active \cup Terminal
    BY DEF Active, Terminal, Deletable
  <2> QED  BY <2>1, <2>2, <2>3, <1>1
<1>4. ASSUME NEW j \in Job \cup Guest, AdmitJob(j) PROVE Rows
  BY <1>4 DEF AdmitJob, Admit, api_vars
<1>5. ASSUME NEW j \in Job,
             Beat(j) \/ Leave(j) \/ Crash(j) \/ Age(j) \/ Stall(j) \/ OpenPool(j) \/ Inline(j)
             \/ Drain(j) \/ ClosePool(j) \/ Lock(j) \/ TakeOver(j) \/ Pulse(j) \/ Unlock(j)
      PROVE  Rows
  BY <1>5 DEF Beat, Leave, Crash, Age, Stall, OpenPool, Inline, Drain,
     ClosePool, Lock, TakeOver,
              Pulse, Unlock, row_vars, api_vars
<1>6. ASSUME NEW p \in Point, AdmitPoint(p) \/ PointEnds(p) PROVE Rows
  BY <1>6 DEF AdmitPoint, Admit, PointEnds, row_vars, api_vars
<1>7. ASSUME NEW g \in Guest, Validate(g) \/ Validated(g) PROVE Rows
  BY <1>7 DEF Validate, Validated, row_vars, api_vars
<1>8. CASE Sweep \/ Restart \/ LockAges
  BY <1>8 DEF Sweep, Restart, LockAges, row_vars, api_vars
<1>9. CASE UNCHANGED vars
  BY <1>9 DEF vars, row_vars, api_vars
<1> QED
  BY <1>2, <1>3, <1>4, <1>5, <1>6, <1>7, <1>8, <1>9
     DEF Next, AnyWorker, LabWorker, FillWorker, Point

(* A pool is open only while a sweep is left to do.                        *)
PoolIsOfAFold == \A l \in Lab : pc[l] = "pooling" => folds[l] > 0

LEMMA WorkersNext ==
    ASSUME TypeOK, PoolIsOfAFold, [Next]_vars
    PROVE  /\ pc' \in [Job \cup Guest -> Standing]
           /\ point' \in [Point -> {"none", "waiting", "running"}]
           /\ folds' \in [Lab -> 0 .. MaxFolds] /\ shut' \in [Lab -> BOOLEAN]
           /\ lease' \subseteq Proc
<1> /\ pc \in [Job \cup Guest -> Standing]
    /\ point \in [Point -> {"none", "waiting", "running"}]
    /\ folds \in [Lab -> 0 .. MaxFolds] /\ shut \in [Lab -> BOOLEAN]
    /\ lease \subseteq Proc
  BY DEF TypeOK, Standing, Point
<1> Lab \subseteq Job /\ Fill \subseteq Job /\ Job \subseteq Job \cup Guest
    /\ Job \cup Guest \subseteq Proc /\ Point \subseteq Proc
  BY DEF Job, Proc, Point
<1> DEFINE PcOK    == pc' \in [Job \cup Guest -> Standing]
           PointOK == point' \in [Point -> {"none", "waiting", "running"}]
           FoldsOK == folds' \in [Lab -> 0 .. MaxFolds] /\ shut' \in [Lab -> BOOLEAN]
           LeaseOK == lease' \subseteq Proc
           All     == PcOK /\ PointOK /\ FoldsOK /\ LeaseOK
<1>1. ASSUME NEW j \in Job, Server(j) PROVE All
  BY <1>1 DEF Server, Create, Launch, Cancel, Delete, Reap, FailStale,
     pool_vars, Standing
<1>2. ASSUME NEW j \in Job,
             Dismissed(j) \/ Beat(j) \/ Leave(j) \/ Age(j) \/ Stall(j)
      PROVE  All
  BY <1>2 DEF Dismissed, Beat, Leave, Age, Stall, pool_vars, Standing
<1>3. ASSUME NEW j \in Job, Complete(j) \/ Stopped(j) \/ Fail(j) \/ Refused(j) \/ BreakPool(j)
      PROVE  All
  <2>1. PcOK
    BY <1>3 DEF Complete, Stopped, Fail, Refused, BreakPool, Record, Standing
  <2>2. PointOK
    BY <1>3 DEF Complete, Stopped, Fail, Refused, BreakPool, pool_vars, Point
  <2>3. FoldsOK /\ LeaseOK
    BY <1>3 DEF Complete, Stopped, Fail, Refused, BreakPool, pool_vars
  <2> QED  BY <2>1, <2>2, <2>3
<1>4. ASSUME NEW j \in Job, Crash(j) PROVE All
  BY <1>4 DEF Crash, Standing, Point
<1>5. ASSUME NEW j \in Job \cup Guest, AdmitJob(j) PROVE All
  BY <1>5 DEF AdmitJob, Admit, Seen, Standing
<1>6. ASSUME NEW l \in Lab, Start(l) \/ Uncleaned(l) \/ OpenPool(l) PROVE All
  BY <1>6 DEF Start, Uncleaned, OpenPool, pool_vars, Standing, Point
<1>7. ASSUME NEW l \in Lab, Inline(l) \/ Drain(l) \/ ClosePool(l) PROVE All
  <2>1. CASE Inline(l)
    <3>1. folds[l] - 1 \in 0 .. MaxFolds
      BY <2>1, JobsAssumption DEF Inline
    <3> QED  BY <2>1, <3>1 DEF Inline
  <2>2. CASE Drain(l)
    BY <2>2 DEF Drain
  <2>3. CASE ClosePool(l)
    <3>1. folds[l] - 1 \in 0 .. MaxFolds
      BY <2>3, JobsAssumption DEF ClosePool, PoolIsOfAFold
    <3> QED  BY <2>3, <3>1 DEF ClosePool, Standing
  <2> QED  BY <1>7, <2>1, <2>2, <2>3
<1>8. ASSUME NEW f \in Fill, Lock(f) \/ TakeOver(f) \/ Locked(f) \/ Pulse(f) \/ Unlock(f) PROVE All
  BY <1>8 DEF Lock, TakeOver, Locked, Pulse, Unlock, pool_vars, Standing
<1>9. ASSUME NEW p \in Point, AdmitPoint(p) \/ PointEnds(p) PROVE All
  BY <1>9 DEF AdmitPoint, Admit, Seen, PointEnds, Point
<1>10. ASSUME NEW g \in Guest, Validate(g) \/ Validated(g) PROVE All
  BY <1>10 DEF Validate, Validated, pool_vars, Standing
<1>11. CASE Sweep \/ LockAges
  BY <1>11 DEF Sweep, LockAges, pool_vars
<1>12. CASE Restart
  BY <1>12 DEF Restart, pool_vars, Standing
<1>13. CASE UNCHANGED vars
  BY <1>13 DEF vars, pool_vars
<1> QED
  BY <1>1, <1>2, <1>3, <1>4, <1>5, <1>6, <1>7, <1>8, <1>9, <1>10, <1>11, <1>12,
     <1>13
     DEF Next, AnyWorker, LabWorker, FillWorker, Point

LEMMA LockNext ==
    ASSUME TypeOK, [Next]_vars
    PROVE  lock' \in [by : SUBSET Fill, text : BOOLEAN, recent : BOOLEAN]
<1> lock \in [by : SUBSET Fill, text : BOOLEAN, recent : BOOLEAN]
  BY DEF TypeOK
<1> Absent \in [by : SUBSET Fill, text : BOOLEAN, recent : BOOLEAN]
  BY DEF Absent
<1> Lab \subseteq Job /\ Fill \subseteq Job
  BY DEF Job
<1> DEFINE LockOK == lock' \in [by : SUBSET Fill, text : BOOLEAN, recent : BOOLEAN]
<1>1. ASSUME NEW f \in Fill, FillWorker(f) PROVE LockOK
  <2>1. CASE Lock(f) \/ TakeOver(f) \/ Locked(f)
    <3>1. \E t \in BOOLEAN : lock' = [by |-> {f}, text |-> t, recent |-> TRUE]
      BY <2>1 DEF Lock, TakeOver, Locked
    <3> QED  BY <3>1
  <2>2. CASE Refused(f) \/ Unlock(f)
    BY <2>2 DEF Refused, Unlock
  <2>3. CASE Pulse(f)
    <3>1. (lock.by = {f} /\ ~lock.text) \in BOOLEAN
      OBVIOUS
    <3> QED  BY <2>3, <3>1 DEF Pulse
  <2> QED  BY <1>1, <2>1, <2>2, <2>3 DEF FillWorker
<1>2. ASSUME NEW l \in Lab, LabWorker(l) PROVE LockOK
  BY <1>2 DEF LabWorker, Start, OpenPool, Inline, Drain, ClosePool, BreakPool,
     Uncleaned
<1>3. ASSUME NEW j \in Job, Server(j) PROVE LockOK
  BY <1>3 DEF Server, Create, Launch, Cancel, Delete, Reap, FailStale
<1>4. ASSUME NEW j \in Job, AnyWorker(j) PROVE LockOK
  BY <1>4 DEF AnyWorker, AdmitJob, Admit, Dismissed, Beat, Complete, Stopped,
     Fail, Leave, Crash,
              Age, Stall
<1>5. ASSUME NEW p \in Point, AdmitPoint(p) \/ PointEnds(p) PROVE LockOK
  BY <1>5 DEF AdmitPoint, Admit, PointEnds
<1>6. ASSUME NEW g \in Guest, Validate(g) \/ AdmitJob(g) \/ Validated(g) PROVE LockOK
  BY <1>6 DEF Validate, AdmitJob, Admit, Validated
<1>7. CASE Sweep \/ Restart \/ LockAges
  BY <1>7 DEF Sweep, Restart, LockAges
<1>8. CASE UNCHANGED vars
  BY <1>8 DEF vars
<1> QED
  BY <1>1, <1>2, <1>3, <1>4, <1>5, <1>6, <1>7, <1>8 DEF Next, Point

LEMMA ServerNext ==
    ASSUME TypeOK, [Next]_vars
    PROVE  /\ used' \in Lineup /\ policy' = policy
           /\ stale' \subseteq Job /\ restarted' \in BOOLEAN
<1> used \in Lineup /\ stale \subseteq Job /\ restarted \in BOOLEAN
  BY DEF TypeOK
<1> Lab \subseteq Job /\ Fill \subseteq Job
  BY DEF Job
<1> DEFINE ServerOK == /\ used' \in Lineup /\ policy' = policy
                       /\ stale' \subseteq Job /\ restarted' \in BOOLEAN
<1>1. ASSUME NEW f \in Fill, FillWorker(f) PROVE ServerOK
  BY <1>1 DEF FillWorker, Lock, TakeOver, Refused, Locked, Pulse, Unlock,
     api_vars
<1>2. ASSUME NEW l \in Lab, LabWorker(l) PROVE ServerOK
  BY <1>2 DEF LabWorker, Start, OpenPool, Inline, Drain, ClosePool, BreakPool,
     Uncleaned, api_vars
<1>3. ASSUME NEW j \in Job, Server(j) PROVE ServerOK
  BY <1>3 DEF Server, Create, Launch, Cancel, Delete, Reap, FailStale, api_vars
<1>4. ASSUME NEW j \in Job, AnyWorker(j) PROVE ServerOK
  BY <1>4 DEF AnyWorker, AdmitJob, Admit, Dismissed, Beat, Complete, Stopped,
     Fail, Leave, Crash,
              Age, Stall, api_vars
<1>5. ASSUME NEW p \in Point, AdmitPoint(p) \/ PointEnds(p) PROVE ServerOK
  BY <1>5 DEF AdmitPoint, Admit, PointEnds, api_vars
<1>6. ASSUME NEW g \in Guest, Validate(g) \/ AdmitJob(g) \/ Validated(g) PROVE ServerOK
  BY <1>6 DEF Validate, AdmitJob, Admit, Validated, api_vars
<1>7. CASE Sweep \/ Restart \/ LockAges
  BY <1>7 DEF Sweep, Restart, LockAges, api_vars
<1>8. CASE UNCHANGED vars
  BY <1>8 DEF vars, api_vars
<1> QED
  BY <1>1, <1>2, <1>3, <1>4, <1>5, <1>6, <1>7, <1>8 DEF Next, Point

LEMMA FoldNext ==
    ASSUME TypeOK, PoolIsOfAFold, [Next]_vars
    PROVE  PoolIsOfAFold'
<1> Lab \subseteq Job /\ Fill \subseteq Job /\ Job \subseteq Job \cup Guest
  BY DEF Job
<1> /\ pc \in [Job \cup Guest -> Standing] /\ folds \in [Lab -> 0 .. MaxFolds]
    /\ PoolIsOfAFold
  BY DEF TypeOK, Standing
<1> USE DEF PoolIsOfAFold
<1>1. ASSUME NEW f \in Fill, FillWorker(f) PROVE PoolIsOfAFold'
  BY <1>1 DEF FillWorker, Lock, TakeOver, Refused, Record, Locked, Pulse,
     Unlock, pool_vars
<1>2. ASSUME NEW l \in Lab, LabWorker(l) PROVE PoolIsOfAFold'
  <2>1. CASE Start(l) \/ BreakPool(l) \/ Uncleaned(l) \/ Drain(l) \/ ClosePool(l)
    BY <2>1 DEF Start, BreakPool, Record, Uncleaned, Drain, ClosePool,
       pool_vars
  <2>2. CASE OpenPool(l) \/ Inline(l)
    BY <2>2 DEF OpenPool, Inline
  <2> QED  BY <1>2, <2>1, <2>2 DEF LabWorker
<1>3. ASSUME NEW j \in Job, Server(j) PROVE PoolIsOfAFold'
  BY <1>3 DEF Server, Create, Launch, Cancel, Delete, Reap, FailStale,
     pool_vars
<1>4. ASSUME NEW j \in Job, AnyWorker(j) PROVE PoolIsOfAFold'
  BY <1>4 DEF AnyWorker, AdmitJob, Admit, Dismissed, Beat, Complete, Stopped,
     Fail, Record, Leave,
              Crash, Age, Stall, pool_vars
<1>5. ASSUME NEW p \in Point, AdmitPoint(p) \/ PointEnds(p) PROVE PoolIsOfAFold'
  BY <1>5 DEF AdmitPoint, Admit, PointEnds
<1>6. ASSUME NEW g \in Guest, Validate(g) \/ AdmitJob(g) \/ Validated(g) PROVE PoolIsOfAFold'
  BY <1>6 DEF Validate, AdmitJob, Admit, Validated, pool_vars
<1>7. CASE Sweep \/ LockAges
  BY <1>7 DEF Sweep, LockAges, pool_vars
<1>8. CASE Restart
  BY <1>8 DEF Restart, pool_vars
<1>9. CASE UNCHANGED vars
  BY <1>9 DEF vars, pool_vars
<1> QED
  BY <1>1, <1>2, <1>3, <1>4, <1>5, <1>6, <1>7, <1>8, <1>9 DEF Next, Point

(* The rows, processes, pools, leases and the lock keep their types        *)
(* (resources, store/ingests, store/lab, data/refresh).                    *)
THEOREM TypeCorrect == Spec => []TypeOK
<1>1. Init => TypeOK /\ PoolIsOfAFold
  <2> SUFFICES ASSUME Init PROVE TypeOK /\ PoolIsOfAFold
    OBVIOUS
  <2>1. stop \in [Job -> BOOLEAN] /\ beats = stop /\ handle = stop
    BY DEF Init
  <2>2. MaxFolds \in 0 .. MaxFolds
    BY JobsAssumption
  <2>3. /\ row \in [Job -> {"none", "deleted"} \cup Active \cup Terminal]
        /\ folds \in [Lab -> 0 .. MaxFolds] /\ shut \in [Lab -> BOOLEAN]
    BY <2>2 DEF Init
  <2>4. lock \in [by : SUBSET Fill, text : BOOLEAN, recent : BOOLEAN]
    BY DEF Init, Absent
  <2>5. PoolIsOfAFold
    BY DEF Init, PoolIsOfAFold, Job
  <2> QED  BY <2>1, <2>3, <2>4, <2>5 DEF Init, TypeOK
<1>2. TypeOK /\ PoolIsOfAFold /\ [Next]_vars => TypeOK' /\ PoolIsOfAFold'
  <2> SUFFICES ASSUME TypeOK, PoolIsOfAFold, [Next]_vars PROVE TypeOK' /\ PoolIsOfAFold'
    OBVIOUS
  <2>1. policy' \in Policy
    BY ServerNext DEF TypeOK
  <2> QED
    BY <2>1, ServerNext, RowsNext, WorkersNext, LockNext, FoldNext
       DEF TypeOK, Status, Standing, Point
<1> QED  BY <1>1, <1>2, PTL DEF Spec

-----------------------------------------------------------------------------
(* What may be deleted is over.                                            *)

LEMMA DeletableNext ==
    ASSUME TypeOK, DeletableIsOver, [Next]_vars
    PROVE  DeletableIsOver'
<1> Lab \subseteq Job /\ Fill \subseteq Job /\ Job \subseteq Job \cup Guest
    /\ Job \cap Guest = {}
  BY JobsAssumption DEF Job
<1> /\ pc \in [Job \cup Guest -> Standing] /\ row \in [Job -> Status]
    /\ DeletableIsOver
  BY DEF TypeOK, Standing, Status
<1> USE DEF DeletableIsOver, Deletable
(* A row is written by the worker on its way out, or when it is gone ...   *)
<1>1. ASSUME NEW j \in Job, NEW s \in Active \cup Terminal, Write(j, s),
             \A i \in Job : i # j => pc'[i] = pc[i],
             s \in Deletable => pc'[j] \in {"unlocking", "leaving", "gone"},
             s \notin Deletable => row'[j] \notin Deletable
      PROVE  DeletableIsOver'
  BY <1>1 DEF Write
(* ... and a worker that is on its way out does not turn back.             *)
<1>2. ASSUME UNCHANGED row,
              \A i \in Job : \/ pc'[i] = pc[i]
                            \/ pc'[i] \in {"unlocking", "leaving", "gone"}
                           \/ row[i] \notin Deletable
      PROVE  DeletableIsOver'
  BY <1>2
<1>3. ASSUME NEW j \in Job, Server(j) PROVE DeletableIsOver'
  <2>1. CASE Create(j) \/ Delete(j)
    BY <2>1 DEF Create, Delete
  <2>2. CASE Launch(j) \/ Cancel(j)
    BY <2>2, <1>2 DEF Launch, Cancel
  <2>3. CASE Reap(j)
    BY <2>3 DEF Reap, Write, row_vars
  <2>4. CASE FailStale(j)
    BY <2>4 DEF FailStale, Write, row_vars
  <2> QED  BY <1>3, <2>1, <2>2, <2>3, <2>4 DEF Server
<1>4. ASSUME NEW j \in Job,
             Dismissed(j) \/ Complete(j) \/ Stopped(j) \/ Fail(j) \/ Refused(j) \/ Uncleaned(j)
             \/ BreakPool(j) \/ Start(j) \/ Locked(j)
      PROVE  DeletableIsOver'
  <2>1. CASE Dismissed(j) \/ Uncleaned(j)
    BY <2>1 DEF Dismissed, Uncleaned, Write
  <2>2. CASE Complete(j) \/ Stopped(j) \/ Fail(j) \/ Refused(j) \/ BreakPool(j)
    BY <2>2 DEF Complete, Stopped, Fail, Refused, BreakPool, Record, Write
  <2>3. CASE Start(j) \/ Locked(j)
    BY <2>3 DEF Start, Locked, Write
  <2> QED  BY <1>4, <2>1, <2>2, <2>3
<1>5. ASSUME NEW j \in Job,
             Beat(j) \/ Leave(j) \/ Crash(j) \/ Age(j) \/ Stall(j) \/ OpenPool(j) \/ Inline(j)
             \/ Drain(j) \/ ClosePool(j) \/ Lock(j) \/ TakeOver(j) \/ Pulse(j) \/ Unlock(j)
      PROVE  DeletableIsOver'
  BY <1>2, <1>5 DEF Beat, Leave, Crash, Age, Stall, OpenPool, Inline, Drain,
     ClosePool, Lock,
                    TakeOver, Pulse, Unlock, row_vars
<1>6. ASSUME NEW p \in Point, AdmitPoint(p) \/ PointEnds(p) PROVE DeletableIsOver'
  BY <1>6 DEF AdmitPoint, Admit, PointEnds, row_vars
<1>7. ASSUME NEW j \in Job \cup Guest, AdmitJob(j) PROVE DeletableIsOver'
  BY <1>7, <1>2 DEF AdmitJob, Admit
<1>8. ASSUME NEW g \in Guest, Validate(g) \/ Validated(g) PROVE DeletableIsOver'
  BY <1>8, <1>2 DEF Validate, Validated, row_vars
<1>9. CASE Sweep \/ Restart \/ LockAges
  BY <1>9, <1>2 DEF Sweep, Restart, LockAges, row_vars
<1>10. CASE UNCHANGED vars
  BY <1>10 DEF vars, row_vars
<1> QED
  BY <1>3, <1>4, <1>5, <1>6, <1>7, <1>8, <1>9, <1>10
     DEF Next, AnyWorker, LabWorker, FillWorker, Point

(* For any number of jobs, and whatever is cancelled, deleted, crashes,    *)
(* stalls or restarts: a row that may be deleted has no worker at work     *)
(* behind it (RunStatus.DELETABLE and delete of the ingest and lab stores).*)
THEOREM DeletableIsOverHolds == Spec => []DeletableIsOver
<1>1. Init => DeletableIsOver
  BY DEF Init, DeletableIsOver, Deletable
<1>2. TypeOK /\ DeletableIsOver /\ [Next]_vars => DeletableIsOver'
  BY DeletableNext
<1> QED  BY <1>1, <1>2, TypeCorrect, PTL DEF Spec

-----------------------------------------------------------------------------
(* The memory budget.                                                      *)

LiveSlots(S) == {p \in S : ~Nested(p)}

(* The leases are those of the admitted, and of some that are gone.        *)
Covered == Admitted \subseteq lease

Budget == Covered /\ WithinBudget

(* Who is admitted is alive, so an admission sees its lease.               *)
LEMMA AdmittedIsSeen ==
    ASSUME Covered
    PROVE  Admitted \subseteq Seen
BY DEF Covered, Admitted, Seen, Alive

LEMMA Counts ==
    ASSUME NEW S \in SUBSET Proc, NEW T \in SUBSET S
    PROVE  /\ IsFiniteSet(S) /\ IsFiniteSet(T)
           /\ Cardinality(S) \in Nat /\ Cardinality(T) \in Nat
           /\ Cardinality(T) <= Cardinality(S)
<1>1. IsFiniteSet(S)
  BY JobsAssumption, FS_Subset
<1> QED  BY <1>1, FS_Subset, FS_CardinalityType

(* A step that admits nobody and takes no admitted one's lease.            *)
LEMMA Shrinks ==
    ASSUME Budget, policy \in Policy, UNCHANGED policy,
           Admitted' \subseteq Admitted, Admitted' \subseteq lease'
    PROVE  Budget'
<1>1. LiveSlots(Admitted') \subseteq LiveSlots(Admitted) /\ Admitted \subseteq Proc
      /\ LiveSlots(Admitted) \subseteq Proc
  BY DEF LiveSlots, Admitted
<1>2. Cardinality(Admitted') <= policy.research
  <2>1. Cardinality(Admitted) <= policy.research /\ policy.research \in Nat
    BY JobsAssumption DEF Budget, WithinBudget, Policies
  <2> QED  BY <1>1, <2>1, Counts
<1>3. Cardinality(LiveSlots(Admitted')) <= policy.workers
  <2>1. Cardinality(LiveSlots(Admitted)) <= policy.workers /\ policy.workers \in Nat
    BY JobsAssumption DEF Budget, WithinBudget, Policies, LiveSlots
  <2> QED  BY <1>1, <2>1, Counts
<1> QED  BY <1>2, <1>3 DEF Budget, Covered, WithinBudget, LiveSlots, Nested

(* An admission.                                                           *)
LEMMA Admits ==
    ASSUME Budget, policy \in Policy, lease \subseteq Proc, NEW p \in Proc, Admit(p),
           Admitted' \subseteq Admitted \cup {p}
    PROVE  Budget'
<1>1. Admitted \subseteq Seen /\ lease' = Seen \cup {p} /\ policy' = policy /\ Fits(p)
  BY AdmittedIsSeen DEF Budget, Admit
<1>2. /\ policy.research \in Nat /\ policy.workers \in Nat
      /\ Cardinality(Seen) + 1 <= policy.research
      /\ Nested(p) \/ Cardinality(LiveSlots(Seen)) < policy.workers
      /\ Cardinality(LiveSlots(Admitted)) <= policy.workers
  BY <1>1, JobsAssumption DEF Policies, Fits, LiveSlots, Budget, WithinBudget
<1>3. Seen \subseteq Proc
  BY DEF Seen
<1>4. Cardinality(Admitted') <= policy.research
  <2>1. Cardinality(Seen \cup {p}) <= Cardinality(Seen) + 1 /\ Cardinality(Seen) \in Nat
    BY <1>3, Counts, FS_AddElement
  <2>2. Cardinality(Admitted') <= Cardinality(Seen \cup {p}) /\ Cardinality(Admitted') \in Nat
        /\ Cardinality(Seen \cup {p}) \in Nat
    <3>1. Admitted' \in SUBSET (Seen \cup {p}) /\ Seen \cup {p} \in SUBSET Proc
      BY <1>1, <1>3
    <3> QED  BY <3>1, Counts
  <2> QED  BY <1>2, <2>1, <2>2
<1>5. Cardinality(LiveSlots(Admitted')) <= policy.workers
  <2>1. CASE Nested(p)
    <3>1. LiveSlots(Admitted') \in SUBSET LiveSlots(Admitted) /\ LiveSlots(Admitted) \in SUBSET Proc
      BY <2>1, <1>1, <1>3 DEF LiveSlots
    <3> QED  BY <1>2, <3>1, Counts
  <2>2. CASE ~Nested(p)
    <3>1. /\ LiveSlots(Seen) \in SUBSET Proc
          /\ LiveSlots(Seen) \cup {p} \in SUBSET Proc
          /\ LiveSlots(Admitted') \in SUBSET (LiveSlots(Seen) \cup {p})
      BY <1>1, <1>3 DEF LiveSlots
    <3>2. Cardinality(LiveSlots(Seen) \cup {p}) <= Cardinality(LiveSlots(Seen)) + 1
          /\ Cardinality(LiveSlots(Seen)) \in Nat
      BY <3>1, Counts, FS_AddElement
    <3>3. /\ Cardinality(LiveSlots(Admitted')) <= Cardinality(LiveSlots(Seen) \cup {p})
          /\ Cardinality(LiveSlots(Admitted')) \in Nat
          /\ Cardinality(LiveSlots(Seen) \cup {p}) \in Nat
      BY <3>1, Counts
    <3> QED  BY <1>2, <2>2, <3>2, <3>3
  <2> QED  BY <2>1, <2>2
<1>6. Covered'
  BY <1>1 DEF Covered
<1> QED  BY <1>1, <1>4, <1>5, <1>6 DEF Budget, WithinBudget, LiveSlots, Nested

(* What the admitted are is decided by pc and point alone.                 *)
LEMMA WhoIsAdmitted ==
    /\ Admitted = {p \in Proc : IF p \in Point THEN point[p] = "running"
                                ELSE pc[p] \notin {"none", "waiting", "gone"}}
    /\ Admitted' = {p \in Proc : IF p \in Point THEN point'[p] = "running"
                                 ELSE pc'[p] \notin {"none", "waiting", "gone"}}
BY DEF Admitted, Point

LEMMA BudgetNext ==
    ASSUME TypeOK, Budget, [Next]_vars
    PROVE  Budget'
<1> Lab \subseteq Job /\ Fill \subseteq Job /\ Job \subseteq Job \cup Guest
    /\ (Job \cup Guest) \cap Point = {} /\ Proc = Job \cup Guest \cup Point
  BY JobsAssumption DEF Job, Proc, Point
<1> /\ pc \in [Job \cup Guest -> Standing]
    /\ point \in [Point -> {"none", "waiting", "running"}]
    /\ policy \in Policy /\ lease \subseteq Proc /\ Budget
  BY DEF TypeOK, Standing, Point
<1> DEFINE Out(p) == pc'[p] \in {"none", "waiting", "gone"}
           In(p)  == pc[p] \notin {"none", "waiting", "gone"}
(* Nobody comes in: every process is where it was, on its way through, or  *)
(* out; a lease is dropped only with its process.                          *)
<1>1. ASSUME UNCHANGED policy,
             \A p \in Job \cup Guest : Out(p) \/ pc'[p] = pc[p] \/ In(p),
             \A p \in Point : point'[p] # "running" \/ point'[p] = point[p],
             \/ UNCHANGED lease
             \/ \E p \in Job \cup Guest : Out(p) /\ lease' \in {lease, lease \ {p}}
      PROVE  Budget'
  <2>1. Admitted' \subseteq Admitted
    BY <1>1, WhoIsAdmitted
  <2>2. Admitted' \subseteq lease'
    <3>1. Admitted' \subseteq lease
      BY <2>1 DEF Budget, Covered
    <3> QED  BY <1>1, <3>1, WhoIsAdmitted
  <2> QED  BY <1>1, <2>1, <2>2, Shrinks
<1>2. ASSUME NEW j \in Job, Server(j) PROVE Budget'
  <2>1. UNCHANGED <<policy, point, lease>>
    BY <1>2 DEF Server, Create, Launch, Cancel, Delete, Reap, FailStale,
       pool_vars
  <2>2. \A p \in Job \cup Guest : Out(p) \/ pc'[p] = pc[p]
    BY <1>2 DEF Server, Create, Launch, Cancel, Delete, Reap, FailStale
  <2> QED  BY <2>1, <2>2, <1>1
<1>3. ASSUME NEW j \in Job,
             \/ Dismissed(j) \/ Beat(j) \/ Complete(j) \/ Stopped(j) \/ Fail(j) \/ Leave(j)
             \/ Crash(j) \/ Age(j) \/ Stall(j)
      PROVE  Budget'
  <2>1. CASE Dismissed(j) \/ Beat(j) \/ Age(j) \/ Stall(j)
    BY <2>1, <1>1 DEF Dismissed, Beat, Age, Stall, pool_vars
  <2>2. CASE Complete(j) \/ Stopped(j) \/ Fail(j)
    BY <2>2, <1>1 DEF Complete, Stopped, Fail, Record, pool_vars
  <2>3. CASE Leave(j)
    BY <2>3, <1>1 DEF Leave, pool_vars
  <2>4. CASE Crash(j)
    BY <2>4, <1>1 DEF Crash, Point
  <2> QED  BY <1>3, <2>1, <2>2, <2>3, <2>4
<1>4. ASSUME NEW l \in Lab, LabWorker(l) PROVE Budget'
  <2>1. CASE Start(l) \/ Uncleaned(l) \/ Inline(l) \/ Drain(l) \/ ClosePool(l)
    BY <2>1, <1>1 DEF Start, Uncleaned, Inline, Drain, ClosePool, pool_vars
  <2>2. CASE OpenPool(l)
    BY <2>2, <1>1 DEF OpenPool, Point
  <2>3. CASE BreakPool(l)
    BY <2>3, <1>1 DEF BreakPool, Record, Point
  <2> QED  BY <1>4, <2>1, <2>2, <2>3 DEF LabWorker
<1>5. ASSUME NEW f \in Fill, FillWorker(f) PROVE Budget'
  BY <1>5, <1>1 DEF FillWorker, Lock, TakeOver, Refused, Record, Locked, Pulse,
     Unlock, pool_vars
<1>6. ASSUME NEW j \in Job \cup Guest, AdmitJob(j) PROVE Budget'
  <2>1. Admitted' \subseteq Admitted \cup {j}
    BY <1>6, WhoIsAdmitted DEF AdmitJob
  <2> QED  BY <1>6, <2>1, Admits DEF AdmitJob
<1>7. ASSUME NEW p \in Point, AdmitPoint(p) PROVE Budget'
  <2>1. Admitted' \subseteq Admitted \cup {p}
    BY <1>7, WhoIsAdmitted DEF AdmitPoint
  <2> QED  BY <1>7, <2>1, Admits DEF AdmitPoint
<1>8. ASSUME NEW p \in Point, PointEnds(p) PROVE Budget'
  BY <1>8, <1>1 DEF PointEnds
<1>9. ASSUME NEW g \in Guest, Validate(g) \/ Validated(g) PROVE Budget'
  <2>1. CASE Validate(g)
    BY <2>1, <1>1 DEF Validate, pool_vars
  <2>2. CASE Validated(g)
    BY <2>2, <1>1 DEF Validated, pool_vars
  <2> QED  BY <1>9, <2>1, <2>2
<1>10. CASE Sweep \/ LockAges \/ UNCHANGED vars
  BY <1>10, <1>1 DEF Sweep, LockAges, vars, pool_vars
<1>11. CASE Restart
  BY <1>11, <1>1 DEF Restart, pool_vars
<1> QED
  BY <1>2, <1>3, <1>4, <1>5, <1>6, <1>7, <1>8, <1>9, <1>10, <1>11 DEF Next,
     AnyWorker, Point

(* Every set of processes that are ever admitted at once fits the budget   *)
(* and the slots, however they crash, are cancelled or restarted, and for  *)
(* any number of them (resources.ResourceGuard.__enter__, sweep).          *)
THEOREM BudgetHolds == Spec => []WithinBudget
<1>1. Init => Budget
  <2> SUFFICES ASSUME Init PROVE Budget
    OBVIOUS
  <2>1. Admitted = {}
    BY DEF Init, Admitted, Proc
  <2>2. policy.research \in Nat /\ policy.workers \in Nat
    BY JobsAssumption DEF Init, Policies
  <2>3. {p \in Admitted : ~Nested(p)} = {} /\ Cardinality({}) = 0
    BY <2>1, FS_EmptySet
  <2> QED  BY <2>1, <2>2, <2>3 DEF Budget, Covered, WithinBudget
<1>2. TypeOK /\ Budget /\ [Next]_vars => Budget'
  BY BudgetNext
<1>3. Budget => WithinBudget
  BY DEF Budget
<1> QED  BY <1>1, <1>2, <1>3, TypeCorrect, PTL DEF Spec

-----------------------------------------------------------------------------
(* The library.  A table's ids are numbers with a largest, so the next one  *)
(* is not in use.                                                           *)

Bounded(S) == S \subseteq Nat /\ \E b \in Nat : \A x \in S : x <= b

StrategyRow == [name : Name, head : Nat]
VersionRow  == [of : Nat, no : Nat, code : Code, message : Message \cup {"created"}]
RunRow      == [of : Nat, version : Nat, code : Code,
                over : BOOLEAN, archived : BOOLEAN, stale : BOOLEAN]
Busy        == [at : {"storing"}, name : Name, code : Code]
               \cup [at : {"deleting"}, of : Nat] \cup [at : {"starting"}, row : RunRow]

LibraryTypes ==
    /\ strategies \in [DOMAIN strategies -> StrategyRow] /\ Bounded(DOMAIN strategies)
    /\ versions \in [DOMAIN versions -> VersionRow] /\ Bounded(DOMAIN versions)
    /\ runs \in [DOMAIN runs -> RunRow] /\ Bounded(DOMAIN runs)
    /\ doing \in [Editor -> {NotBusy} \cup Busy]

\* What a row that is not stale names is in its strategy's history.
Kept(filed) ==
    ~filed.stale => /\ filed.version \in DOMAIN versions
                    /\ versions[filed.version].of = filed.of
                    /\ versions[filed.version].code = filed.code

\* A version is of a strategy there is.
VersionsReferred == \A v \in DOMAIN versions : versions[v].of \in DOMAIN strategies

\* A run that is being started has read what it names.
StartsKeepTheirCode == \A c \in Editor : doing[c].at = "starting" => Kept(doing[c].row)

LibraryInv ==
    /\ LibraryTypes /\ VersionsReferred /\ HistoryIsWhole
    /\ NamedIsKept /\ StartsKeepTheirCode

LEMMA GreatestOf ==
    ASSUME NEW S \in SUBSET Nat, S # {}, Bounded(S)
    PROVE  Max(S) \in S /\ \A x \in S : x <= Max(S)
<1>1. PICK b \in Nat : \A x \in S : x <= b
  BY DEF Bounded
<1> DEFINE T == {b - x : x \in S}
<1>2. T \in SUBSET Nat /\ T # {}
  <2>1. \A x \in S : b - x \in Nat
    BY <1>1
  <2>2. T # {}
    OBVIOUS
  <2> QED  BY <2>1, <2>2
<1>3. PICK t \in T : \A u \in T : ~(<<u, t>> \in OpToRel(<, Nat))
  <2> HIDE DEF T
  <2> QED  BY <1>2, NatLessThanWellFounded, WFMin
<1>4. PICK m \in S : t = b - m
  BY <1>3
<1>5. \A x \in S : x <= m
  <2> SUFFICES ASSUME NEW x \in S PROVE x <= m
    OBVIOUS
  <2>1. b - x \in T /\ b - x \in Nat /\ t \in Nat
    BY <1>2
  <2>2. ~(b - x < t)
    <3> HIDE DEF T
    <3>1. <<b - x, t>> \in Nat \X Nat
      BY <2>1
    <3> QED  BY <3>1, <2>1, <1>3 DEF OpToRel
  <2> HIDE DEF T
  <2> QED  BY <2>1, <2>2, <1>4
<1> QED  BY <1>4, <1>5 DEF Max

(* A row that is put into a table is there, and the others stay.           *)
LEMMA PutRow ==
    ASSUME NEW Of, NEW table, table \in [DOMAIN table -> Of], Bounded(DOMAIN table),
           NEW id \in Nat, NEW filed \in Of
    PROVE  /\ With(table, id, filed) \in [DOMAIN table \cup {id} -> Of]
           /\ DOMAIN With(table, id, filed) = DOMAIN table \cup {id}
           /\ With(table, id, filed)[id] = filed
           /\ \A i \in DOMAIN table \ {id} : With(table, id, filed)[i] = table[i]
           /\ Bounded(DOMAIN table \cup {id})
<1>1. PICK b \in Nat : \A x \in DOMAIN table : x <= b
  BY DEF Bounded
<1>2. \A x \in DOMAIN table \cup {id} : x \in Nat /\ x <= b + id
  BY <1>1 DEF Bounded
<1>3. b + id \in Nat
  BY <1>1
<1>4. Bounded(DOMAIN table \cup {id})
  BY <1>2, <1>3 DEF Bounded
<1> QED  BY <1>4 DEF With

(* The id of a new row is not in use.                                       *)
LEMMA NewIdIsNew ==
    ASSUME NEW table, Bounded(DOMAIN table)
    PROVE  NewId(table) \in Nat /\ NewId(table) \notin DOMAIN table
<1>1. CASE DOMAIN table = {}
  BY <1>1 DEF NewId
<1>2. CASE DOMAIN table # {}
  <2> DEFINE m == Max(DOMAIN table)
  <2>1. m \in DOMAIN table /\ (\A x \in DOMAIN table : x <= m) /\ m \in Nat
    BY <1>2, GreatestOf DEF Bounded
  <2>2. NewId(table) = m + 1
    BY <1>2 DEF NewId
  <2> HIDE DEF m
  <2>3. m + 1 \notin DOMAIN table
    BY <2>1
  <2> QED  BY <2>1, <2>2, <2>3
<1> QED  BY <1>1, <1>2

(* Fewer rows are bounded too.                                              *)
LEMMA FewerRows ==
    ASSUME NEW Of, NEW table, table \in [DOMAIN table -> Of], Bounded(DOMAIN table),
           NEW S \in SUBSET DOMAIN table
    PROVE  /\ Restrict(table, S) \in [S -> Of] /\ DOMAIN Restrict(table, S) = S
           /\ \A i \in S : Restrict(table, S)[i] = table[i]
           /\ Bounded(S)
BY DEF Restrict, Bounded

(* A history's versions are finitely many.                                  *)
LEMMA HistoryIsFinite ==
    ASSUME LibraryTypes, NEW s
    PROVE  IsFiniteSet(VersionsOf(s)) /\ Cardinality(VersionsOf(s)) \in Nat
<1>1. PICK b \in Nat : \A x \in DOMAIN versions : x <= b
  BY DEF LibraryTypes, Bounded
<1>2. VersionsOf(s) \in SUBSET Nat /\ \A x \in VersionsOf(s) : x <= b
  BY <1>1 DEF LibraryTypes, Bounded, VersionsOf
<1> QED  BY <1>1, <1>2, FS_BoundedSetOfNaturals, FS_CardinalityType

(* The number a version is given is one more than its strategy has.         *)
LEMMA NextNumber ==
    ASSUME LibraryTypes, NEW s, NEW n \in Nat, n = Cardinality(VersionsOf(s)),
           {versions[w].no : w \in VersionsOf(s)} = 1 .. n
    PROVE  (IF VersionsOf(s) = {} THEN 1
            ELSE Max({versions[w].no : w \in VersionsOf(s)}) + 1) = n + 1
<1>1. CASE VersionsOf(s) = {}
  <2>1. n = 0
    BY <1>1, FS_EmptySet
  <2> QED  BY <1>1, <2>1
<1>2. CASE VersionsOf(s) # {}
  <2>1. 1 .. n # {}
    BY <1>2
  <2>2. n \in 1 .. n /\ 1 .. n \in SUBSET Nat
    BY <2>1
  <2>3. Bounded(1 .. n)
    <3>1. \A x \in 1 .. n : x \in Nat /\ x <= n
      OBVIOUS
    <3> QED  BY <3>1 DEF Bounded
  <2>4. Max(1 .. n) \in 1 .. n /\ \A x \in 1 .. n : x <= Max(1 .. n)
    BY <2>1, <2>2, <2>3, GreatestOf
  <2> DEFINE m == Max(1 .. n)
  <2>5. m \in 1 .. n /\ n <= m
    BY <2>4, <2>2
  <2>6. m = n
    <3> HIDE DEF m
    <3> QED  BY <2>5
  <2> HIDE DEF m
  <2>7. Max({versions[w].no : w \in VersionsOf(s)}) = n
    BY <2>6 DEF m
  <2> QED  BY <2>7, <1>2
<1> QED  BY <1>1, <1>2

-----------------------------------------------------------------------------
(* A version that is added continues its strategy's history, and disturbs   *)
(* no other.                                                                *)
LEMMA InsertKeeps ==
    ASSUME LibraryInv, NEW s \in Nat, NEW name \in Name, NEW code \in Code,
           NEW message \in Message \cup {"created"},
           InsertVersion(s, name, code, message),
           \A t \in DOMAIN strategies \ {s} : strategies[t].name # name
    PROVE  /\ strategies' \in [DOMAIN strategies' -> StrategyRow] /\ Bounded(DOMAIN strategies')
           /\ versions' \in [DOMAIN versions' -> VersionRow] /\ Bounded(DOMAIN versions')
           /\ DOMAIN strategies \subseteq DOMAIN strategies'
           /\ \A v \in DOMAIN versions : v \in DOMAIN versions' /\ versions'[v] = versions[v]
           /\ VersionsReferred' /\ HistoryIsWhole'
<1> DEFINE v == NewId(versions)
           n == Cardinality(VersionsOf(s))
           filed == [of |-> s, no |-> n + 1, code |-> code, message |-> message]
           entry == [name |-> name, head |-> v]
<1>1. v \in Nat /\ v \notin DOMAIN versions
  BY NewIdIsNew DEF LibraryInv, LibraryTypes
<1>2. n \in Nat /\ IsFiniteSet(VersionsOf(s))
  BY HistoryIsFinite DEF LibraryInv
<1>3. {versions[w].no : w \in VersionsOf(s)} = 1 .. n
  <2>1. CASE s \in DOMAIN strategies
    BY <2>1 DEF LibraryInv, HistoryIsWhole
  <2>2. CASE s \notin DOMAIN strategies
    <3>1. VersionsOf(s) = {}
      BY <2>2 DEF LibraryInv, VersionsReferred, VersionsOf
    <3>2. n = 0
      BY <3>1, FS_EmptySet
    <3> HIDE DEF n
    <3> QED  BY <3>1, <3>2
  <2> QED  BY <2>1, <2>2
<1>4. versions' = With(versions, v, filed) /\ strategies' = With(strategies, s, entry)
  <2>1. (IF VersionsOf(s) = {} THEN 1
         ELSE Max({versions[w].no : w \in VersionsOf(s)}) + 1) = n + 1
    <3>1. LibraryTypes
      BY DEF LibraryInv
    <3> QED  BY <1>2, <1>3, <3>1, NextNumber
  <2> QED  BY <2>1 DEF InsertVersion
<1> HIDE DEF v, n
<1>5. filed \in VersionRow /\ entry \in StrategyRow
  BY <1>1, <1>2 DEF VersionRow, StrategyRow
<1> HIDE DEF filed, entry
<1>6. /\ versions' \in [DOMAIN versions \cup {v} -> VersionRow]
      /\ DOMAIN versions' = DOMAIN versions \cup {v} /\ versions'[v] = filed
      /\ \A w \in DOMAIN versions : versions'[w] = versions[w]
      /\ Bounded(DOMAIN versions \cup {v})
  <2>1. versions \in [DOMAIN versions -> VersionRow] /\ Bounded(DOMAIN versions)
    BY DEF LibraryInv, LibraryTypes
  <2>2. /\ With(versions, v, filed) \in [DOMAIN versions \cup {v} -> VersionRow]
        /\ DOMAIN With(versions, v, filed) = DOMAIN versions \cup {v}
        /\ With(versions, v, filed)[v] = filed
        /\ \A i \in DOMAIN versions \ {v} : With(versions, v, filed)[i] = versions[i]
        /\ Bounded(DOMAIN versions \cup {v})
    BY <2>1, <1>1, <1>5, PutRow
  <2> QED  BY <2>2, <1>1, <1>4
<1>7. /\ strategies' \in [DOMAIN strategies \cup {s} -> StrategyRow]
      /\ DOMAIN strategies' = DOMAIN strategies \cup {s} /\ strategies'[s] = entry
      /\ \A t \in DOMAIN strategies \ {s} : strategies'[t] = strategies[t]
      /\ Bounded(DOMAIN strategies \cup {s})
  <2>1. strategies \in [DOMAIN strategies -> StrategyRow] /\ Bounded(DOMAIN strategies)
    BY DEF LibraryInv, LibraryTypes
  <2>2. /\ With(strategies, s, entry) \in [DOMAIN strategies \cup {s} -> StrategyRow]
        /\ DOMAIN With(strategies, s, entry) = DOMAIN strategies \cup {s}
        /\ With(strategies, s, entry)[s] = entry
        /\ \A i \in DOMAIN strategies \ {s} : With(strategies, s, entry)[i] = strategies[i]
        /\ Bounded(DOMAIN strategies \cup {s})
    BY <2>1, <1>5, PutRow
  <2> QED  BY <2>2, <1>4
<1>8. filed.of = s /\ filed.no = n + 1 /\ entry.name = name /\ entry.head = v
  BY DEF filed, entry
<1>9. VersionsReferred'
  BY <1>6, <1>7, <1>8 DEF LibraryInv, VersionsReferred
<1>10. VersionsOf(s)' = VersionsOf(s) \cup {v}
  BY <1>6, <1>8 DEF VersionsOf
<1>11. Cardinality(VersionsOf(s)') = n + 1
  <2>1. v \notin VersionsOf(s)
    BY <1>1 DEF VersionsOf
  <2> QED  BY <2>1, <1>2, <1>10, FS_AddElement DEF n
<1>12. {versions'[w].no : w \in VersionsOf(s)'} = 1 .. n + 1
  <2>1. \A w \in VersionsOf(s) : versions'[w] = versions[w]
    BY <1>6 DEF VersionsOf
  <2>2. {versions'[w].no : w \in VersionsOf(s) \cup {v}}
            = {versions[w].no : w \in VersionsOf(s)} \cup {n + 1}
    BY <2>1, <1>6, <1>8
  <2>3. (1 .. n) \cup {n + 1} = 1 .. n + 1
    BY <1>2
  <2> QED  BY <2>2, <2>3, <1>3, <1>10
<1>13. \A t \in DOMAIN strategies \ {s} : VersionsOf(t)' = VersionsOf(t)
  BY <1>6, <1>8 DEF VersionsOf
<1>14. HistoryIsWhole'
  <2> SUFFICES ASSUME NEW t \in DOMAIN strategies'
               PROVE  /\ \A u \in DOMAIN strategies' \ {t} : strategies'[u].name # strategies'[t].name
                      /\ {versions'[w].no : w \in VersionsOf(t)'} = 1 .. Cardinality(VersionsOf(t)')
                      /\ strategies'[t].head \in VersionsOf(t)'
                      /\ versions'[strategies'[t].head].no = Cardinality(VersionsOf(t)')
    BY DEF HistoryIsWhole
  <2>1. \A u \in DOMAIN strategies' \ {t} : strategies'[u].name # strategies'[t].name
    BY <1>7, <1>8 DEF LibraryInv, HistoryIsWhole
  <2>2. CASE t = s
    BY <2>1, <2>2, <1>6, <1>7, <1>8, <1>10, <1>11, <1>12
  <2>3. CASE t # s
    <3>1. t \in DOMAIN strategies \ {s} /\ strategies'[t] = strategies[t]
      BY <2>3, <1>7
    <3>2. VersionsOf(t)' = VersionsOf(t)
      BY <3>1, <1>13
    <3>3. \A w \in VersionsOf(t) : versions'[w] = versions[w]
      BY <1>6 DEF VersionsOf
    <3>4. {versions'[w].no : w \in VersionsOf(t)} = {versions[w].no : w \in VersionsOf(t)}
      BY <3>3
    <3>5. /\ {versions[w].no : w \in VersionsOf(t)} = 1 .. Cardinality(VersionsOf(t))
          /\ strategies[t].head \in VersionsOf(t)
          /\ versions[strategies[t].head].no = Cardinality(VersionsOf(t))
      BY <3>1 DEF LibraryInv, HistoryIsWhole
    <3> QED  BY <2>1, <3>1, <3>2, <3>3, <3>4, <3>5
  <2> QED  BY <2>2, <2>3
<1> QED  BY <1>6, <1>7, <1>9, <1>14

(* A step that adds a version keeps the invariant if it adds no start.      *)
LEMMA InsertKeepsInv ==
    ASSUME LibraryInv, NEW s \in Nat, NEW name \in Name, NEW code \in Code,
           NEW message \in Message \cup {"created"},
           InsertVersion(s, name, code, message),
           \A t \in DOMAIN strategies \ {s} : strategies[t].name # name,
           UNCHANGED runs, doing' \in [Editor -> {NotBusy} \cup Busy],
           \A c \in Editor : doing'[c] \in {doing[c], NotBusy}
    PROVE  LibraryInv'
<1>1. /\ strategies' \in [DOMAIN strategies' -> StrategyRow] /\ Bounded(DOMAIN strategies')
      /\ versions' \in [DOMAIN versions' -> VersionRow] /\ Bounded(DOMAIN versions')
      /\ DOMAIN strategies \subseteq DOMAIN strategies'
      /\ \A v \in DOMAIN versions : v \in DOMAIN versions' /\ versions'[v] = versions[v]
      /\ VersionsReferred' /\ HistoryIsWhole'
  BY InsertKeeps
<1>2. LibraryTypes'
  BY <1>1 DEF LibraryInv, LibraryTypes
<1>3. NamedIsKept'
  BY <1>1 DEF LibraryInv, NamedIsKept
<1>4. StartsKeepTheirCode'
  <2>1. \A c \in Editor : doing'[c].at = "starting" => doing'[c] = doing[c]
    BY DEF NotBusy
  <2>2. \A c \in Editor : doing'[c].at = "starting" => Kept(doing[c].row)
    BY <2>1 DEF LibraryInv, StartsKeepTheirCode
  <2> QED  BY <2>1, <2>2, <1>1 DEF StartsKeepTheirCode, Kept
<1> QED  BY <1>1, <1>2, <1>3, <1>4 DEF LibraryInv

(* What a history is does not depend on the runs.                           *)
LEMMA HistoryStays ==
    ASSUME LibraryInv, UNCHANGED <<strategies, versions>>,
           runs' \in [DOMAIN runs' -> RunRow], Bounded(DOMAIN runs'),
           doing' \in [Editor -> {NotBusy} \cup Busy],
           \A r \in DOMAIN runs' :
               /\ runs'[r].version \in DOMAIN versions /\ runs'[r].of \in DOMAIN strategies
               /\ Kept(runs'[r]),
           \A c \in Editor : doing'[c].at = "starting" => Kept(doing'[c].row)
    PROVE  LibraryInv'
<1>1. LibraryTypes' /\ VersionsReferred'
  BY DEF LibraryInv, LibraryTypes, VersionsReferred
<1>2. HistoryIsWhole'
  <2>1. strategies' = strategies /\ versions' = versions
    OBVIOUS
  <2>2. \A t : VersionsOf(t)' = VersionsOf(t)
    BY <2>1 DEF VersionsOf
  <2>3. \A t : {versions'[v].no : v \in VersionsOf(t)'} = {versions[v].no : v \in VersionsOf(t)}
    BY <2>1, <2>2
  <2> QED  BY <2>1, <2>2, <2>3 DEF LibraryInv, HistoryIsWhole
<1>3. NamedIsKept'
  BY DEF NamedIsKept, Kept
<1>4. StartsKeepTheirCode'
  BY DEF StartsKeepTheirCode, Kept
<1> QED  BY <1>1, <1>2, <1>3, <1>4 DEF LibraryInv

LEMMA LibraryFacts ==
    ASSUME LibraryInv
    PROVE  /\ runs \in [DOMAIN runs -> RunRow] /\ Bounded(DOMAIN runs)
           /\ doing \in [Editor -> {NotBusy} \cup Busy]
           /\ \A r \in DOMAIN runs :
                 /\ runs[r].version \in DOMAIN versions /\ runs[r].of \in DOMAIN strategies
                 /\ Kept(runs[r])
           /\ \A c \in Editor : doing[c].at = "starting" => Kept(doing[c].row)
BY DEF LibraryInv, LibraryTypes, NamedIsKept, StartsKeepTheirCode, Kept

(* A strategy is deleted with its versions and its runs; what others name   *)
(* stays, and whoever was starting a run of it holds what is no more.       *)
LEMMA DeleteKeeps ==
    ASSUME LibraryInv, NEW c \in Editor, DeleteStrategy(c)
    PROVE  LibraryInv'
<1> DEFINE s == doing[c].of
<1> USE LibraryFacts
<1>1. CASE /\ \E r \in DOMAIN runs \ RunsOf(s) : runs[r].version \in VersionsOf(s)
           /\ doing' = [doing EXCEPT ![c] = NotBusy]
           /\ UNCHANGED <<strategies, versions, runs>>
  <2>1. \A d \in Editor : doing'[d] \in {doing[d], NotBusy}
    BY <1>1
  <2>2. doing' \in [Editor -> {NotBusy} \cup Busy]
    BY <1>1
  <2>3. \A d \in Editor : doing'[d].at = "starting" => Kept(doing'[d].row)
    BY <2>1 DEF NotBusy
  <2> QED  BY <1>1, <2>2, <2>3, HistoryStays
<1>2. CASE /\ \A r \in DOMAIN runs \ RunsOf(s) : runs[r].version \notin VersionsOf(s)
           /\ runs' = Restrict(runs, DOMAIN runs \ RunsOf(s))
           /\ versions' = Restrict(versions, DOMAIN versions \ VersionsOf(s))
           /\ strategies' = Restrict(strategies, DOMAIN strategies \ {s})
           /\ doing' = [d \in Editor |->
                           IF d = c THEN NotBusy
                           ELSE IF doing[d].at = "starting" /\ doing[d].row.of = s
                                THEN [doing[d] EXCEPT !.row.stale = TRUE] ELSE doing[d]]
  <2>0. LibraryTypes
    BY DEF LibraryInv
  <2> HIDE DEF s
  <2>1. /\ strategies' \in [DOMAIN strategies' -> StrategyRow]
        /\ DOMAIN strategies' = DOMAIN strategies \ {s} /\ Bounded(DOMAIN strategies')
        /\ \A t \in DOMAIN strategies' : strategies'[t] = strategies[t]
    BY <1>2, <2>0 DEF LibraryTypes, Bounded, Restrict
  <2>2. /\ versions' \in [DOMAIN versions' -> VersionRow]
        /\ DOMAIN versions' = DOMAIN versions \ VersionsOf(s) /\ Bounded(DOMAIN versions')
        /\ \A v \in DOMAIN versions' : versions'[v] = versions[v]
    BY <1>2, <2>0 DEF LibraryTypes, Bounded, Restrict
  <2>3. /\ runs' \in [DOMAIN runs' -> RunRow]
        /\ DOMAIN runs' = DOMAIN runs \ RunsOf(s) /\ Bounded(DOMAIN runs')
        /\ \A r \in DOMAIN runs' : runs'[r] = runs[r]
    BY <1>2, <2>0 DEF LibraryTypes, Bounded, Restrict
  <2>4. \A d \in Editor :
            \/ doing'[d] \in {doing[d], NotBusy}
            \/ /\ doing[d].at = "starting" /\ doing'[d] \in Busy
               /\ doing'[d].at = "starting" /\ doing'[d].row.stale
    <3> SUFFICES ASSUME NEW d \in Editor, d # c, doing[d].at = "starting", doing[d].row.of = s
                 PROVE  /\ doing'[d] \in Busy
                        /\ doing'[d].at = "starting" /\ doing'[d].row.stale
      BY <1>2
    <3>1. doing'[d] = [doing[d] EXCEPT !.row.stale = TRUE]
      BY <1>2
    <3>2. doing[d] \in [at : {"starting"}, row : RunRow]
      BY DEF Busy, NotBusy
    <3>3. doing'[d].row = [doing[d].row EXCEPT !.stale = TRUE] /\ doing'[d].at = "starting"
          /\ doing'[d] = [at |-> "starting", row |-> doing'[d].row]
      BY <3>1, <3>2
    <3>4. doing'[d].row \in RunRow /\ doing'[d].row.stale = TRUE
      BY <3>2, <3>3 DEF RunRow
    <3> QED  BY <3>3, <3>4 DEF Busy
  <2>5. doing' \in [Editor -> {NotBusy} \cup Busy]
    <3>1. \A d \in Editor : doing'[d] \in {NotBusy} \cup Busy
      BY <2>4
    <3>2. doing' = [d \in Editor |-> doing'[d]]
      BY <1>2
    <3> QED  BY <3>1, <3>2
  <2>6. LibraryTypes'
    BY <2>1, <2>2, <2>3, <2>5 DEF LibraryTypes
  <2>7. VersionsReferred'
    BY <2>1, <2>2 DEF LibraryInv, VersionsReferred, VersionsOf
  <2>8. \A t \in DOMAIN strategies' : VersionsOf(t)' = VersionsOf(t)
    BY <2>1, <2>2 DEF VersionsOf
  <2>9. HistoryIsWhole'
    <3> SUFFICES ASSUME NEW t \in DOMAIN strategies'
                 PROVE  /\ \A u \in DOMAIN strategies' \ {t} : strategies'[u].name # strategies'[t].name
                        /\ {versions'[w].no : w \in VersionsOf(t)'} = 1 .. Cardinality(VersionsOf(t)')
                        /\ strategies'[t].head \in VersionsOf(t)'
                        /\ versions'[strategies'[t].head].no = Cardinality(VersionsOf(t)')
      BY DEF HistoryIsWhole
    <3>1. /\ \A u \in DOMAIN strategies \ {t} : strategies[u].name # strategies[t].name
          /\ {versions[w].no : w \in VersionsOf(t)} = 1 .. Cardinality(VersionsOf(t))
          /\ strategies[t].head \in VersionsOf(t)
          /\ versions[strategies[t].head].no = Cardinality(VersionsOf(t))
      BY <2>1 DEF LibraryInv, HistoryIsWhole
    <3>2. VersionsOf(t)' = VersionsOf(t)
      BY <2>8
    <3>3. \A w \in VersionsOf(t) : w \in DOMAIN versions'
      BY <3>2 DEF VersionsOf
    <3>4. {versions'[w].no : w \in VersionsOf(t)} = {versions[w].no : w \in VersionsOf(t)}
      BY <3>3, <2>2
    <3> QED  BY <3>1, <3>2, <3>3, <3>4, <2>1, <2>2
  <2>10. NamedIsKept'
    <3> SUFFICES ASSUME NEW r \in DOMAIN runs'
                 PROVE  /\ runs'[r].version \in DOMAIN versions' /\ runs'[r].of \in DOMAIN strategies'
                        /\ ~runs'[r].stale => /\ versions'[runs'[r].version].of = runs'[r].of
                                              /\ versions'[runs'[r].version].code = runs'[r].code
      BY DEF NamedIsKept
    <3>1. /\ r \in DOMAIN runs \ RunsOf(s) /\ runs'[r] = runs[r]
          /\ runs[r].version \in DOMAIN versions /\ runs[r].of \in DOMAIN strategies /\ Kept(runs[r])
      BY <2>3
    <3>2. runs[r].version \notin VersionsOf(s) /\ runs[r].of # s
      BY <3>1, <1>2 DEF RunsOf, s
    <3> QED  BY <3>1, <3>2, <2>1, <2>2 DEF Kept
  <2>11. StartsKeepTheirCode'
    <3> SUFFICES ASSUME NEW d \in Editor, doing'[d].at = "starting", ~doing'[d].row.stale
                 PROVE  /\ doing'[d].row.version \in DOMAIN versions'
                        /\ versions'[doing'[d].row.version].of = doing'[d].row.of
                        /\ versions'[doing'[d].row.version].code = doing'[d].row.code
      BY DEF StartsKeepTheirCode, Kept
    <3>1. doing'[d] = doing[d] /\ doing[d].at = "starting" /\ Kept(doing[d].row)
      BY <2>4 DEF NotBusy
    <3>2. doing[d].row.of # s
      <4> SUFFICES ASSUME doing[d].row.of = s PROVE FALSE
        OBVIOUS
      <4>1. d # c
        BY <3>1, <1>2 DEF NotBusy
      <4>2. doing'[d] = [doing[d] EXCEPT !.row.stale = TRUE]
        BY <4>1, <3>1, <1>2
      <4>3. doing[d] \in [at : {"starting"}, row : RunRow]
        BY <3>1 DEF Busy, NotBusy
      <4>4. doing'[d].row.stale = TRUE
        BY <4>2, <4>3 DEF RunRow
      <4> QED  BY <4>4
    <3> QED  BY <3>1, <3>2, <2>2 DEF Kept, VersionsOf
  <2> QED  BY <2>6, <2>7, <2>9, <2>10, <2>11 DEF LibraryInv
<1> QED  BY <1>1, <1>2 DEF DeleteStrategy

(* A run's rows and the marks on them keep what the rows name.              *)
LEMMA RunsKeep ==
    ASSUME LibraryInv, UNCHANGED <<strategies, versions>>,
           \/ \E c \in Editor : CreateRun(c)
           \/ \E r \in DOMAIN runs : FinishRun(r) \/ Archive(r) \/ DeleteRun(r)
    PROVE  LibraryInv'
<1> USE LibraryFacts
<1>1. ASSUME NEW c \in Editor, CreateRun(c) PROVE LibraryInv'
  <2>1. doing' \in [Editor -> {NotBusy} \cup Busy]
    BY <1>1 DEF CreateRun
  <2>2. \A d \in Editor : doing'[d].at = "starting" => Kept(doing'[d].row)
    <3>1. \A d \in Editor : doing'[d] \in {doing[d], NotBusy}
      BY <1>1 DEF CreateRun
    <3> QED  BY <3>1 DEF NotBusy
  <2> DEFINE filed == doing[c].row
             id == NewId(runs)
  <2>3. CASE UNCHANGED runs
    BY <2>1, <2>2, <2>3, HistoryStays
  <2>4. CASE /\ filed.of \in DOMAIN strategies /\ filed.version \in DOMAIN versions
             /\ runs' = With(runs, id, filed)
    <3>1. filed \in RunRow /\ Kept(filed)
      BY <1>1 DEF CreateRun, Busy, NotBusy
    <3>2. id \in Nat /\ id \notin DOMAIN runs
      BY NewIdIsNew
    <3> HIDE DEF filed, id
    <3>3. /\ With(runs, id, filed) \in [DOMAIN runs \cup {id} -> RunRow]
          /\ DOMAIN With(runs, id, filed) = DOMAIN runs \cup {id}
          /\ With(runs, id, filed)[id] = filed
          /\ \A i \in DOMAIN runs \ {id} : With(runs, id, filed)[i] = runs[i]
          /\ Bounded(DOMAIN runs \cup {id})
      BY <3>1, <3>2, PutRow
    <3>4. runs' \in [DOMAIN runs' -> RunRow] /\ Bounded(DOMAIN runs')
      BY <3>3, <2>4
    <3>5. \A r \in DOMAIN runs' :
              /\ runs'[r].version \in DOMAIN versions /\ runs'[r].of \in DOMAIN strategies
              /\ Kept(runs'[r])
      <4> SUFFICES ASSUME NEW r \in DOMAIN runs'
                   PROVE  /\ runs'[r].version \in DOMAIN versions /\ runs'[r].of \in DOMAIN strategies
                          /\ Kept(runs'[r])
        OBVIOUS
      <4>1. CASE r = id
        BY <4>1, <3>1, <3>3, <2>4
      <4>2. CASE r # id
        <5>1. r \in DOMAIN runs /\ runs'[r] = runs[r]
          BY <4>2, <3>3, <2>4
        <5> QED  BY <5>1
      <4> QED  BY <4>1, <4>2
    <3> QED  BY <3>4, <3>5, <2>1, <2>2, HistoryStays
  <2> QED  BY <1>1, <2>3, <2>4 DEF CreateRun
<1>2. ASSUME NEW r \in DOMAIN runs, FinishRun(r) \/ Archive(r) \/ DeleteRun(r) PROVE LibraryInv'
  <2>1. UNCHANGED doing
    BY <1>2 DEF FinishRun, Archive, DeleteRun
  <2>2. /\ runs' \in [DOMAIN runs' -> RunRow] /\ Bounded(DOMAIN runs')
        /\ DOMAIN runs' \subseteq DOMAIN runs
        /\ \A q \in DOMAIN runs' :
              /\ runs'[q].of = runs[q].of /\ runs'[q].version = runs[q].version
              /\ runs'[q].code = runs[q].code /\ runs'[q].stale = runs[q].stale
    <3>1. \A q \in DOMAIN runs : runs[q] \in RunRow
      OBVIOUS
    <3>2. CASE FinishRun(r)
      BY <3>1, <3>2 DEF FinishRun, RunRow
    <3>3. CASE Archive(r)
      BY <3>1, <3>3 DEF Archive, RunRow
    <3>4. CASE DeleteRun(r)
      BY <3>1, <3>4 DEF DeleteRun, Restrict, Bounded
    <3> QED  BY <1>2, <3>2, <3>3, <3>4
  <2>3. \A q \in DOMAIN runs' :
            /\ runs'[q].version \in DOMAIN versions /\ runs'[q].of \in DOMAIN strategies
            /\ Kept(runs'[q])
    <3> SUFFICES ASSUME NEW q \in DOMAIN runs'
                 PROVE  /\ runs'[q].version \in DOMAIN versions /\ runs'[q].of \in DOMAIN strategies
                        /\ Kept(runs'[q])
      OBVIOUS
    <3>1. /\ runs[q].version \in DOMAIN versions /\ runs[q].of \in DOMAIN strategies
          /\ Kept(runs[q])
      BY <2>2
    <3> QED  BY <2>2, <3>1 DEF Kept
  <2> QED  BY <2>1, <2>2, <2>3, HistoryStays
<1> QED  BY <1>1, <1>2

(* Reading for a run puts into its spec what the version holds.             *)
LEMMA ReadKeeps ==
    ASSUME LibraryInv, NEW c \in Editor, NEW s \in DOMAIN strategies, NEW v \in DOMAIN versions,
           ReadForRun(c, s, v)
    PROVE  LibraryInv'
<1> USE LibraryFacts
<1>1. Row(s, v) \in RunRow /\ Kept(Row(s, v))
  <2>1. versions[v] \in VersionRow /\ s \in Nat /\ v \in Nat
    BY DEF LibraryInv, LibraryTypes, Bounded
  <2>2. versions[v].code \in Code
    BY <2>1 DEF VersionRow
  <2> QED  BY <2>1, <2>2 DEF RunRow, Row, Kept, ReadForRun
<1>2. /\ doing' = [doing EXCEPT ![c] = [at |-> "starting", row |-> Row(s, v)]]
      /\ UNCHANGED <<strategies, versions, runs>>
  BY DEF ReadForRun
<1>3. [at |-> "starting", row |-> Row(s, v)] \in Busy
  BY <1>1 DEF Busy
<1>4. doing' \in [Editor -> {NotBusy} \cup Busy]
  BY <1>2, <1>3
<1>5. \A d \in Editor : doing'[d].at = "starting" => Kept(doing'[d].row)
  <2> SUFFICES ASSUME NEW d \in Editor, doing'[d].at = "starting" PROVE Kept(doing'[d].row)
    OBVIOUS
  <2>1. CASE d = c
    BY <2>1, <1>1, <1>2
  <2>2. CASE d # c
    <3>1. doing'[d] = doing[d]
      BY <2>2, <1>2
    <3> QED  BY <3>1
  <2> QED  BY <2>1, <2>2
<1> QED  BY <1>2, <1>4, <1>5, HistoryStays

(* Every operation of the library keeps the invariant.                      *)
LEMMA LibraryStep ==
    ASSUME LibraryInv, [LibraryNext]_library_vars
    PROVE  LibraryInv'
<1> USE LibraryFacts
<1>0. LibraryTypes
  BY DEF LibraryInv
<1>1. ASSUME NEW c \in Editor, NEW name \in Name, NEW code \in Code, CreateStrategy(c, name, code)
      PROVE  LibraryInv'
  <2>1. /\ InsertVersion(NewId(strategies), name, code, "created") /\ name \notin Taken
        /\ UNCHANGED <<runs, doing>>
    BY <1>1 DEF CreateStrategy, Stored
  <2>2. NewId(strategies) \in Nat
    BY <1>0, NewIdIsNew DEF LibraryTypes
  <2>3. \A t \in DOMAIN strategies \ {NewId(strategies)} : strategies[t].name # name
    BY <2>1 DEF Taken
  <2> QED  BY <2>1, <2>2, <2>3, InsertKeepsInv
<1>2. ASSUME NEW c \in Editor, NEW s \in DOMAIN strategies, NEW code \in Code, NEW message \in Message,
             Save(c, s, code, message)
      PROVE  LibraryInv'
  <2>1. InsertVersion(s, strategies[s].name, code, message) /\ UNCHANGED <<runs, doing>>
    BY <1>2 DEF Save
  <2>2. s \in Nat /\ strategies[s].name \in Name
    BY <1>0 DEF LibraryTypes, Bounded, StrategyRow
  <2>3. \A t \in DOMAIN strategies \ {s} : strategies[t].name # strategies[s].name
    BY DEF LibraryInv, HistoryIsWhole
  <2> QED  BY <2>1, <2>2, <2>3, InsertKeepsInv
<1>3. ASSUME NEW c \in Editor, NEW s \in DOMAIN strategies, NEW name \in Name, Rename(c, s, name)
      PROVE  LibraryInv'
  <2>1. /\ strategies' \in [DOMAIN strategies -> StrategyRow] /\ DOMAIN strategies' = DOMAIN strategies
        /\ \A t \in DOMAIN strategies : strategies'[t].head = strategies[t].head
        /\ strategies'[s].name = name
        /\ \A t \in DOMAIN strategies \ {s} : strategies'[t] = strategies[t] /\ strategies[t].name # name
    <3>1. \A t \in DOMAIN strategies : strategies[t] \in StrategyRow
      BY <1>0 DEF LibraryTypes
    <3> QED  BY <1>3, <3>1 DEF Rename, StrategyRow
  <2>2. UNCHANGED <<versions, runs, doing>>
    BY <1>3 DEF Rename
  <2>3. LibraryTypes' /\ VersionsReferred'
    BY <1>0, <2>1, <2>2 DEF LibraryInv, LibraryTypes, VersionsReferred
  <2>4. \A t : VersionsOf(t)' = VersionsOf(t)
    BY <2>2 DEF VersionsOf
  <2>5. \A t : {versions'[v].no : v \in VersionsOf(t)'} = {versions[v].no : v \in VersionsOf(t)}
    BY <2>2, <2>4
  <2>6. \A t, u \in DOMAIN strategies : t # u =>
            strategies'[u].name # strategies'[t].name
    BY <2>1 DEF LibraryInv, HistoryIsWhole
  <2>7. HistoryIsWhole'
    BY <2>1, <2>2, <2>4, <2>5, <2>6 DEF LibraryInv, HistoryIsWhole
  <2>8. NamedIsKept' /\ StartsKeepTheirCode'
    BY <2>1, <2>2 DEF LibraryInv, NamedIsKept, StartsKeepTheirCode, Kept
  <2> QED  BY <2>3, <2>7, <2>8 DEF LibraryInv
<1>4. ASSUME NEW c \in Editor, NEW name \in Name, NEW code \in Code, UniqueName(c, name, code)
      PROVE  LibraryInv'
  <2>1. PICK n \in Name : doing' = [doing EXCEPT ![c] = [at |-> "storing", name |-> n, code |-> code]]
    BY <1>4 DEF UniqueName
  <2>2. doing' \in [Editor -> {NotBusy} \cup Busy]
    BY <2>1 DEF Busy
  <2>3. \A d \in Editor : doing'[d].at = "starting" => doing'[d] = doing[d]
    BY <2>1
  <2>4. UNCHANGED <<strategies, versions, runs>>
    BY <1>4 DEF UniqueName
  <2> QED  BY <2>2, <2>3, <2>4, HistoryStays
<1>5. ASSUME NEW c \in Editor, StoreImported(c) PROVE LibraryInv'
  <2>1. doing' = [doing EXCEPT ![c] = NotBusy] /\ UNCHANGED runs
    BY <1>5 DEF StoreImported
  <2>2. doing' \in [Editor -> {NotBusy} \cup Busy] /\ \A d \in Editor : doing'[d] \in {doing[d], NotBusy}
    BY <2>1
  <2>3. CASE UNCHANGED <<strategies, versions>>
    <3>1. \A d \in Editor : doing'[d].at = "starting" => doing'[d] = doing[d]
      BY <2>2 DEF NotBusy
    <3> QED  BY <2>1, <2>2, <2>3, <3>1, HistoryStays
  <2>4. CASE Stored(doing[c].name, doing[c].code)
    <3> DEFINE name == doing[c].name
               code == doing[c].code
    <3>1. name \in Name /\ code \in Code
      BY <1>5 DEF StoreImported, Busy, NotBusy
    <3> HIDE DEF name, code
    <3>2. InsertVersion(NewId(strategies), name, code, "created") /\ name \notin Taken
      BY <2>4 DEF Stored, name, code
    <3>3. NewId(strategies) \in Nat
      BY <1>0, NewIdIsNew DEF LibraryTypes
    <3>4. \A t \in DOMAIN strategies \ {NewId(strategies)} : strategies[t].name # name
      BY <3>2 DEF Taken
    <3> QED  BY <3>1, <3>2, <3>3, <3>4, <2>1, <2>2, InsertKeepsInv
  <2> QED  BY <1>5, <2>3, <2>4 DEF StoreImported
<1>6. ASSUME NEW c \in Editor, NEW s \in DOMAIN strategies, BeginDelete(c, s) PROVE LibraryInv'
  <2>1. doing' = [doing EXCEPT ![c] = [at |-> "deleting", of |-> s]]
        /\ UNCHANGED <<strategies, versions, runs>>
    BY <1>6 DEF BeginDelete
  <2>2. s \in Nat
    BY <1>0 DEF LibraryTypes, Bounded
  <2>3. doing' \in [Editor -> {NotBusy} \cup Busy]
    BY <2>1, <2>2 DEF Busy
  <2>4. \A d \in Editor : doing'[d].at = "starting" => doing'[d] = doing[d]
    BY <2>1
  <2> QED  BY <2>1, <2>3, <2>4, HistoryStays
<1>7. CASE UNCHANGED library_vars
  BY <1>7, HistoryStays DEF library_vars
<1> QED
  BY <1>1, <1>2, <1>3, <1>4, <1>5, <1>6, <1>7, DeleteKeeps, RunsKeep, ReadKeeps
  DEF LibraryNext, CreateRun, FinishRun, Archive, DeleteRun

(* A strategy's history has no hole and no name is shared, and a run keeps  *)
(* the code it was started with, for any number of strategies, versions,    *)
(* runs and threads, however edits, imports, deletes and starts interleave. *)
THEOREM RunsAreReproducible == LibrarySpec => []RunsKeepTheirCode
<1>1. LibraryInit => LibraryInv
  <2> SUFFICES ASSUME LibraryInit PROVE LibraryInv
    OBVIOUS
  <2>1. DOMAIN strategies = {} /\ DOMAIN versions = {} /\ DOMAIN runs = {}
    BY DEF LibraryInit
  <2>2. Bounded({})
    BY DEF Bounded
  <2>3. LibraryTypes
    BY <2>1, <2>2 DEF LibraryInit, LibraryTypes
  <2> QED
    BY <2>1, <2>3 DEF LibraryInit, LibraryInv, VersionsReferred, HistoryIsWhole,
                      NamedIsKept, StartsKeepTheirCode, NotBusy
<1>2. LibraryInv /\ [LibraryNext]_library_vars => LibraryInv'
  BY LibraryStep
<1>3. LibraryInv => RunsKeepTheirCode
  BY DEF LibraryInv, RunsKeepTheirCode
<1> QED  BY <1>1, <1>2, <1>3, PTL DEF LibrarySpec
=============================================================================
