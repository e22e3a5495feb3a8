---------------------------- MODULE SymbolClaims ----------------------------
(***************************************************************************)
(* The symbol_claims table of perplab.store.claims and the callers that    *)
(* share it: API request threads and session workers, each with its own    *)
(* connection.  A caller first enumerates the running runs                 *)
(* (RunStore.active), and only later opens the transaction that prunes the *)
(* claims of every run outside that enumeration; the run table goes on     *)
(* changing in between.                                                    *)
(***************************************************************************)
EXTENDS ClaimTable

CONSTANTS Client,       \* the threads and workers that use the table
          Nobody        \* the holder of a free symbol

ASSUME NobodyAssumption == Nobody \notin Run

VARIABLES active,       \* the runs whose row is not terminal (RunStore)
          open,         \* open[r]: the symbols of r's unreleased rows
          request,      \* request[c]: what caller c is in the middle of
          answer        \* answer[c]: how c's last claim ended

claims_vars == <<active, open, request, answer>>

Idle     == [op : {"idle"}]
Claiming == [op : {"claim"}, run : Run, live : SUBSET Run]
Listing  == [op : {"list"}, endpoint : Endpoint, live : SUBSET Run]
Pruning  == [op : {"prune"}, stale : [Run -> SUBSET Symbol]]

ClaimsTypeOK ==
    /\ active \subseteq Run
    /\ open \in [Run -> SUBSET Symbol]
    /\ request \in [Client -> Idle \cup Claiming \cup Listing \cup Pruning]
    /\ answer \in [Client -> {"none", "granted", "refused"}]

ClaimsInit ==
    /\ active = {}
    /\ open = [r \in Run |-> {}]
    /\ request = [c \in Client |-> [op |-> "idle"]]
    /\ answer = [c \in Client |-> "none"]

-----------------------------------------------------------------------------
(* The run table, as the callers see it through RunStore.active.           *)

RunStarts(r) ==
    /\ r \notin active
    /\ active' = active \cup {r}
    /\ UNCHANGED <<open, request, answer>>

RunEnds(r) ==
    /\ r \in active
    /\ active' = active \ {r}
    /\ UNCHANGED <<open, request, answer>>

(* start_session, or the run's own worker: its row is created (or marked   *)
(* running) before the enumeration, so the run is in its own list.         *)
BeginClaim(c, r) ==
    /\ request[c].op = "idle"
    /\ r \in active
    /\ request' = [request EXCEPT ![c] = [op |-> "claim", run |-> r, live |-> active]]
    /\ answer' = [answer EXCEPT ![c] = "none"]
    /\ UNCHANGED <<active, open>>

(* Wrong variant of Claim: conflicts are looked for before the prune.      *)
Claim_WithoutPrune(c) ==
    /\ request[c].op = "claim"
    /\ LET r == request[c].run
       IN IF Conflicts(open, r) # {}
          THEN answer' = [answer EXCEPT ![c] = "refused"] /\ UNCHANGED open
          ELSE answer' = [answer EXCEPT ![c] = "granted"] /\ open' = Upsert(open, r)
    /\ request' = [request EXCEPT ![c] = [op |-> "idle"]]
    /\ UNCHANGED active

(* claim, in one BEGIN IMMEDIATE: prune, then refuse on any overlap and    *)
(* roll the prune back, or write every wanted row.                         *)
Claim(c) ==
    /\ request[c].op = "claim"
    /\ LET r    == request[c].run
           kept == Pruned(open, Stale(open, EndpointOf[r], request[c].live))
       IN \/ /\ Conflicts(kept, r) # {}
             /\ answer' = [answer EXCEPT ![c] = "refused"]
             /\ UNCHANGED open
          \/ /\ Conflicts(kept, r) = {}
             /\ answer' = [answer EXCEPT ![c] = "granted"]
             /\ open' = Upsert(kept, r)
    /\ request' = [request EXCEPT ![c] = [op |-> "idle"]]
    /\ UNCHANGED active

(* GET /symbol-claims: enumerate the running runs ...                      *)
BeginList(c, e) ==
    /\ request[c].op = "idle"
    /\ request' = [request EXCEPT ![c] = [op |-> "list", endpoint |-> e, live |-> active]]
    /\ answer' = [answer EXCEPT ![c] = "none"]
    /\ UNCHANGED <<active, open>>

(* ... SELECT the open rows and set the stale ones apart ...               *)
SelectOpen(c) ==
    /\ request[c].op = "list"
    /\ request' = [request EXCEPT ![c] =
            [op |-> "prune", stale |-> Stale(open, request[c].endpoint, request[c].live)]]
    /\ UNCHANGED <<active, open, answer>>

(* ... and release those of them that are still open.  The SELECT opened   *)
(* no transaction, so other callers may write between the two.             *)
PruneStale(c) ==
    /\ request[c].op = "prune"
    /\ open' = Pruned(open, request[c].stale)
    /\ request' = [request EXCEPT ![c] = [op |-> "idle"]]
    /\ UNCHANGED <<active, answer>>

(* Wrong variant of Release: the symbol is not what the WHERE goes by.     *)
Release_OneRow(r) ==
    /\ \E s \in open[r] : open' = [open EXCEPT ![r] = @ \ {s}]
    /\ UNCHANGED <<active, request, answer>>

(* release: from the worker's shutdown and from a start that failed.       *)
Release(r) ==
    /\ open[r] # {}
    /\ open' = [open EXCEPT ![r] = {}]
    /\ UNCHANGED <<active, request, answer>>

ClaimsNext ==
    \/ \E r \in Run : RunStarts(r) \/ RunEnds(r) \/ Release(r)
    \/ \E c \in Client :
          \/ \E r \in Run : BeginClaim(c, r)
          \/ \E e \in Endpoint : BeginList(c, e)
          \/ Claim(c)
          \/ SelectOpen(c)
          \/ PruneStale(c)

ClaimsSpec == ClaimsInit /\ [][ClaimsNext]_claims_vars
-----------------------------------------------------------------------------
(* A symbol has one owner: on one endpoint no two runs have it open,       *)
(* whatever the callers' enumerations missed (SymbolClaims.claim).         *)
OneOwner ==
    \A q, r \in Run : q # r /\ EndpointOf[q] = EndpointOf[r] => open[q] \cap open[r] = {}

(* All or nothing: no interleaving of claims, listings and releases leaves *)
(* a run holding part of its symbols (SymbolClaims.claim).                 *)
AllOrNothing == \A r \in Run : open[r] \in {{}, SymbolsOf[r]}

(* The claims of a listing under way are whole sets too: what AllOrNothing *)
(* needs to survive the gap between its SELECT and its UPDATE.             *)
WholeStale ==
    \A c \in Client : request[c].op = "prune" =>
        \A r \in Run : request[c].stale[r] \in {{}, SymbolsOf[r]}

(* A refusal is never owed to a dead run: a claim is refused only while a  *)
(* run the caller saw running holds one of its symbols, so a claim left by *)
(* a killed session cannot block a symbol for good (_open_locked).         *)
RefusedOnlyByRunning ==
    [][\A c \in Client :
         (request[c].op = "claim" /\ answer'[c] = "refused" /\ request'[c].op = "idle") =>
            \E q \in request[c].live \ {request[c].run} :
                /\ EndpointOf[q] = EndpointOf[request[c].run]
                /\ open[q] \cap SymbolsOf[request[c].run] # {}]_claims_vars

(* A step that ends in a refusal leaves every claim as it found it, the    *)
(* stale ones it had just pruned included (the rollback in claim).         *)
RefusalRollsBack ==
    [][\A c \in Client :
         (request[c].op = "claim" /\ request'[c].op = "idle" /\ answer'[c] = "refused")
            => open' = open]_claims_vars

-----------------------------------------------------------------------------
(* The table implements the abstract ownership.                            *)
Holds(rows, r, e, s) == EndpointOf[r] = e /\ s \in rows[r]

OwnerIn(rows) ==
    [e \in Endpoint |-> [s \in Symbol |->
        IF \E r \in Run : Holds(rows, r, e, s)
        THEN CHOOSE r \in Run : Holds(rows, r, e, s)
        ELSE Nobody]]

Ownership == INSTANCE SymbolOwnership WITH owner <- OwnerIn(open)

(* Every step of the table is a grant of a whole set, a loss of whole      *)
(* sets, or invisible (the module docstring's one-owner rule).             *)
ImplementsOwnership == Ownership!Spec
=============================================================================
