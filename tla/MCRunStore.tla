----------------------------- MODULE MCRunStore -----------------------------
(* The API server with its request threads, and a session worker, whose    *)
(* store reads the same rows and launches the shadow of its session.       *)
EXTENDS RunStore, TLC
CONSTANTS r1, r2, api, session, a1, a2, w1

MCServerOf == a1 :> api @@ a2 :> api @@ w1 :> session

ApiThreads == Permutations({a1, a2})
=============================================================================
