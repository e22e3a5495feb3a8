--------------------------- MODULE SignedRequests ---------------------------
(***************************************************************************)
(* How the signed client asks (exchange/signed.py of src/perplab): an      *)
(* order is placed and cancelled, each by a call of several attempts, over *)
(* a network that loses requests and answers and delivers a request after  *)
(* its caller gave up.  What a call answers is all that the transport will *)
(* know of the order (Orders has what it makes of that).  The venue and    *)
(* the network are external.                                               *)
(***************************************************************************)
EXTENDS Integers, FiniteSets

CONSTANT MaxAttempts    \* max_attempts

VARIABLES
    call,       \* how far the POST and the DELETE are: "idle", "asks", "waits", or an answer
    tries,      \* the attempts each has made
    wire,       \* the requests on their way to the venue
    answers,    \* the responses on their way back
    spent,      \* RateBudget: a fresh observation at the ceiling
    order,      \* the order at the venue
    born        \* how many orders the venue has opened for it

client == <<call, tries, spent>>
venue  == <<order, born>>
vars   == <<client, wire, answers, venue>>

Call == {"POST", "DELETE"}
Request(c) == [of |-> c, n |-> tries[c]]
Response(q, code) == [of |-> q.of, n |-> q.n, code |-> code]
OnTheWire(c) == \E q \in wire : q.of = c

\* What a call ends with: its answer, a refusal, the RateBudget's, no attempt
\* left, or OrderOutcomeUnknown.
Ended == {"done", "refused", "budget", "exhausted", "unknown"}

TypeOK ==
    /\ call \in [Call -> {"idle", "asks", "waits"} \cup Ended]
    /\ tries \in [Call -> 0 .. MaxAttempts]
    /\ wire \subseteq [of : Call, n : 1 .. MaxAttempts]
    /\ answers \subseteq [of : Call, n : 1 .. MaxAttempts, code : {200, 400, 429, 503, -2011}]
    /\ spent \in BOOLEAN
    /\ order \in {"none", "working", "filled", "cancelled"} /\ born \in Nat

Init ==
    /\ call = [c \in Call |-> "idle"] /\ tries = [c \in Call |-> 0]
    /\ wire = {} /\ answers = {} /\ spent = FALSE
    /\ order = "none" /\ born = 0

-----------------------------------------------------------------------------
(* _request.                                                               *)

\* Wrong variant of Repeats: a request that was not answered is sent again.
Repeats_Any(c) == TRUE

\* RetryPolicy: a POST of an order is ORDER, and is repeated only if it never
\* left; a DELETE is IDEMPOTENT.
Repeats(c) == c = "DELETE"

Goes(c, to) == call' = [call EXCEPT ![c] = to]
Again(c) == Goes(c, IF tries[c] < MaxAttempts THEN "asks" ELSE "exhausted")

\* The transport sends one request at a time: a cancel waits for the answer.
Begin(c) ==
    /\ call[c] = "idle"
    /\ c = "DELETE" => call["POST"] \in {"done", "unknown"}
    /\ Goes(c, "asks")
    /\ UNCHANGED <<tries, spent, wire, answers, venue>>

\* Each attempt asks the budget first.
Refrain(c) ==
    /\ call[c] = "asks" /\ spent
    /\ Goes(c, "budget")
    /\ UNCHANGED <<tries, spent, wire, answers, venue>>

Attempt(c) ==
    /\ call[c] = "asks" /\ ~ spent
    /\ tries' = [tries EXCEPT ![c] = @ + 1]
    /\ Goes(c, "waits")
    /\ wire' = wire \cup {[of |-> c, n |-> tries'[c]]}
    /\ UNCHANGED <<spent, answers, venue>>

\* ConnectError, ConnectTimeout: nothing was sent, and any call may try again.
Unconnected(c) ==
    /\ call[c] = "asks" /\ ~ spent
    /\ tries' = [tries EXCEPT ![c] = @ + 1]
    /\ Goes(c, IF tries'[c] < MaxAttempts THEN "asks" ELSE "exhausted")
    /\ UNCHANGED <<spent, wire, answers, venue>>

\* Any other HTTPError: a timeout, a reset, while the request is on its way, at
\* the venue, or answered.
Breaks(c) ==
    /\ call[c] = "waits"
    /\ IF Repeats(c) THEN Again(c) ELSE Goes(c, "unknown")
    /\ UNCHANGED <<tries, spent, wire, answers, venue>>

\* A 5xx says nothing of an order; a 429 or another error is a refusal of a POST.
\* cancelled_or_already_gone takes -2011, that there is no such order, for done.
Verdict(c, code) ==
    IF code = 200 \/ (c = "DELETE" /\ code = -2011) THEN "done"
    ELSE IF Repeats(c) /\ code \in {429, 503} THEN "again"
    ELSE IF code = 503 THEN "unknown" ELSE "refused"

\* The response of the attempt under way, with the venue's count of requests.
Answer(c) ==
    /\ call[c] = "waits"
    /\ \E a \in answers :
          /\ a.of = c /\ a.n = tries[c]
          /\ LET v == Verdict(c, a.code) IN IF v = "again" THEN Again(c) ELSE Goes(c, v)
          /\ answers' = answers \ {a}
    /\ spent' \in BOOLEAN
    /\ UNCHANGED <<tries, wire, venue>>

\* _fresh: an observation older than its window counts for nothing.
Stales ==
    /\ spent /\ spent' = FALSE
    /\ UNCHANGED <<call, tries, wire, answers, venue>>

-----------------------------------------------------------------------------
(* The venue.                                                              *)

\* A client order id is refused while an order of that id works, and only then.
Opens ==
    /\ order # "working"
    /\ order' \in {"working", "filled"} /\ born' = born + 1

Takes(q) ==
    /\ q \in wire /\ wire' = wire \ {q}
    /\ \/ /\ q.of = "POST" /\ Opens
          /\ \E code \in {200, 503} : answers' = answers \cup {Response(q, code)}
       \/ /\ q.of = "DELETE" /\ order = "working" /\ order' = "cancelled"
          /\ \E code \in {200, 503} : answers' = answers \cup {Response(q, code)}
          /\ UNCHANGED born
       \/ /\ UNCHANGED venue
          /\ \E code \in {429, 503} \cup (IF q.of = "POST" THEN {400} ELSE IF order # "working" THEN {-2011} ELSE {}) :
                answers' = answers \cup {Response(q, code)}
    /\ UNCHANGED client

Loses ==
    /\ \/ \E q \in wire : wire' = wire \ {q} /\ UNCHANGED answers
       \/ \E a \in answers : answers' = answers \ {a} /\ UNCHANGED wire
    /\ UNCHANGED <<client, venue>>

Fills ==
    /\ order = "working" /\ order' = "filled"
    /\ UNCHANGED <<client, wire, answers, born>>

Next ==
    \/ \E c \in Call : Begin(c) \/ Refrain(c) \/ Attempt(c) \/ Unconnected(c) \/ Breaks(c) \/ Answer(c)
    \/ \E q \in wire : Takes(q)
    \/ Stales \/ Loses \/ Fills

Spec == Init /\ [][Next]_vars

-----------------------------------------------------------------------------
\* An order is opened once at most, however often its request is repeated; a call
\* that ends with anything but "unknown" has told the truth of it for good: an
\* order was opened, or none was and none will be; and an order that was answered
\* for, and whose cancel ended well, works no more.
AnswerIsTheTruth ==
    /\ born <= 1
    /\ call["POST"] = "done" => born = 1
    /\ call["POST"] \in {"refused", "budget", "exhausted"} => born = 0 /\ ~ OnTheWire("POST")
    /\ call["POST"] = "done" /\ call["DELETE"] = "done" => order # "working"
=============================================================================
