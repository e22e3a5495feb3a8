------------------------------ MODULE MCOrders ------------------------------
(* The orders of a live session: an entry, executed in two parts, on the    *)
(* wire; a session that goes blind; one that ends; or the calls of a POST   *)
(* and of its DELETE.                                                      *)
EXTENDS Orders
CONSTANTS entry, exit,
          MaxDown,           \* of LiveSession
          MaxAttempts        \* of SignedRequests

ASSUME PartsAssumption == MaxDown \in Nat /\ MaxAttempts \in Nat \ {0}

MCSideOf == [o \in Order |-> IF o = entry THEN 1 ELSE -1]

MCLotsOf == [o \in Order |-> IF o = entry THEN 2 ELSE 1]

VARIABLES part,
          stage, since, outage, frozen, polling, checked, misread, owed, breach,
          armed, flatten, control, here, there, lots, unanswered, owned, held, wire,
          reports, late, noted, final, listed, after,
          call, tries, requests, answers, spent, order, born

Live == INSTANCE LiveSession

Signed == INSTANCE SignedRequests WITH wire <- requests

asking == <<call, tries, requests, answers, spent, order, born>>

session == <<stage, since, outage, frozen, polling, checked, misread, owed, breach, armed, flatten,
             control, here, there, lots, unanswered, owned, held, wire, reports, late, noted, final, listed, after>>

Idles == Live!InitAt("parting") /\ breach.is = "no" /\ ~ armed /\ ~ flatten /\ held = 0

MCInit ==
    /\ Init /\ Signed!Init
    /\ \/ part \in {"wire", "asking"} /\ Idles
       \/ part = "pump" /\ Live!InitAt("pump") /\ armed /\ ~ flatten
       \/ part = "ending" /\ Live!InitAt("parting")

Wire   == part = "wire" /\ Next /\ UNCHANGED <<part, session, asking>>
\* A bound: with the pump, the strategy adds nothing to what rests.
Pumps  == /\ part = "pump" /\ stage \in {"pump", "parting"} /\ Live!Next /\ here'[Live!Reply] = "none"
          /\ UNCHANGED <<part, vars, asking>>
Ending == part = "ending" /\ Live!Next /\ UNCHANGED <<part, vars, asking>>

Asking == part = "asking" /\ Signed!Next /\ UNCHANGED <<part, vars, session>>

MCSpec ==
    /\ MCInit /\ [][Wire \/ Pumps \/ Ending \/ Asking]_<<part, vars, session, asking>>
    /\ WF_<<part, vars, session, asking>>(part = "wire" /\ RecStep /\ UNCHANGED <<part, session, asking>>)

\* A session that is blind too long over a position is halted, and only then,
\* and the halt is carried out.
BlindIsHalted == Live!BlindIsHalted

\* What a session's ending leaves behind is on its record.
EndIsTold == Live!EndIsTold

\* However often an order's requests are repeated, it is opened once at most, and
\* what its calls answer is so.
AnswerIsTheTruth == Signed!AnswerIsTheTruth
=============================================================================
