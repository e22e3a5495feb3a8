------------------------------- MODULE Orders -------------------------------
(***************************************************************************)
(* The orders of a live session: ExchangeTransport                         *)
(* (perplab.live.exchange_transport), which sends one request at a time    *)
(* and books what the venue reports; the user-data stream                  *)
(* (perplab.exchange.userstream), which loses what a reconnect misses and  *)
(* may repeat itself; and the Reconciler (perplab.live.reconcile), which   *)
(* asks about unanswered orders and compares the ledger with the account.  *)
(* The venue is external.  Between two steps everybody else may act: every *)
(* await of the code is the end of a step.                                 *)
(***************************************************************************)
EXTENDS Integers, Sequences, FiniteSets

CONSTANTS Order,        \* the orders the strategy may submit
          SideOf,       \* 1 to buy, -1 to sell
          LotsOf,       \* how much of it
          Late,         \* whether a POST may land after its client gave up
          MaxBlind      \* failed passes that halt an unverified session

ASSUME OrderAssumption ==
    /\ IsFiniteSet(Order)
    /\ SideOf \in [Order -> {1, -1}]
    /\ LotsOf \in [Order -> Nat \ {0}]
    /\ Late \in BOOLEAN
    /\ MaxBlind \in Nat \ {0}

VARIABLES status,       \* the engine's order
          ledger,       \* how much of it the ledger has booked
          acked,        \* the route's flags: acknowledged, outcome unknown,
          unknown,      \*   cancel sent and acknowledged
          cancel,
          booked,       \* the cumulative quantity the route has booked
          queue,        \* the requests not yet sent
          flight,       \* the requests whose answers drain is waiting for
          post,         \* what became of the order's POST
          venue,        \* the venue's order
          filled,       \* how much of it the venue has executed
          stream,       \* the reports under way on the user-data socket
          connected,    \* the socket delivers
          rec,          \* how far the reconciliation pass has come
          absent,       \* open here and not listed there, in the last pass
          asked,        \* those whose absence has been noted
          toAsk,        \* those whose absence the next pass asks about
          blind,        \* consecutive failed passes
          halted        \* the engine's halt: asked for, then performed

engine_vars == <<status, ledger, acked, unknown, cancel, booked>>
wire_vars   == <<queue, flight, post>>
venue_vars  == <<venue, filled>>
socket_vars == <<stream, connected>>
rec_vars    == <<rec, absent, asked, toAsk, blind>>
vars == <<engine_vars, wire_vars, venue_vars, socket_vars, rec_vars, halted>>

Open(o) == status[o] \in {"pending", "working"}

Request == [kind : {"place", "cancel"}, order : Order]

Kinds == {"NEW", "TRADE", "CANCELED", "EXPIRED"}

AtVenue == {"none", "working", "filled", "canceled", "expired"}

TypeOK ==
    /\ status \in [Order -> {"none", "pending", "working", "filled",
                             "cancelled", "expired", "rejected"}]
    /\ {ledger, booked, filled} \subseteq [Order -> Nat]
    /\ \A o \in Order : {ledger[o], booked[o], filled[o]} \subseteq 0 .. LotsOf[o]
    /\ acked \in [Order -> BOOLEAN] /\ unknown \in [Order -> BOOLEAN]
    /\ cancel \in [Order -> {"no", "sent", "acked"}]
    /\ queue \in Seq(Request) /\ flight \subseteq Request
    /\ post \in [Order -> {"none", "sent", "landed", "refused", "lost"}]
    /\ venue \in [Order -> AtVenue]
    /\ stream \in Seq([order : Order, kind : Kinds, cum : Nat])
    /\ connected \in BOOLEAN
    /\ \/ rec.step \in {"idle", "orders", "compare"}
       \/ rec \in [step : {"ask"}, left : SUBSET Order]
       \/ rec \in [step : {"answered"}, left : SUBSET Order, order : Order,
                   status : AtVenue, cum : Nat]
    /\ absent \subseteq Order /\ asked \subseteq Order /\ toAsk \subseteq Order
    /\ blind \in 0 .. MaxBlind
    /\ halted \in {"no", "asked", "performed"}

Init ==
    /\ status = [o \in Order |-> "none"] /\ ledger = [o \in Order |-> 0]
    /\ acked = [o \in Order |-> FALSE] /\ unknown = [o \in Order |-> FALSE]
    /\ cancel = [o \in Order |-> "no"] /\ booked = [o \in Order |-> 0]
    /\ queue = <<>> /\ flight = {} /\ post = [o \in Order |-> "none"]
    /\ venue = [o \in Order |-> "none"] /\ filled = [o \in Order |-> 0]
    /\ stream = <<>> /\ connected = TRUE
    /\ rec = [step |-> "idle"]
    /\ absent = {} /\ asked = {} /\ toAsk = {} /\ blind = 0
    /\ halted = "no"

-----------------------------------------------------------------------------
(* The engine's side: submit, cancel, halt.                                *)

Becomes(o, s) == status' = [status EXCEPT ![o] = s]

Submit(o) ==
    /\ halted = "no" /\ status[o] = "none"
    /\ Becomes(o, "pending")
    /\ queue' = Append(queue, [kind |-> "place", order |-> o])
    /\ UNCHANGED <<ledger, acked, unknown, cancel, booked, flight, post,
                   venue_vars, socket_vars, rec_vars, halted>>

(* cancel (a strategy asks once, which bounds the queue).                  *)
Cancel(o) ==
    /\ halted = "no" /\ Open(o) /\ cancel[o] = "no"
    /\ cancel' = [cancel EXCEPT ![o] = "sent"]
    /\ queue' = Append(queue, [kind |-> "cancel", order |-> o])
    /\ UNCHANGED <<status, ledger, acked, unknown, booked, flight, post,
                   venue_vars, socket_vars, rec_vars, halted>>

(* _perform_halt: a cancel for every open order, between two events.       *)
PerformHalt ==
    /\ halted = "asked"
    /\ halted' = "performed"
    /\ LET opens == {o \in Order : Open(o)} IN
       /\ \E s \in [1 .. Cardinality(opens) -> opens] :
             /\ \A i, j \in DOMAIN s : s[i] = s[j] => i = j
             /\ queue' = queue \o [i \in DOMAIN s |-> [kind |-> "cancel", order |-> s[i]]]
       /\ cancel' = [o \in Order |->
                        IF o \in opens /\ cancel[o] = "no" THEN "sent" ELSE cancel[o]]
    /\ UNCHANGED <<status, ledger, acked, unknown, booked, flight, post,
                   venue_vars, socket_vars, rec_vars>>

-----------------------------------------------------------------------------
(* drain: one request at a time, under the drain lock.                     *)

(* Wrong variant of Send: two drains, each with a request in flight.       *)
Send_NoLock ==
    /\ queue # <<>> /\ Head(queue) \notin flight
    /\ LET q == Head(queue) IN
       /\ flight' = flight \cup {q}
       /\ post' = IF q.kind = "place" THEN [post EXCEPT ![q.order] = "sent"] ELSE post
    /\ queue' = Tail(queue)
    /\ UNCHANGED <<engine_vars, venue_vars, socket_vars, rec_vars, halted>>

Send ==
    /\ queue # <<>> /\ flight = {}
    /\ LET q == Head(queue) IN
       /\ flight' = {q}
       /\ post' = IF q.kind = "place" THEN [post EXCEPT ![q.order] = "sent"] ELSE post
    /\ queue' = Tail(queue)
    /\ UNCHANGED <<engine_vars, venue_vars, socket_vars, rec_vars, halted>>

Placing(o) == [kind |-> "place", order |-> o] \in flight

Returned(q) == flight' = flight \ {q}

(* _note_ack, on status s and acknowledgements a.                          *)
NoteAck(o) ==
    /\ acked' = [acked EXCEPT ![o] = TRUE]
    /\ Becomes(o, IF status[o] = "pending" THEN "working" ELSE status[o])

PlaceAcked(o) ==
    /\ Placing(o) /\ post[o] = "landed"
    /\ NoteAck(o)
    /\ Returned([kind |-> "place", order |-> o])
    /\ UNCHANGED <<ledger, unknown, cancel, booked, queue, post,
                   venue_vars, socket_vars, rec_vars, halted>>

(* The venue's refusal, a spent rate budget, a connection never made.      *)
PlaceRefused(o) ==
    /\ Placing(o) /\ post[o] \in {"refused", "lost"}
    /\ Becomes(o, "rejected")
    /\ Returned([kind |-> "place", order |-> o])
    /\ UNCHANGED <<ledger, acked, unknown, cancel, booked, queue, post,
                   venue_vars, socket_vars, rec_vars, halted>>

(* OrderOutcomeUnknown: a lost answer, a lost request, or a 5xx.           *)
PlaceUnknown(o) ==
    /\ Placing(o) /\ (Late \/ post[o] # "sent")
    /\ unknown' = [unknown EXCEPT ![o] = TRUE]
    /\ Returned([kind |-> "place", order |-> o])
    /\ UNCHANGED <<status, ledger, acked, cancel, booked, queue, post,
                   venue_vars, socket_vars, rec_vars, halted>>

(* Reports that the venue sends while the socket is down are lost.         *)
Reports(o, kind, cum) ==
    stream' = IF connected THEN Append(stream, [order |-> o, kind |-> kind, cum |-> cum])
              ELSE stream

(* The DELETE takes effect, and is answered.  An unknown order counts as   *)
(* an acknowledgement; any other failure is noted and forgotten.           *)
CancelAnswered(o) ==
    /\ [kind |-> "cancel", order |-> o] \in flight
    /\ \/ /\ venue[o] = "working"
          /\ venue' = [venue EXCEPT ![o] = "canceled"]
          /\ Reports(o, "CANCELED", filled[o])
       \/ UNCHANGED <<venue, stream>>
    /\ \/ (venue[o] # "working" \/ venue'[o] = "canceled")
          /\ cancel' = [cancel EXCEPT ![o] = "acked"]
       \/ UNCHANGED cancel
    /\ Returned([kind |-> "cancel", order |-> o])
    /\ UNCHANGED <<status, ledger, acked, unknown, booked, queue, post, filled,
                   connected, rec_vars, halted>>

-----------------------------------------------------------------------------
(* The venue.                                                              *)

Land(o) ==
    /\ post[o] = "sent"
    /\ \/ /\ post' = [post EXCEPT ![o] = "landed"]
          /\ venue' = [venue EXCEPT ![o] = "working"]
          /\ Reports(o, "NEW", 0)
       \/ /\ post' \in {[post EXCEPT ![o] = "refused"], [post EXCEPT ![o] = "lost"]}
          /\ UNCHANGED <<venue, stream>>
    /\ UNCHANGED <<engine_vars, queue, flight, filled, connected, rec_vars, halted>>

Fill(o, lots) ==
    /\ venue[o] = "working" /\ filled[o] + lots <= LotsOf[o]
    /\ filled' = [filled EXCEPT ![o] = @ + lots]
    /\ venue' = [venue EXCEPT ![o] = IF filled'[o] = LotsOf[o] THEN "filled" ELSE @]
    /\ Reports(o, "TRADE", filled'[o])
    /\ UNCHANGED <<engine_vars, wire_vars, connected, rec_vars, halted>>

Expire(o) ==
    /\ venue[o] = "working"
    /\ venue' = [venue EXCEPT ![o] = "expired"]
    /\ Reports(o, "EXPIRED", filled[o])
    /\ UNCHANGED <<engine_vars, wire_vars, filled, connected, rec_vars, halted>>

(* The socket breaks, or its listen key expires: what is under way is not  *)
(* redelivered.                                                            *)
Disconnect ==
    /\ connected
    /\ connected' = FALSE /\ stream' = <<>>
    /\ UNCHANGED <<engine_vars, wire_vars, venue_vars, rec_vars, halted>>

Rekey ==
    /\ ~ connected
    /\ connected' = TRUE
    /\ UNCHANGED <<engine_vars, wire_vars, venue_vars, stream, rec_vars, halted>>

-----------------------------------------------------------------------------
(* on_report.                                                              *)

(* Wrong variant of Book: the cumulative quantity is not looked at.        *)
Book_Again(o, cum) ==
    IF ~ Open(o) THEN UNCHANGED <<status, ledger, booked>>
    ELSE /\ booked' = [booked EXCEPT ![o] = cum]
         /\ ledger' = [ledger EXCEPT ![o] = @ + IF cum > booked[o] THEN cum - booked[o] ELSE 1]
         /\ Becomes(o, IF ledger'[o] >= LotsOf[o] THEN "filled" ELSE status[o])

(* _book: nothing for a finished order or a quantity already booked, else  *)
(* the difference to the cumulative quantity, which the ledger may refuse  *)
(* (margin, filters), rejecting the order.                                 *)
Book(o, cum) ==
    IF ~ Open(o) \/ cum <= booked[o] THEN UNCHANGED <<status, ledger, booked>>
    ELSE /\ booked' = [booked EXCEPT ![o] = cum]
         /\ \/ /\ ledger' = [ledger EXCEPT ![o] = @ + (cum - booked[o])]
               /\ Becomes(o, IF ledger'[o] = LotsOf[o] THEN "filled" ELSE status[o])
            \/ Becomes(o, "rejected") /\ UNCHANGED ledger

(* _apply, by the report's kind.                                           *)
Apply(o, kind, cum) ==
    \/ kind = "TRADE" /\ Book(o, cum) /\ UNCHANGED <<acked, cancel>>
    \/ kind = "NEW" /\ NoteAck(o) /\ UNCHANGED <<ledger, booked, cancel>>
    \/ /\ kind \in {"CANCELED", "EXPIRED"}
       /\ Becomes(o, IF ~ Open(o) THEN status[o]
                     ELSE IF kind = "CANCELED" THEN "cancelled" ELSE "expired")
       /\ cancel' = IF kind = "CANCELED" /\ cancel[o] = "sent"
                    THEN [cancel EXCEPT ![o] = "acked"] ELSE cancel
       /\ UNCHANGED <<acked, ledger, booked>>

(* A frame is read, and perhaps comes again.                               *)
Deliver ==
    /\ stream # <<>>
    /\ LET r == Head(stream) IN
       /\ unknown' = [unknown EXCEPT ![r.order] = FALSE]
       /\ Apply(r.order, r.kind, r.cum)
    /\ stream' \in {stream, Tail(stream)}
    /\ UNCHANGED <<wire_vars, venue_vars, connected, rec_vars, halted>>

-----------------------------------------------------------------------------
(* The reconciler.                                                         *)

RecBegin ==
    /\ rec.step = "idle" /\ halted = "no"
    /\ rec' = [step |-> "ask", left |-> {o \in Order : unknown[o]} \cup toAsk]
    /\ toAsk' = {}
    /\ UNCHANGED <<engine_vars, wire_vars, venue_vars, socket_vars, absent, asked, blind, halted>>

(* GET /fapi/v1/order: the venue's answer, as of now, or an error.         *)
RecAsk(o) ==
    /\ rec.step = "ask" /\ o \in rec.left
    /\ rec' = [step |-> "answered", left |-> rec.left \ {o}, order |-> o,
               status |-> venue[o], cum |-> filled[o]]
    /\ UNCHANGED <<engine_vars, wire_vars, venue_vars, socket_vars,
                   absent, asked, toAsk, blind, halted>>

RecAskFails(o) ==
    /\ rec.step = "ask" /\ o \in rec.left
    /\ rec' = [rec EXCEPT !.left = @ \ {o}]
    /\ UNCHANGED <<engine_vars, wire_vars, venue_vars, socket_vars,
                   absent, asked, toAsk, blind, halted>>

(* _report_from_rest_order, then on_report, then the terminal status: a    *)
(* snapshot with executions is booked before the order is removed.         *)
RecAnswer ==
    /\ rec.step = "answered"
    /\ LET o == rec.order
           ends == CASE rec.status = "canceled" -> "cancelled"
                     [] rec.status \in {"expired", "none"} -> "expired"
                     [] OTHER -> "working"
       IN /\ unknown' = [unknown EXCEPT ![o] = FALSE]
          /\ IF rec.status # "none" /\ rec.cum > booked[o] /\ Open(o)
             THEN /\ booked' = [booked EXCEPT ![o] = rec.cum]
                  /\ \/ /\ ledger' = [ledger EXCEPT ![o] = @ + (rec.cum - booked[o])]
                        /\ Becomes(o, IF ledger'[o] = LotsOf[o] THEN "filled"
                                      ELSE IF ends = "working" THEN status[o] ELSE ends)
                     \/ Becomes(o, "rejected") /\ UNCHANGED ledger
             ELSE /\ Becomes(o, IF ~ Open(o) \/ (ends = "working" /\ rec.cum > 0)
                                THEN status[o] ELSE ends)
                  /\ UNCHANGED <<booked, ledger>>
          /\ acked' = [acked EXCEPT ![o] = @ \/ (rec.status = "working" /\ rec.cum = 0)]
          /\ cancel' = IF rec.status = "canceled" /\ rec.cum = 0 /\ cancel[o] = "sent"
                       THEN [cancel EXCEPT ![o] = "acked"] ELSE cancel
    /\ rec' = [step |-> "ask", left |-> rec.left]
    /\ UNCHANGED <<wire_vars, venue_vars, socket_vars, absent, asked, toAsk, blind, halted>>

(* The position that executions of these quantities add up to.             *)
Executed(side, lots) ==
    UNION {{o} \X (1 .. lots[o]) : o \in {o \in Order : SideOf[o] = side}}

Net(lots) == Cardinality(Executed(1, lots)) - Cardinality(Executed(-1, lots))

RecAccount ==
    /\ rec.step = "ask" /\ rec.left = {}
    /\ rec' = [step |-> "orders", position |-> Net(filled)]
    /\ UNCHANGED <<engine_vars, wire_vars, venue_vars, socket_vars,
                   absent, asked, toAsk, blind, halted>>

RecOrders ==
    /\ rec.step = "orders"
    /\ rec' = [step |-> "compare", position |-> rec.position,
               listed |-> {o \in Order : venue[o] = "working"}]
    /\ UNCHANGED <<engine_vars, wire_vars, venue_vars, socket_vars,
                   absent, asked, toAsk, blind, halted>>

AskHalt(asks) == halted' = IF asks /\ halted = "no" THEN "asked" ELSE halted

(* reconcile_open_orders: an order missing from two listings in a row is   *)
(* asked about, once per absence; then _compare and _halt_on.              *)
RecCompare ==
    /\ rec.step = "compare"
    /\ LET gone == {o \in Order : Open(o) /\ acked[o] /\ ~ unknown[o] /\ o \notin rec.listed}
           new  == (gone \cap absent) \ asked
       IN /\ absent' = gone
          /\ toAsk' = toAsk \cup new
          /\ asked' = (asked \cup new) \cap gone
    /\ AskHalt(rec.position # Net(ledger))
    /\ rec' = [step |-> "idle"] /\ blind' = 0
    /\ UNCHANGED <<engine_vars, wire_vars, venue_vars, socket_vars>>

(* Wrong variant of RecFail: a failed pass is weather, however many.       *)
RecFail_Weather ==
    /\ rec.step \in {"orders", "compare"} \/ (rec.step = "ask" /\ rec.left = {})
    /\ rec' = [step |-> "idle"]
    /\ UNCHANGED <<engine_vars, wire_vars, venue_vars, socket_vars,
                   absent, asked, toAsk, blind, halted>>

(* The fetch fails, or its payload cannot be read: the pass is blind, and  *)
(* too many of them in a row halt.                                         *)
RecFail ==
    /\ rec.step \in {"orders", "compare"} \/ (rec.step = "ask" /\ rec.left = {})
    /\ rec' = [step |-> "idle"]
    /\ blind' = IF blind < MaxBlind THEN blind + 1 ELSE blind
    /\ AskHalt(blind' = MaxBlind)
    /\ UNCHANGED <<engine_vars, wire_vars, venue_vars, socket_vars, absent, asked, toAsk>>

-----------------------------------------------------------------------------
RecStep ==
    \/ RecBegin \/ (\E o \in Order : RecAsk(o) \/ RecAskFails(o)) \/ RecAnswer
    \/ RecAccount \/ RecOrders \/ RecCompare \/ RecFail

Next ==
    \/ \E o \in Order :
          \/ Submit(o) \/ Cancel(o)
          \/ PlaceAcked(o) \/ PlaceRefused(o) \/ PlaceUnknown(o) \/ CancelAnswered(o)
          \/ Land(o) \/ Expire(o)
          \/ \E lots \in 1 .. LotsOf[o] : Fill(o, lots)
    \/ PerformHalt \/ Send \/ Disconnect \/ Rekey \/ Deliver \/ RecStep

Spec == Init /\ [][Next]_vars

(* The reconciler is a task of the session that sleeps and goes on; its    *)
(* fetches may fail every time.                                            *)
Fairness == WF_vars(RecStep)

FairSpec == Spec /\ Fairness

(* No fetch and no query fails for ever.                                   *)
AnsweringSpec ==
    /\ FairSpec
    /\ SF_vars(RecOrders) /\ SF_vars(RecCompare)
    /\ \A o \in Order : SF_vars(RecAsk(o))
-----------------------------------------------------------------------------
(* No execution is booked twice, whether the socket repeats it, an order   *)
(* query tells it first, or a reconnect swallowed the frames before it     *)
(* (OrderRoute.booked_scaled).                                             *)
NothingBookedTwice == \A o \in Order : ledger[o] <= filled[o]

(* What the engine has closed as cancelled or expired is closed at the     *)
(* venue too, so "there is nothing at the venue to double-fill against"    *)
(* (resolve_unknown_outcomes); and requests leave in order, one at a time: *)
(* an acknowledged cancel means that the order is not working and will not *)
(* be (drain).                                                             *)
ClosedIsGone == \A o \in Order :
    /\ status[o] \in {"cancelled", "expired"} => venue[o] # "working"
    /\ cancel[o] = "acked" /\ post[o] # "none" => post[o] # "sent" /\ venue[o] # "working"

(* The check that catches a missed fill: whatever reports were lost,       *)
(* refused or misread, a ledger that differs from the account comes to     *)
(* agree with it or halts the session (the module docstring of reconcile). *)
Differs == Net(ledger) # Net(filled)

MissedFillIsCaught == Differs ~> (~ Differs \/ halted # "no")

(* "transient; the next pass retries" (resolve_unknown_outcomes): an order *)
(* that has ended at the venue does not stay open here for ever, if the    *)
(* queries are answered often enough.                                      *)
EndedIsClosed ==
    \A o \in Order : (Open(o) /\ acked[o] /\ venue[o] \in {"canceled", "expired"})
                        ~> (~ Open(o) \/ halted # "no")
=============================================================================
