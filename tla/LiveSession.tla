---------------------------- MODULE LiveSession ----------------------------
(***************************************************************************)
(* A live session from its pump to its end (perplab.live.session): the     *)
(* outage clock that halts a blind session, the stop that control.json     *)
(* asks for, and the ending that has to leave the venue's book and the     *)
(* account as the record says.  The session is of the production venue,    *)
(* whose marks are polled; the venue and the socket are external.          *)
(* What happens between two awaits of the session is one step; the sender, *)
(* the report stream and the reconciler work in between.  A POST is        *)
(* answered, or not, within its step (see Orders for the rest).            *)
(***************************************************************************)
EXTENDS Integers, Sequences, SequencesExt

CONSTANT MaxDown        \* max_disconnect_seconds, in ticks

VARIABLES stage,        \* how far the session has come
          since,        \* _market_down_since: ticks counted, or Up
          outage,       \* the ticks the market has really been away, or Up
          frozen,       \* the ticks the mark has really been away, or Up
          polling,      \* the mark poller's task lives
          checked,      \* the pump has come round since the last tick
          misread,      \* a frame that could not be read started the clock
          owed,         \* what a check found away too long, over a position
          breach,       \* the halt: why it was asked for and how far it came
          armed,        \* kill_switch.flatten
          flatten,      \* _flatten_on_stop
          control,      \* control.json
          here, there,  \* the orders in the engine, and at the venue
          lots,         \* what each has executed there
          unanswered,   \* the orders whose POST was not answered
          owned, held,  \* the position in the ledger, and at the venue
          wire, reports, \* requests queued; the orders with a report under way
          late,         \* whether the strategy submitted behind the ending's flush
          noted,        \* what the end has put on record as not done
          final,        \* final_reconciliation
          listed, after \* open_at_exchange; the orders that landed behind it

clocks  == <<since, outage, frozen, polling, checked, misread, owed>>
choices == <<armed, flatten, control>>
book    == <<here, there, lots, unanswered, owned, held, wire, reports, late>>
records == <<noted, final, listed, after>>
session == <<stage, clocks, breach, choices, book, records>>

Up == -1
Capped(n) == IF n > MaxDown THEN MaxDown + 1 ELSE n

(* What rests when the session stops, what the strategy submits at its end, *)
(* and the platform's exits: of the stop or the halt, and of a last halt.   *)
Rests == "rests"
Reply == "reply"
Exits == {"exit", "lastExit"}
Ours == {Rests, Reply} \cup Exits

Placing(o) == [kind |-> "place", order |-> o]

Halted == breach.is = "performed"
Open(o) == here[o] = "open"
Unlisted == {"could not be listed"}

TypeOK ==
    /\ stage \in {"pump", "parting", "flush", "grace", "cancel", "clear", "flatten",
                  "check", "again", "list", "listed", "done"}
    /\ \A c \in {since, outage, frozen} : c \in Up .. MaxDown + 1
    /\ \A b \in {polling, checked, misread, armed, flatten, late} : b \in BOOLEAN
    /\ owed \subseteq {"market", "mark"}
    /\ breach \in [is : {"no", "asked", "performed"}, why : {"none", "blind", "limit", "mismatch"}]
    /\ control \in {"none", "unset", "keep", "close"}
    /\ here \in [Ours -> {"none", "open", "ended"}]
    /\ there \in [Ours -> {"none", "working", "filled", "cancelled"}]
    /\ lots \in [Ours -> Int] /\ reports \subseteq Ours
    /\ unanswered \subseteq Ours /\ after \subseteq Ours
    /\ listed \in SUBSET Ours \cup {Unlisted}
    /\ owned \in Int /\ held \in Int
    /\ final \in {"none", "agrees", "mismatch", "unverified"}

(* At the pump, or as it ends, a halt perhaps pending.                     *)
InitAt(s) ==
    /\ stage = s
    /\ since = Up /\ outage = Up /\ frozen = Up /\ polling = TRUE
    /\ checked = TRUE /\ misread = FALSE /\ owed = {}
    /\ \/ breach = [is |-> "no", why |-> "none"]
       \/ s = "parting" /\ breach = [is |-> "asked", why |-> "limit"]
    /\ armed \in BOOLEAN /\ flatten \in BOOLEAN /\ control = "none"
    /\ here = [o \in Ours |-> IF o = Rests THEN "open" ELSE "none"]
    /\ there = [o \in Ours |-> IF o = Rests THEN "working" ELSE "none"]
    /\ lots = [o \in Ours |-> 0] /\ unanswered = {}
    /\ held \in {0, 1} /\ owned = held
    /\ wire = <<>> /\ reports = {} /\ late = FALSE
    /\ noted = {} /\ final = "none" /\ listed = {} /\ after = {}

-----------------------------------------------------------------------------
(* The wire.  What rests buys one, a reply sells one, and an exit closes    *)
(* what there is to close.                                                 *)

Lots(o) ==
    CASE o = Rests -> 1
      [] o = Reply -> -1
      [] o \in Exits -> -held

Executed(o) ==
    /\ lots' = [lots EXCEPT ![o] = Lots(o)]
    /\ held' = held + Lots(o)
    /\ reports' = reports \cup {o}

(* Whatever the strategy hears of may make it submit, until it is halted:  *)
(* from these orders and requests on.                                      *)
MayReply(orders, requests) ==
    \/ here' = orders /\ wire' = requests /\ UNCHANGED late
    \/ /\ ~ Halted /\ orders[Reply] = "none"
       /\ here' = [orders EXCEPT ![Reply] = "open"]
       /\ wire' = Append(requests, Placing(Reply))
       /\ late' = (stage \notin {"pump", "parting", "flush"})

(* _send of a POST: refused, lost or landed, the last two perhaps without  *)
(* an answer.  An exit is a market order and is executed at once.          *)
Sends(o) ==
    \/ /\ here' = [here EXCEPT ![o] = "ended"]
       /\ UNCHANGED <<there, lots, unanswered, held, reports, after>>
    \/ /\ UNCHANGED <<here, there, lots, held, reports, after>>
       /\ unanswered' = unanswered \cup {o}
    \/ /\ there' = [there EXCEPT ![o] = IF o \in Exits THEN "filled" ELSE "working"]
       /\ IF o \in Exits THEN Executed(o) ELSE UNCHANGED <<lots, held, reports>>
       /\ unanswered' \in {unanswered, unanswered \cup {o}}
       /\ after' = IF stage = "listed" THEN after \cup {o} ELSE after
       /\ UNCHANGED here

(* _send of a DELETE, which may take effect or not.                        *)
Cancels(o) ==
    /\ \/ /\ there[o] = "working"
          /\ there' = [there EXCEPT ![o] = "cancelled"]
          /\ reports' = reports \cup {o}
       \/ UNCHANGED <<there, reports>>
    /\ UNCHANGED <<here, lots, unanswered, held, after>>

Send ==
    /\ stage # "done" /\ wire # <<>>
    /\ LET q == Head(wire) IN IF q.kind = "place" THEN Sends(q.order) ELSE Cancels(q.order)
    /\ wire' = Tail(wire)
    /\ UNCHANGED <<stage, clocks, breach, choices, owned, late, noted, final, listed>>

VenueFills(o) ==
    /\ stage # "done" /\ there[o] = "working"
    /\ there' = [there EXCEPT ![o] = "filled"]
    /\ Executed(o)
    /\ UNCHANGED <<stage, clocks, breach, choices, here, unanswered, owned, wire, late, records>>

(* An open order has ended as the venue says; what it executed is booked.  *)
Ends(o) ==
    /\ owned' = owned + lots[o]
    /\ MayReply([here EXCEPT ![o] = "ended"], wire)

(* on_report: a finished order's report is a duplicate.                    *)
Deliver(o) ==
    /\ stage # "done" /\ o \in reports
    /\ reports' = reports \ {o} /\ unanswered' = unanswered \ {o}
    /\ IF Open(o) THEN Ends(o) ELSE UNCHANGED <<here, owned, wire, late>>
    /\ UNCHANGED <<stage, clocks, breach, choices, there, lots, held, records>>

(* resolve_unknown_outcomes, of a pass of the reconciler: what the venue   *)
(* has no record of is retired.                                            *)
Resolve(o) ==
    /\ stage # "done" /\ o \in unanswered
    /\ unanswered' = unanswered \ {o}
    /\ IF Open(o) /\ there[o] # "working" THEN Ends(o) ELSE UNCHANGED <<here, owned, wire, late>>
    /\ UNCHANGED <<stage, clocks, breach, choices, there, lots, held, reports, records>>

(* The user-data stream reconnects, and tells nothing of before.           *)
Lose ==
    /\ stage # "done" /\ reports # {}
    /\ reports' = {}
    /\ UNCHANGED <<stage, clocks, breach, choices, here, there, lots, unanswered, owned, held, wire, late, records>>

-----------------------------------------------------------------------------
(* Halts.                                                                  *)

(* request_halt: the first breach is the halt.                             *)
Asked(b, why) == IF b.is = "no" THEN [is |-> "asked", why |-> why] ELSE b

(* observe_disconnect, for the ticks down.                                 *)
Observed(b, down) == IF down > MaxDown /\ owned # 0 THEN Asked(b, "blind") ELSE b

(* _perform_halt at a real venue: a cancel for every open order and, armed, *)
(* an exit.  Nothing is booked.                                             *)
Performed(exit) ==
    /\ breach' = [breach EXCEPT !.is = "performed"]
    /\ LET cancels == SetToSeq({[kind |-> "cancel", order |-> o] : o \in {p \in Ours : Open(p)}})
           exits == armed /\ owned # 0 IN
       /\ wire' = wire \o cancels \o (IF exits THEN <<Placing(exit)>> ELSE <<>>)
       /\ here' = IF exits THEN [here EXCEPT ![exit] = "open"] ELSE here
    /\ UNCHANGED late

PerformPending == IF breach.is = "asked" THEN Performed("exit") ELSE UNCHANGED <<breach, here, wire, late>>

(* A limit of the risk layer, the memory guard, or a pass of the reconciler *)
(* that runs beside the ending.                                             *)
Breach ==
    /\ stage # "done" /\ breach.is = "no"
    /\ \/ stage = "pump" /\ breach' = Asked(breach, "limit")
       \/ owned # held /\ breach' = Asked(breach, "mismatch")
    /\ UNCHANGED <<stage, clocks, choices, book, records>>

-----------------------------------------------------------------------------
(* The feed's outages.                                                     *)

Counted(c) == IF c = Up THEN Up ELSE Capped(c + 1)

Tick ==
    /\ stage = "pump" /\ checked
    /\ since' = Counted(since) /\ outage' = Counted(outage) /\ frozen' = Counted(frozen)
    /\ checked' = FALSE
    /\ UNCHANGED <<stage, polling, misread, owed, breach, choices, book, records>>

(* A DISCONNECT: the first one starts the clock.                           *)
Down(c) == IF c = Up THEN 0 ELSE c

(* The socket drops, or another attempt to connect fails.                  *)
Disconnect ==
    /\ stage = "pump"
    /\ outage' = IF outage = Up THEN 0 ELSE outage
    /\ since' = Down(since)
    /\ UNCHANGED <<stage, frozen, polling, checked, misread, owed, breach, choices, book, records>>

(* What has been away too long, over a position.                           *)
Blind(sources) ==
    {c \in sources : owned # 0 /\ (IF c = "market" THEN outage ELSE frozen) > MaxDown}

(* It connects: the outage is measured once more, and is over.             *)
Reconnect ==
    /\ stage = "pump" /\ outage # Up
    /\ outage' = Up /\ since' = Up
    /\ breach' = Observed(breach, since)
    /\ owed' = owed \cup Blind({"market"})
    /\ UNCHANGED <<stage, frozen, polling, checked, misread, choices, book, records>>

(* _on_message cannot read a frame and reports a DISCONNECT.               *)
BadFrame ==
    /\ stage = "pump" /\ outage = Up
    /\ since' = Down(since) /\ misread' = TRUE
    /\ UNCHANGED <<stage, outage, frozen, polling, checked, owed, breach, choices, book, records>>

(* A poll of the marks fails.  _on_status asks the feed for polls_marks,   *)
(* which only its venue has: the AttributeError ends the poller's task.    *)
MarkPollFails ==
    /\ stage = "pump" /\ polling
    /\ polling' = FALSE /\ frozen' = 0
    /\ UNCHANGED <<stage, since, outage, checked, misread, owed, breach, choices, book, records>>

-----------------------------------------------------------------------------
(* The pump.                                                               *)

(* request_stop: every request writes the file anew.                       *)
WriteControl(c) ==
    /\ stage = "pump" /\ control' = c
    /\ UNCHANGED <<stage, clocks, breach, armed, flatten, book, records>>

(* Wrong variant of Checked: an outage is measured when it is over.        *)
Checked_WhenOver(b) == b

(* _check_disconnect, on a halt that is asked for or not.                  *)
Checked(b) == IF since = Up THEN b ELSE Observed(b, since)

(* One turn of the loop: the pending halt is performed while draining, the *)
(* outage is checked; then the log's cap, the key's expiry, which leaves   *)
(* the positions open, the control file, or the stop event may end it.     *)
Pump ==
    /\ stage = "pump" /\ ~ Halted
    /\ IF breach.is = "asked" THEN Performed("exit")
       ELSE /\ breach' = Checked(breach)
            /\ UNCHANGED <<here, wire, late>>
    /\ owed' = owed \cup Blind({"market", "mark"})
    /\ checked' = TRUE
    /\ \/ stage' = "parting" /\ flatten' \in {flatten, FALSE}
       \/ /\ control # "none" /\ stage' = "parting"
          /\ flatten' = IF control = "unset" THEN flatten ELSE control = "close"
       \/ control = "none" /\ stage' = "pump" /\ UNCHANGED flatten
    /\ UNCHANGED <<since, outage, frozen, polling, misread, armed, control, there, lots, unanswered,
                   owned, held, reports, records>>

PumpHalted ==
    /\ stage = "pump" /\ Halted
    /\ stage' = "parting"
    /\ UNCHANGED <<clocks, breach, choices, book, records>>

-----------------------------------------------------------------------------
(* _end_live.                                                              *)

Goes(s) == stage' = s /\ UNCHANGED <<clocks, choices>>

(* The last events are drained, and a halt that is pending is performed;   *)
(* on_stop runs in between, and what it submits is refused after a halt.   *)
Part ==
    /\ stage = "parting"
    /\ IF breach.is = "asked" THEN Performed("exit")
       ELSE MayReply(here, wire) /\ UNCHANGED breach
    /\ Goes("flush")
    /\ UNCHANGED <<there, lots, unanswered, owned, held, reports, records>>

Flushed ==
    /\ stage = "flush" /\ wire = <<>> /\ Goes("grace")
    /\ UNCHANGED <<breach, book, records>>

(* _settle_until waits for the orders to end, or long enough.              *)
Graced ==
    /\ stage = "grace" /\ Goes("cancel")
    /\ UNCHANGED <<breach, book, records>>

(* cancel_all_at_exchange.  That it failed is an event; nobody looks at it. *)
CancelAll ==
    /\ stage = "cancel" /\ Goes("clear")
    /\ \/ /\ there' = [o \in Ours |-> IF there[o] = "working" THEN "cancelled" ELSE there[o]]
          /\ reports' = reports \cup {o \in Ours : there[o] = "working"}
          /\ UNCHANGED noted
       \/ noted' = noted \cup {"cancel-all"} /\ UNCHANGED <<there, reports>>
    /\ UNCHANGED <<breach, here, lots, unanswered, owned, held, wire, late, final, listed, after>>

(* _cancel_all in the engine alone, of what is still open there.           *)
Swept == [o \in Ours |-> IF Open(o) THEN "ended" ELSE here[o]]

(* The rest of _close_book_live: sweep, and flatten if the stop asks so.   *)
Close ==
    /\ stage = "clear" /\ ~ Halted
    /\ noted' = IF \E o \in Ours : Open(o) THEN noted \cup {"open orders"} ELSE noted
    /\ IF flatten /\ owned # 0
       THEN /\ Goes("flatten")
            /\ here' = [Swept EXCEPT !["exit"] = "open"]
            /\ wire' = Append(wire, Placing("exit")) /\ UNCHANGED late
       ELSE /\ Goes("check")
            /\ IF \E o \in Ours : Open(o) THEN MayReply(Swept, wire) ELSE UNCHANGED <<here, wire, late>>
    /\ UNCHANGED <<breach, there, lots, unanswered, owned, held, reports, final, listed, after>>

NotFlat == IF owned # 0 THEN {"not flat"} ELSE {}

Flattened ==
    /\ stage = "flatten" /\ Goes("check")
    /\ wire = <<>>
    /\ noted' = noted \cup NotFlat
    /\ UNCHANGED <<breach, book, final, listed, after>>

(* The rest of _settle_halt.                                               *)
SettleHalt ==
    /\ stage = "clear" /\ Halted /\ Goes("check")
    /\ wire = <<>>
    /\ noted' = noted \cup (IF armed THEN NotFlat ELSE {})
    /\ here' = Swept
    /\ UNCHANGED <<breach, there, lots, unanswered, owned, held, wire, late, reports, final, listed, after>>

(* Wrong variant of Compared: while reports are under way, a difference is *)
(* put down to them.                                                       *)
Compared_UnderWay == IF owned = held \/ reports # {} THEN "agrees" ELSE "mismatch"

(* check_once, after its queries: how the ledger and the account compare.  *)
Compared == IF owned = held THEN "agrees" ELSE "mismatch"

(* _record_final_state: a mismatch asks for a halt, and a halt that is     *)
(* pending is performed then, and only then; its exits are flushed and     *)
(* waited for, and the account is looked at again.                         *)
Check ==
    /\ stage = "check"
    /\ \/ final' = "unverified" /\ Goes("list") /\ UNCHANGED <<breach, here, wire, late>>
       \/ /\ final' = Compared
          /\ IF final' = "mismatch" /\ ~ Halted
             THEN Performed("lastExit") /\ Goes("again")
             ELSE Goes("list") /\ UNCHANGED <<breach, here, wire, late>>
    /\ UNCHANGED <<there, lots, unanswered, owned, held, reports, noted, listed, after>>

CheckAgain ==
    /\ stage = "again" /\ wire = <<>> /\ Goes("list")
    /\ final' \in {"unverified", Compared}
    /\ UNCHANGED <<breach, book, noted, listed, after>>

(* open_orders, as the venue lists them.                                   *)
Working == {o \in Ours : there[o] = "working"}

List ==
    /\ stage = "list" /\ Goes("listed")
    /\ listed' \in {Working, Unlisted}
    /\ UNCHANGED <<breach, book, noted, final, after>>

(* _finalise, and the live tasks end.                                      *)
Finalise ==
    /\ stage = "listed" /\ Goes("done")
    /\ UNCHANGED <<breach, book, records>>

-----------------------------------------------------------------------------
Next ==
    \/ Send \/ Lose \/ Breach
    \/ \E o \in Ours : VenueFills(o) \/ Deliver(o) \/ Resolve(o)
    \/ Tick \/ Disconnect \/ Reconnect \/ BadFrame \/ MarkPollFails
    \/ \E c \in {"unset", "keep", "close"} : WriteControl(c)
    \/ Pump \/ PumpHalted
    \/ Part \/ Flushed \/ Graced \/ CancelAll \/ Close \/ Flattened \/ SettleHalt
    \/ Check \/ CheckAgain \/ List \/ Finalise

Spec == InitAt("pump") /\ [][Next]_session

-----------------------------------------------------------------------------
(* A session that has a position is halted when its market has been away   *)
(* for longer than the ceiling, whether it comes back or not; no shorter   *)
(* outage halts it, unless a frame could not be read; and the halt is      *)
(* carried out whatever ends the session (_check_disconnect).              *)
BlindIsHalted ==
    /\ "market" \in owed => breach.is # "no"
    /\ breach.why = "blind" => "market" \in owed \/ misread
    /\ "market" \in owed /\ stage \notin {"pump", "parting"} => Halted

(* "a dead poller freezes every number the mark feeds, which is spec 7's   *)
(* disconnect state": the marks' own clock halts too (_mark_down_since).   *)
FrozenIsHalted == "mark" \in owed => breach.is # "no"

(* What the ending leaves behind is on its record: an order that works at  *)
(* the venue is listed, unless it landed behind the list or nothing could  *)
(* be listed; a ledger that differs from the account, or a position that   *)
(* was to be closed, has a mismatch, an unverified account, an order left  *)
(* or a note (_record_final_state, _end_live).  A strategy may still       *)
(* submit behind the flush, on what it hears while its book is closed, and *)
(* nobody waits for that order: what is not on the record is then exactly  *)
(* what that order executed, and nothing else.                             *)
OnRecord == final # "agrees" \/ listed # {} \/ noted # {}

EndIsTold == stage = "done" =>
    /\ listed = Unlisted \/ Working \ after \subseteq listed
    /\ owned # held => OnRecord \/ (late /\ held = owned + lots[Reply])
    /\ held # 0 /\ (IF Halted THEN armed ELSE flatten) => OnRecord \/ (late /\ held = lots[Reply])
=============================================================================
