---------------------------- MODULE Orders_proofs ----------------------------
(***************************************************************************)
(* Proofs about the orders of a live session, for any number of orders of  *)
(* any sizes, and a socket that repeats and loses what it likes.           *)
(***************************************************************************)
EXTENDS MCOrders, FiniteSetTheorems, TLAPS

Status == {"none", "pending", "working", "filled", "cancelled", "expired", "rejected"}
Report == [order : Order, kind : Kinds, cum : Nat]
Answer == [step : {"answered"}, left : SUBSET Order, order : Order, status : AtVenue, cum : Nat]

(* The parts of the type invariant.                                        *)
EngineOK ==
    /\ status \in [Order -> Status]
    /\ ledger \in [Order -> Nat] /\ booked \in [Order -> Nat]
    /\ acked \in [Order -> BOOLEAN] /\ unknown \in [Order -> BOOLEAN]
    /\ cancel \in [Order -> {"no", "sent", "acked"}]

WireOK ==
    /\ queue \in Seq(Request) /\ flight \subseteq Request
    /\ post \in [Order -> {"none", "sent", "landed", "refused", "lost"}]

VenueOK ==
    /\ venue \in [Order -> AtVenue] /\ filled \in [Order -> Nat]
    /\ \A o \in Order : filled[o] <= LotsOf[o]
    /\ stream \in Seq(Report) /\ connected \in BOOLEAN

RecOK ==
    /\ \/ rec.step \in {"idle", "orders", "compare"}
       \/ rec \in [step : {"ask"}, left : SUBSET Order]
       \/ rec \in Answer
    /\ absent \subseteq Order /\ asked \subseteq Order /\ toAsk \subseteq Order
    /\ blind \in 0 .. MaxBlind
    /\ halted \in {"no", "asked", "performed"}

(* What has been booked is part of what has been executed, and what a      *)
(* report or an answer says was executed is, and stays, executed.          *)
Booked   == \A o \in Order : ledger[o] <= booked[o] /\ booked[o] <= filled[o]
Reported == \A i \in DOMAIN stream : stream[i].cum <= filled[stream[i].order]
Answered == rec.step = "answered" => rec.cum <= filled[rec.order]

Types == EngineOK /\ WireOK /\ VenueOK /\ RecOK
Books == Booked /\ Reported /\ Answered

LEMMA TypesSuffice == Types /\ Books => TypeOK
<1> SUFFICES ASSUME Types, Books PROVE TypeOK
  OBVIOUS
<1>1. \A o \in Order : {ledger[o], booked[o], filled[o]} \subseteq 0 .. LotsOf[o]
  BY OrderAssumption DEF Types, Books, EngineOK, VenueOK, Booked
<1> QED
  BY <1>1 DEF Types, EngineOK, WireOK, VenueOK, RecOK, TypeOK, Status, Report,
     Answer

-----------------------------------------------------------------------------
(* Queues.                                                                 *)

LEMMA Appended ==
    ASSUME NEW S, NEW s \in Seq(S), NEW e \in S
    PROVE  /\ Append(s, e) \in Seq(S)
           /\ \A i \in DOMAIN Append(s, e) : \/ i \in DOMAIN s /\ Append(s, e)[i] = s[i]
                                             \/ i = Len(s) + 1 /\ Append(s, e)[i] = e
           /\ \A i \in DOMAIN s : i \in DOMAIN Append(s, e) /\ Append(s, e)[i] = s[i]
           /\ Len(s) + 1 \in DOMAIN Append(s, e) /\ Append(s, e)[Len(s) + 1] = e
           /\ \A i \in DOMAIN s : i \in Nat /\ i < Len(s) + 1
OBVIOUS

LEMMA Dropped ==
    ASSUME NEW S, NEW s \in Seq(S), s # << >>
    PROVE  /\ Tail(s) \in Seq(S) /\ Head(s) \in S
           /\ 1 \in DOMAIN s /\ Head(s) = s[1]
           /\ \A i \in DOMAIN Tail(s) : i \in Nat /\ i + 1 \in DOMAIN s /\ Tail(s)[i] = s[i + 1]
           /\ \A i \in DOMAIN s : i \in Nat /\ i >= 1
           /\ \A i \in DOMAIN s : i # 1 => i - 1 \in DOMAIN Tail(s) /\ Tail(s)[i - 1] = s[i]
OBVIOUS

(* The reports that are under way after a step of the venue.               *)
LEMMA Stream ==
    ASSUME VenueOK, NEW o \in Order, NEW kind \in Kinds, NEW cum \in Nat, Reports(o, kind, cum)
    PROVE  /\ stream' \in Seq(Report)
           /\ \A i \in DOMAIN stream' : \/ i \in DOMAIN stream /\ stream'[i] = stream[i]
                                        \/ stream'[i] = [order |-> o, kind |-> kind, cum |-> cum]
<1>1. [order |-> o, kind |-> kind, cum |-> cum] \in Report /\ stream \in Seq(Report)
  BY DEF Report, VenueOK
<1> QED  BY <1>1, Appended DEF Reports

-----------------------------------------------------------------------------
(* Types and books.                                                        *)

(* A booking of cum, no more than what was executed.                       *)
LEMMA Booking ==
    ASSUME EngineOK, VenueOK, Booked, NEW o \in Order, NEW cum \in Nat, cum <= filled[o],
           cum > booked[o],
           booked' = [booked EXCEPT ![o] = cum],
           ledger' = [ledger EXCEPT ![o] = @ + (cum - booked[o])] \/ ledger' = ledger
    PROVE  /\ ledger' \in [Order -> Nat] /\ booked' \in [Order -> Nat]
           /\ \A p \in Order : ledger'[p] <= booked'[p] /\ booked'[p] <= filled[p]
<1>1. /\ ledger[o] \in Nat /\ booked[o] \in Nat /\ filled[o] \in Nat
      /\ ledger[o] + (cum - booked[o]) \in Nat /\ ledger[o] + (cum - booked[o]) <= cum
      /\ ledger[o] <= cum
  BY DEF EngineOK, VenueOK, Booked
<1> QED  BY <1>1 DEF EngineOK, VenueOK, Booked

LEMMA EngineNext ==
    ASSUME Types, Books, [Next]_vars
    PROVE  EngineOK' /\ \A o \in Order : ledger'[o] <= booked'[o] /\ booked'[o] <= filled[o]
<1> EngineOK /\ VenueOK /\ Booked /\ RecOK
  BY DEF Types, Books
<1> DEFINE Ok == EngineOK' /\ \A o \in Order : ledger'[o] <= booked'[o] /\ booked'[o] <= filled[o]
           Flags == /\ acked' \in [Order -> BOOLEAN] /\ unknown' \in [Order -> BOOLEAN]
                    /\ cancel' \in [Order -> {"no", "sent", "acked"}]
                    /\ status' \in [Order -> Status]
<1>1. ASSUME Flags, UNCHANGED <<ledger, booked>> PROVE Ok
  BY <1>1 DEF EngineOK, Booked
<1>2. ASSUME Flags, NEW o \in Order, NEW cum \in Nat, cum <= filled[o], cum > booked[o],
             booked' = [booked EXCEPT ![o] = cum],
             ledger' = [ledger EXCEPT ![o] = @ + (cum - booked[o])] \/ ledger' = ledger
      PROVE  Ok
  BY <1>2, Booking DEF EngineOK
<1>3. ASSUME NEW o \in Order, Submit(o) \/ Cancel(o) \/ PlaceAcked(o) \/ PlaceRefused(o)
                              \/ PlaceUnknown(o)
      PROVE  Ok
  <2>1. Flags
    BY <1>3 DEF Submit, Cancel, PlaceAcked, PlaceRefused, PlaceUnknown,
       NoteAck, Becomes, EngineOK,
                Status
  <2> QED  BY <1>3, <2>1, <1>1 DEF Submit, Cancel, PlaceAcked, PlaceRefused,
      PlaceUnknown
<1>4. ASSUME NEW o \in Order, CancelAnswered(o) PROVE Ok
  BY <1>4, <1>1 DEF CancelAnswered, EngineOK
<1>5. CASE PerformHalt
  BY <1>5, <1>1 DEF PerformHalt, EngineOK
<1>6. CASE Deliver
  <2>1. PICK r \in Report : /\ r.cum <= filled[r.order]
                            /\ unknown' = [unknown EXCEPT ![r.order] = FALSE]
                            /\ Apply(r.order, r.kind, r.cum)
    BY <1>6, Dropped DEF Deliver, VenueOK, Books, Reported
  <2>2. r.order \in Order /\ r.cum \in Nat
    BY DEF Report
  <2>3. unknown' \in [Order -> BOOLEAN]
    BY <2>1 DEF EngineOK
  <2>4. CASE r.kind = "NEW" /\ NoteAck(r.order) /\ UNCHANGED <<ledger, booked, cancel>>
    BY <2>2, <2>3, <2>4, <1>1 DEF NoteAck, Becomes, EngineOK, Status
  <2>5. CASE r.kind = "TRADE" /\ Book(r.order, r.cum) /\ UNCHANGED <<acked, cancel>>
    <3>1. CASE ~ Open(r.order) \/ r.cum <= booked[r.order]
      BY <2>3, <2>5, <3>1, <1>1 DEF Book, EngineOK
    <3>2. CASE ~ (~ Open(r.order) \/ r.cum <= booked[r.order])
      <4>1. Flags
        BY <2>2, <2>3, <2>5, <3>2 DEF Book, Becomes, EngineOK, Status
      <4>2. /\ booked' = [booked EXCEPT ![r.order] = r.cum]
            /\ ledger' = [ledger EXCEPT ![r.order] = @ + (r.cum - booked[r.order])] \/ ledger' = ledger
        BY <2>5, <3>2 DEF Book
      <4>3. r.cum > booked[r.order]
        BY <2>2, <3>2 DEF EngineOK
      <4> QED  BY <2>1, <2>2, <4>1, <4>2, <4>3, <1>2
    <3> QED  BY <3>1, <3>2
  <2>6. CASE r.kind \in {"CANCELED", "EXPIRED"} /\ ~ (r.kind = "TRADE") /\ ~ (r.kind = "NEW")
    <3>1. UNCHANGED <<acked, ledger, booked>>
      BY <2>1, <2>6 DEF Apply
    <3>2. Flags
      BY <2>1, <2>2, <2>3, <2>6, <3>1 DEF Apply, Becomes, EngineOK, Status
    <3> QED  BY <3>1, <3>2, <1>1
  <2> QED  BY <2>1, <2>4, <2>5, <2>6 DEF Apply
<1>7. CASE RecAnswer
  <2>1. rec \in Answer /\ rec.order \in Order /\ rec.cum \in Nat /\ rec.cum <= filled[rec.order]
    BY <1>7 DEF RecAnswer, RecOK, Answer, Books, Answered
  <2>2. Flags
    BY <1>7, <2>1 DEF RecAnswer, Becomes, EngineOK, Status
  <2>3. CASE rec.status # "none" /\ rec.cum > booked[rec.order] /\ Open(rec.order)
    <3>1. /\ booked' = [booked EXCEPT ![rec.order] = rec.cum]
          /\ ledger' = [ledger EXCEPT ![rec.order] = @ + (rec.cum - booked[rec.order])]
             \/ ledger' = ledger
      BY <1>7, <2>3 DEF RecAnswer
    <3> QED  BY <2>1, <2>2, <2>3, <3>1, <1>2
  <2>4. CASE ~ (rec.status # "none" /\ rec.cum > booked[rec.order] /\ Open(rec.order))
    BY <1>7, <2>2, <2>4, <1>1 DEF RecAnswer
  <2> QED  BY <2>3, <2>4
<1>8. CASE UNCHANGED engine_vars
  BY <1>8, <1>1 DEF engine_vars, EngineOK
<1>9. ASSUME NEW o \in Order, Land(o) \/ Expire(o) \/ \E fills \in 1 .. LotsOf[o] : Fill(o, fills)
      PROVE  Ok
  BY <1>9, <1>8 DEF Land, Expire, Fill
<1>10. CASE Send \/ Disconnect \/ Rekey
  BY <1>10, <1>8 DEF Send, Disconnect, Rekey
<1>11. CASE RecBegin \/ (\E o \in Order : RecAsk(o) \/ RecAskFails(o)) \/ RecAccount \/ RecOrders
            \/ RecCompare \/ RecFail
  BY <1>11, <1>8 DEF RecBegin, RecAsk, RecAskFails, RecAccount, RecOrders,
     RecCompare, RecFail
<1>12. CASE UNCHANGED vars
  BY <1>12, <1>8 DEF vars
<1> QED
  BY <1>3, <1>4, <1>5, <1>6, <1>7, <1>9, <1>10, <1>11, <1>12 DEF Next, RecStep

(* The requests of a halt, one after another.                              *)
LEMMA Joined ==
    ASSUME NEW S, NEW s \in Seq(S), NEW n \in Nat, NEW t \in [1 .. n -> S]
    PROVE  /\ s \o t \in Seq(S)
           /\ \A i \in DOMAIN (s \o t) : \/ i \in DOMAIN s /\ (s \o t)[i] = s[i]
                                         \/ i > Len(s) /\ \E j \in 1 .. n : (s \o t)[i] = t[j]
           /\ \A i \in DOMAIN s : i \in DOMAIN (s \o t) /\ (s \o t)[i] = s[i]
           /\ \A i \in DOMAIN s : i <= Len(s)
<1>1. t \in Seq(S) /\ Len(t) = n
  OBVIOUS
<1>2. s \o t \in Seq(S) /\ Len(s \o t) = Len(s) + n /\ Len(s) \in Nat
  BY <1>1
<1>3. DOMAIN s = 1 .. Len(s) /\ DOMAIN (s \o t) = 1 .. Len(s) + n
  BY <1>2
<1>4. \A i \in 1 .. Len(s) + n : (s \o t)[i] = IF i <= Len(s) THEN s[i] ELSE t[i - Len(s)]
  BY <1>1
<1>5. \A i \in 1 .. Len(s) + n : i > Len(s) => i - Len(s) \in 1 .. n
  BY <1>2
<1>6. ASSUME NEW i \in DOMAIN (s \o t)
      PROVE  \/ i \in DOMAIN s /\ (s \o t)[i] = s[i]
             \/ i > Len(s) /\ \E j \in 1 .. n : (s \o t)[i] = t[j]
  <2>1. i \in 1 .. Len(s) + n
    BY <1>3
  <2>2. CASE i <= Len(s)
    BY <2>1, <2>2, <1>2, <1>3, <1>4
  <2>3. CASE i > Len(s)
    <3>1. (s \o t)[i] = t[i - Len(s)] /\ i - Len(s) \in 1 .. n
      BY <2>1, <2>3, <1>2, <1>4, <1>5
    <3> QED  BY <2>3, <3>1
  <2> QED  BY <2>1, <2>2, <2>3, <1>2
<1>7. ASSUME NEW i \in DOMAIN s
      PROVE  i \in DOMAIN (s \o t) /\ (s \o t)[i] = s[i] /\ i <= Len(s)
  <2>1. i \in 1 .. Len(s) + n /\ i <= Len(s)
    BY <1>2, <1>3
  <2> QED  BY <2>1, <1>3, <1>4
<1> QED  BY <1>2, <1>6, <1>7

LEMMA HaltCancels ==
    ASSUME WireOK, PerformHalt
    PROVE  /\ queue' \in Seq(Request)
           /\ \A i \in DOMAIN queue' : \/ i \in DOMAIN queue /\ queue'[i] = queue[i]
                                       \/ i > Len(queue) /\ queue'[i].kind = "cancel"
                                          /\ queue'[i].order \in Order /\ Open(queue'[i].order)
           /\ \A i \in DOMAIN queue : i \in DOMAIN queue' /\ queue'[i] = queue[i]
           /\ \A i \in DOMAIN queue : i <= Len(queue)
<1> DEFINE opens == {o \in Order : Open(o)}
           n     == Cardinality(opens)
<1>1. n \in Nat
  BY OrderAssumption, FS_Subset, FS_CardinalityType
<1>2. PICK s \in [1 .. n -> opens] :
          queue' = queue \o [i \in DOMAIN s |-> [kind |-> "cancel", order |-> s[i]]]
  BY DEF PerformHalt
<1> DEFINE t == [i \in 1 .. n |-> [kind |-> "cancel", order |-> s[i]]]
<1>3. t \in [1 .. n -> Request] /\ queue' = queue \o t
  BY <1>2 DEF Request
<1>4. \A j \in 1 .. n : t[j].kind = "cancel" /\ t[j].order \in Order /\ Open(t[j].order)
  BY <1>2
<1> HIDE DEF t, n
<1>5. queue \in Seq(Request)
  BY DEF WireOK
<1>6. /\ queue \o t \in Seq(Request)
      /\ \A i \in DOMAIN (queue \o t) :
            \/ i \in DOMAIN queue /\ (queue \o t)[i] = queue[i]
            \/ i > Len(queue) /\ \E j \in 1 .. n : (queue \o t)[i] = t[j]
      /\ \A i \in DOMAIN queue : i \in DOMAIN (queue \o t) /\ (queue \o t)[i] = queue[i]
      /\ \A i \in DOMAIN queue : i <= Len(queue)
  BY <1>1, <1>3, <1>5, Joined
<1> QED  BY <1>3, <1>4, <1>6

LEMMA WireNext ==
    ASSUME Types, [Next]_vars
    PROVE  WireOK'
<1> WireOK
  BY DEF Types
<1>1. ASSUME NEW o \in Order, Submit(o) \/ Cancel(o) PROVE WireOK'
  <2>1. \A k \in {"place", "cancel"} : [kind |-> k, order |-> o] \in Request
    BY DEF Request
  <2>2. UNCHANGED <<flight, post>>
    BY <1>1 DEF Submit, Cancel
  <2>3. queue' \in Seq(Request)
    BY <1>1, <2>1, Appended DEF Submit, Cancel, WireOK
  <2> QED  BY <2>2, <2>3 DEF WireOK
<1>2. CASE PerformHalt
  BY <1>2, HaltCancels DEF PerformHalt, WireOK
<1>3. CASE Send
  <2>1. Tail(queue) \in Seq(Request) /\ Head(queue) \in Request
    BY <1>3, Dropped DEF Send, WireOK
  <2> QED  BY <1>3, <2>1 DEF Send, WireOK, Request
<1>4. ASSUME NEW o \in Order,
             PlaceAcked(o) \/ PlaceRefused(o) \/ PlaceUnknown(o) \/ CancelAnswered(o)
      PROVE  WireOK'
  BY <1>4 DEF PlaceAcked, PlaceRefused, PlaceUnknown, CancelAnswered, Returned,
     WireOK
<1>5. ASSUME NEW o \in Order, Land(o) PROVE WireOK'
  BY <1>5 DEF Land, WireOK
<1>6. CASE UNCHANGED wire_vars
  BY <1>6 DEF wire_vars, WireOK
<1>7. ASSUME NEW o \in Order, Expire(o) \/ \E fills \in 1 .. LotsOf[o] : Fill(o, fills) PROVE WireOK'
  BY <1>7, <1>6 DEF Expire, Fill
<1>8. CASE Disconnect \/ Rekey \/ Deliver \/ UNCHANGED vars
  BY <1>8, <1>6 DEF Disconnect, Rekey, Deliver, vars
<1>9. CASE RecStep
  BY <1>9, <1>6 DEF RecStep, RecBegin, RecAsk, RecAskFails, RecAnswer,
     RecAccount, RecOrders,
                    RecCompare, RecFail
<1> QED
  BY <1>1, <1>2, <1>3, <1>4, <1>5, <1>7, <1>8, <1>9 DEF Next

(* The executed quantity only grows, and reports tell what was executed.   *)
LEMMA VenueNext ==
    ASSUME Types, Reported, [Next]_vars
    PROVE  VenueOK' /\ Reported' /\ \A o \in Order : filled[o] <= filled'[o]
<1> VenueOK /\ Reported /\ WireOK /\ RecOK
  BY DEF Types
<1> DEFINE Ok == VenueOK' /\ Reported' /\ \A o \in Order : filled[o] <= filled'[o]
<1>1. ASSUME UNCHANGED <<filled, connected>>, venue' \in [Order -> AtVenue],
             stream' \in Seq(Report),
             \A i \in DOMAIN stream' : \/ i \in DOMAIN stream /\ stream'[i] = stream[i]
                                       \/ stream'[i].cum <= filled[stream'[i].order]
      PROVE  Ok
  <2>1. \A o \in Order : filled[o] \in Nat
    BY DEF VenueOK
  <2> QED  BY <1>1, <2>1 DEF VenueOK, Reported
<1>2. CASE UNCHANGED <<venue_vars, socket_vars>>
  BY <1>2, <1>1 DEF venue_vars, socket_vars, VenueOK
<1>3. ASSUME NEW o \in Order, CancelAnswered(o) PROVE Ok
  <2>1. venue' \in [Order -> AtVenue] /\ UNCHANGED <<filled, connected>>
    BY <1>3 DEF CancelAnswered, VenueOK, AtVenue
  <2>2. CASE Reports(o, "CANCELED", filled[o])
    <3>1. "CANCELED" \in Kinds /\ filled[o] \in Nat /\ filled[o] <= filled[o]
      BY DEF Kinds, VenueOK
    <3> QED  BY <2>1, <2>2, <3>1, <1>1, Stream
  <2>3. CASE UNCHANGED stream
    BY <2>1, <2>3, <1>1 DEF VenueOK
  <2> QED  BY <1>3, <2>2, <2>3 DEF CancelAnswered
<1>4. ASSUME NEW o \in Order, Land(o) PROVE Ok
  <2>1. venue' \in [Order -> AtVenue] /\ UNCHANGED <<filled, connected>>
    BY <1>4 DEF Land, VenueOK, AtVenue
  <2>2. CASE Reports(o, "NEW", 0)
    <3>1. "NEW" \in Kinds /\ 0 <= filled[o]
      BY DEF Kinds, VenueOK
    <3> QED  BY <2>1, <2>2, <3>1, <1>1, Stream
  <2>3. CASE UNCHANGED stream
    BY <2>1, <2>3, <1>1 DEF VenueOK
  <2> QED  BY <1>4, <2>2, <2>3 DEF Land
<1>5. ASSUME NEW o \in Order, Expire(o) PROVE Ok
  <2>1. venue' \in [Order -> AtVenue] /\ UNCHANGED <<filled, connected>>
    BY <1>5 DEF Expire, VenueOK, AtVenue
  <2>2. "EXPIRED" \in Kinds /\ filled[o] \in Nat /\ filled[o] <= filled[o]
    BY DEF Kinds, VenueOK
  <2> QED  BY <1>5, <2>1, <2>2, <1>1, Stream DEF Expire
<1>6. ASSUME NEW o \in Order, NEW fills \in 1 .. LotsOf[o], Fill(o, fills) PROVE Ok
  <2>1. /\ filled[o] \in Nat /\ fills \in Nat /\ filled[o] + fills \in Nat
        /\ filled[o] + fills <= LotsOf[o] /\ LotsOf[o] \in Nat
    <3>1. LotsOf[o] \in Nat /\ filled[o] \in Nat
      BY OrderAssumption DEF VenueOK
    <3>2. fills \in Nat /\ filled[o] + fills <= LotsOf[o]
      BY <1>6, <3>1 DEF Fill
    <3> QED  BY <3>1, <3>2
  <2>2. /\ filled' = [filled EXCEPT ![o] = filled[o] + fills] /\ filled'[o] = filled[o] + fills
        /\ filled' \in [Order -> Nat]
    BY <1>6, <2>1 DEF Fill, VenueOK
  <2>3. /\ \A p \in Order : filled[p] <= filled'[p] /\ filled[p] \in Nat /\ filled'[p] \in Nat
        /\ \A p \in Order : filled'[p] <= LotsOf[p]
    BY <2>1, <2>2 DEF VenueOK
  <2>4. venue' \in [Order -> AtVenue] /\ UNCHANGED connected
    BY <1>6 DEF Fill, VenueOK, AtVenue
  <2>5. /\ stream' \in Seq(Report)
        /\ \A i \in DOMAIN stream' : \/ i \in DOMAIN stream /\ stream'[i] = stream[i]
                                     \/ stream'[i] = [order |-> o, kind |-> "TRADE", cum |-> filled'[o]]
    <3>1. "TRADE" \in Kinds /\ Reports(o, "TRADE", filled'[o]) /\ filled'[o] \in Nat
      BY <1>6, <2>3 DEF Kinds, Fill
    <3> QED  BY <3>1, Stream
  <2>6. \A i \in DOMAIN stream : stream[i] \in Report
    BY DEF VenueOK
  <2>7. Reported'
    <3> SUFFICES ASSUME NEW i \in DOMAIN stream' PROVE stream'[i].cum <= filled'[stream'[i].order]
      BY DEF Reported
    <3>1. CASE i \in DOMAIN stream /\ stream'[i] = stream[i]
      <4>1. stream[i].cum <= filled[stream[i].order] /\ stream[i].order \in Order
            /\ stream[i].cum \in Nat
        BY <3>1, <2>6 DEF Reported, Report
      <4> QED  BY <3>1, <4>1, <2>3
    <3>2. CASE stream'[i] = [order |-> o, kind |-> "TRADE", cum |-> filled'[o]]
      BY <3>2, <2>3
    <3> QED  BY <2>5, <3>1, <3>2
  <2> QED  BY <2>2, <2>3, <2>4, <2>5, <2>7 DEF VenueOK
<1>7. CASE Disconnect \/ Rekey \/ Deliver
  <2>1. UNCHANGED venue_vars /\ connected' \in BOOLEAN
    BY <1>7 DEF Disconnect, Rekey, Deliver, VenueOK
  <2>2. /\ stream' \in Seq(Report)
        /\ \A i \in DOMAIN stream' : \E j \in DOMAIN stream : stream'[i] = stream[j]
    <3>1. CASE stream' = <<>>
      BY <3>1
    <3>2. CASE stream' = stream
      BY <3>2 DEF VenueOK
    <3>3. CASE stream # <<>> /\ stream' = Tail(stream)
      BY <3>3, Dropped DEF VenueOK
    <3> QED  BY <1>7, <3>1, <3>2, <3>3 DEF Disconnect, Rekey, Deliver
  <2>3. \A o \in Order : filled[o] \in Nat
    BY DEF VenueOK
  <2> QED  BY <2>1, <2>2, <2>3 DEF venue_vars, VenueOK, Reported
<1>8. ASSUME NEW o \in Order,
             Submit(o) \/ Cancel(o) \/ PlaceAcked(o) \/ PlaceRefused(o) \/ PlaceUnknown(o)
      PROVE  Ok
  BY <1>8, <1>2 DEF Submit, Cancel, PlaceAcked, PlaceRefused, PlaceUnknown
<1>9. CASE PerformHalt \/ Send \/ UNCHANGED vars
  BY <1>9, <1>2 DEF PerformHalt, Send, vars
<1>10. CASE RecStep
  BY <1>10, <1>2 DEF RecStep, RecBegin, RecAsk, RecAskFails, RecAnswer,
     RecAccount, RecOrders,
                     RecCompare, RecFail
<1> QED
  BY <1>3, <1>4, <1>5, <1>6, <1>7, <1>8, <1>9, <1>10 DEF Next

LEMMA RecNext ==
    ASSUME Types, Answered, [Next]_vars, VenueOK', \A o \in Order : filled[o] <= filled'[o]
    PROVE  RecOK' /\ Answered'
<1> RecOK /\ Answered /\ VenueOK /\ EngineOK
  BY DEF Types
<1>f. \A o \in Order : filled[o] \in Nat /\ filled'[o] \in Nat /\ filled[o] <= filled'[o]
  BY DEF VenueOK
<1>1. CASE UNCHANGED <<rec_vars, halted>>
  <2>1. RecOK'
    BY <1>1 DEF RecOK, rec_vars
  <2>2. Answered'
    <3> SUFFICES ASSUME rec.step = "answered" PROVE rec.cum <= filled'[rec.order]
      BY <1>1 DEF Answered, rec_vars
    <3>1. rec.order \in Order /\ rec.cum \in Nat /\ rec.cum <= filled[rec.order]
      BY DEF RecOK, Answer, Answered
    <3> QED  BY <3>1, <1>f
  <2> QED  BY <2>1, <2>2
<1>2. CASE PerformHalt
  <2>1. UNCHANGED rec_vars /\ halted' = "performed" /\ UNCHANGED filled
    BY <1>2 DEF PerformHalt, venue_vars
  <2> QED  BY <2>1 DEF RecOK, Answered, rec_vars
<1>3. CASE RecBegin
  BY <1>3 DEF RecBegin, RecOK, Answered
<1>4. ASSUME NEW o \in Order, RecAsk(o) PROVE RecOK' /\ Answered'
  <2>1. rec' \in Answer /\ rec'.order = o /\ rec'.cum = filled[o] /\ UNCHANGED filled
    BY <1>4 DEF RecAsk, RecOK, Answer, VenueOK, venue_vars
  <2>2. Answered'
    BY <2>1, <1>f DEF Answered
  <2> QED  BY <1>4, <2>1, <2>2 DEF RecAsk, RecOK
<1>5. ASSUME NEW o \in Order, RecAskFails(o) PROVE RecOK' /\ Answered'
  <2>1. rec \in [step : {"ask"}, left : SUBSET Order]
    BY <1>5 DEF RecAskFails, RecOK, Answer
  <2>2. rec' \in [step : {"ask"}, left : SUBSET Order]
    BY <1>5, <2>1 DEF RecAskFails
  <2> QED  BY <1>5, <2>2 DEF RecAskFails, RecOK, Answered
<1>6. CASE RecAnswer
  <2>1. rec \in Answer
    BY <1>6 DEF RecAnswer, RecOK, Answer
  <2>2. rec' \in [step : {"ask"}, left : SUBSET Order]
    BY <1>6, <2>1 DEF RecAnswer, Answer
  <2> QED  BY <1>6, <2>2 DEF RecAnswer, RecOK, Answered
<1>7. CASE RecAccount \/ RecOrders
  BY <1>7 DEF RecAccount, RecOrders, RecOK, Answered
<1>8. CASE RecCompare \/ RecFail
  <2>1. rec'.step = "idle" /\ halted' \in {"no", "asked", "performed"}
    BY <1>8 DEF RecCompare, RecFail, AskHalt, RecOK
  <2>2. blind' \in 0 .. MaxBlind
    BY <1>8, OrderAssumption DEF RecCompare, RecFail, RecOK
  <2>3. absent' \subseteq Order /\ asked' \subseteq Order /\ toAsk' \subseteq Order
    BY <1>8 DEF RecCompare, RecFail, RecOK
  <2> QED  BY <2>1, <2>2, <2>3 DEF RecOK, Answered
<1>9. ASSUME NEW o \in Order,
             \/ Submit(o) \/ Cancel(o) \/ PlaceAcked(o) \/ PlaceRefused(o) \/ PlaceUnknown(o)
             \/ CancelAnswered(o) \/ Land(o) \/ Expire(o)
             \/ \E fills \in 1 .. LotsOf[o] : Fill(o, fills)
      PROVE  RecOK' /\ Answered'
  BY <1>9, <1>1 DEF Submit, Cancel, PlaceAcked, PlaceRefused, PlaceUnknown,
     CancelAnswered, Land,
                    Expire, Fill
<1>10. CASE Send \/ Disconnect \/ Rekey \/ Deliver \/ UNCHANGED vars
  BY <1>10, <1>1 DEF Send, Disconnect, Rekey, Deliver, vars
<1> QED
  BY <1>2, <1>3, <1>4, <1>5, <1>6, <1>7, <1>8, <1>9, <1>10 DEF Next, RecStep

LEMMA BooksInit == Init => Types /\ Books
<1> SUFFICES ASSUME Init PROVE Types /\ Books
  OBVIOUS
<1>1. EngineOK
  BY DEF Init, EngineOK, Status
<1>2. WireOK
  BY DEF Init, WireOK
<1>3. VenueOK
  BY OrderAssumption DEF Init, VenueOK, AtVenue
<1>4. RecOK
  BY OrderAssumption DEF Init, RecOK
<1>5. Books
  BY DEF Init, Books, Booked, Reported, Answered
<1> QED  BY <1>1, <1>2, <1>3, <1>4, <1>5 DEF Types

LEMMA BooksNext ==
    ASSUME Types, Books, [Next]_vars
    PROVE  Types' /\ Books'
<1>1. EngineOK' /\ \A o \in Order : ledger'[o] <= booked'[o] /\ booked'[o] <= filled[o]
  BY EngineNext
<1>2. WireOK'
  BY WireNext
<1>3. VenueOK' /\ Reported' /\ \A o \in Order : filled[o] <= filled'[o]
  BY VenueNext DEF Books
<1>4. RecOK' /\ Answered'
  BY <1>3, RecNext DEF Books
<1>5. Booked'
  <2>1. \A o \in Order : booked'[o] \in Nat /\ filled[o] \in Nat /\ filled'[o] \in Nat
    BY <1>1, <1>3 DEF EngineOK, VenueOK, Types
  <2> QED  BY <1>1, <1>3, <2>1 DEF Booked
<1> QED  BY <1>1, <1>2, <1>3, <1>4, <1>5 DEF Types, Books

THEOREM BooksHold == Spec => [](Types /\ Books)
BY BooksInit, BooksNext, PTL DEF Spec

(* Orders, routes, requests, reports and the pass keep their types         *)
(* (live/exchange_transport, live/reconcile).                              *)
THEOREM TypeCorrect == Spec => []TypeOK
<1>1. Types /\ Books => TypeOK
  BY TypesSuffice
<1> QED  BY <1>1, BooksHold, PTL

(* For any orders, and whatever the socket repeats, loses or tells after   *)
(* an order query: what the ledger has booked of an order has been         *)
(* executed (OrderRoute.booked_scaled, _book).                             *)
THEOREM BookedOnce == Spec => []NothingBookedTwice
<1>1. Types /\ Books => NothingBookedTwice
  <2> SUFFICES ASSUME Types, Books, NEW o \in Order PROVE ledger[o] <= filled[o]
    BY DEF NothingBookedTwice
  <2>1. ledger[o] \in Nat /\ booked[o] \in Nat /\ filled[o] \in Nat
    BY DEF Types, EngineOK, VenueOK
  <2> QED  BY <2>1 DEF Books, Booked
<1> QED  BY <1>1, BooksHold, PTL

-----------------------------------------------------------------------------
(* What the engine closed is gone.                                         *)

Place(o)   == [kind |-> "place", order |-> o]
Settled(o) == post[o] \notin {"none", "sent"}
Ended(o)   == venue[o] \notin {"none", "working"}

(* An order's place request waits until it is sent, before its cancels.    *)
InLine ==
    /\ \A i \in DOMAIN queue : status[queue[i].order] # "none"
    /\ \A o \in Order : status[o] = "none" => post[o] = "none"
    /\ \A o \in Order : status[o] # "none" /\ post[o] = "none" =>
          \E i \in DOMAIN queue : queue[i] = Place(o)
    /\ \A i \in DOMAIN queue : queue[i].kind = "place" => post[queue[i].order] = "none"
    /\ \A i, j \in DOMAIN queue :
          queue[i].kind = "place" /\ j <= i /\ queue[j].order = queue[i].order => j = i

(* One request at a time, and nobody stops waiting for one that may land.  *)
OneInFlight ==
    /\ \A q \in flight : post[q.order] # "none"
    /\ \A p, q \in flight : p = q
    /\ \A o \in Order : post[o] = "sent" => Place(o) \in flight

Landed == \A o \in Order : venue[o] = "none" <=> post[o] # "landed"

(* Reports are of orders that landed, and tell of an end that has come.    *)
ReportsTrue == \A i \in DOMAIN stream :
    /\ post[stream[i].order] = "landed"
    /\ stream[i].kind \in {"CANCELED", "EXPIRED"} => Ended(stream[i].order)

(* An answer that there is no such order, or of its end, stays true.       *)
AnswerTrue == rec.step = "answered" =>
    /\ rec.status = "none" => venue[rec.order] = "none"
    /\ rec.status \notin {"none", "working"} => Ended(rec.order)

(* Only an order whose POST is over is acknowledged, or asked about.       *)
Asked(o) ==
    \/ unknown[o] \/ acked[o] \/ o \in toAsk
    \/ rec.step \in {"ask", "answered"} /\ o \in rec.left
    \/ rec.step = "answered" /\ o = rec.order

AskedIsSettled == \A o \in Order : Asked(o) => Settled(o)

Closed == \A o \in Order :
    status[o] \in {"cancelled", "expired"} \/ cancel[o] = "acked" =>
        Settled(o) /\ venue[o] # "working"

Gone == /\ InLine /\ OneInFlight /\ Landed
        /\ ReportsTrue /\ AnswerTrue /\ AskedIsSettled /\ Closed

(* A POST that is over and an order that has ended stay so.                *)
Onwards ==
    /\ \A o \in Order : Settled(o) => post'[o] = post[o]
    /\ \A o \in Order : post[o] = "none" \/ post'[o] # "none"
    /\ \A o \in Order : Ended(o) => Ended(o)'
    /\ \A o \in Order : Settled(o) /\ venue[o] = "none" => venue'[o] = "none"
    /\ \A o \in Order : Settled(o) /\ venue[o] # "working" => venue'[o] # "working"

LEMMA GoesOnwards ==
    ASSUME Types, Gone, [Next]_vars
    PROVE  Onwards /\ Landed'
<1> USE DEF Onwards, Settled, Ended, Landed
<1> WireOK /\ VenueOK /\ Landed /\ InLine
  BY DEF Types, Gone
<1>1. CASE UNCHANGED <<post, venue>>
  BY <1>1
<1>2. CASE Send
  <2>1. UNCHANGED venue
    BY <1>2 DEF Send, venue_vars
  <2>2. post' = post
        \/ \E o \in Order : post[o] = "none" /\ post' = [post EXCEPT ![o] = "sent"]
    <3>1. Head(queue) = queue[1] /\ 1 \in DOMAIN queue /\ Head(queue) \in Request
      BY <1>2, Dropped DEF Send, WireOK
    <3>2. Head(queue).order \in Order
      BY <3>1 DEF Request
    <3> QED  BY <1>2, <3>1, <3>2 DEF Send, InLine
  <2> QED  BY <2>1, <2>2 DEF WireOK
<1>3. ASSUME NEW o \in Order, Land(o) PROVE Onwards /\ Landed'
  <2>1. CASE post' = [post EXCEPT ![o] = "landed"] /\ venue' = [venue EXCEPT ![o] = "working"]
    BY <1>3, <2>1 DEF Land, WireOK, VenueOK
  <2>2. CASE UNCHANGED venue /\ post' \in {[post EXCEPT ![o] = "refused"], [post EXCEPT ![o] = "lost"]}
    BY <1>3, <2>2 DEF Land, WireOK, VenueOK
  <2> QED  BY <1>3, <2>1, <2>2 DEF Land
<1>4. ASSUME NEW o \in Order,
             CancelAnswered(o) \/ Expire(o) \/ \E fills \in 1 .. LotsOf[o] : Fill(o, fills)
      PROVE  Onwards /\ Landed'
  <2>1. UNCHANGED post
    BY <1>4 DEF CancelAnswered, Expire, Fill, wire_vars
  <2>2. \/ venue' = venue
        \/ /\ venue[o] = "working"
           /\ \E v \in AtVenue \ {"none"} : venue' = [venue EXCEPT ![o] = v]
    <3>1. CASE CancelAnswered(o)
      BY <3>1 DEF CancelAnswered, AtVenue
    <3>2. CASE Expire(o)
      BY <3>2 DEF Expire, AtVenue
    <3>3. ASSUME NEW fills \in 1 .. LotsOf[o], Fill(o, fills)
          PROVE  /\ venue[o] = "working"
                 /\ \E v \in {"filled", "working"} : venue' = [venue EXCEPT ![o] = v]
      BY <3>3 DEF Fill
    <3> QED  BY <1>4, <3>1, <3>2, <3>3 DEF AtVenue
  <2>3. post[o] = "landed" \/ venue[o] # "working"
    BY DEF WireOK
  <2> QED  BY <2>1, <2>2, <2>3 DEF VenueOK
<1>5. ASSUME NEW o \in Order,
             Submit(o) \/ Cancel(o) \/ PlaceAcked(o) \/ PlaceRefused(o) \/ PlaceUnknown(o)
      PROVE  Onwards /\ Landed'
  BY <1>5, <1>1 DEF Submit, Cancel, PlaceAcked, PlaceRefused, PlaceUnknown,
     venue_vars
<1>6. CASE PerformHalt \/ Disconnect \/ Rekey \/ Deliver \/ UNCHANGED vars
  BY <1>6, <1>1 DEF PerformHalt, Disconnect, Rekey, Deliver, vars, wire_vars,
     venue_vars
<1>7. CASE RecStep
  BY <1>7, <1>1 DEF RecStep, RecBegin, RecAsk, RecAskFails, RecAnswer,
     RecAccount, RecOrders,
                    RecCompare, RecFail, wire_vars, venue_vars
<1> QED
  BY <1>2, <1>3, <1>4, <1>5, <1>6, <1>7 DEF Next

(* Only Submit makes an order, and only Send takes its place request.      *)
LEMMA Known ==
    ASSUME Types, Gone, [Next]_vars, NEW o \in Order
    PROVE  /\ status[o] # "none" => status'[o] # "none"
           /\ status[o] = "none" => status'[o] = "none" \/ Submit(o)
<1> EngineOK /\ WireOK /\ VenueOK /\ RecOK /\ InLine /\ OneInFlight
  BY DEF Types, Gone
<1> DEFINE Ok == /\ status[o] # "none" => status'[o] # "none"
                 /\ status[o] = "none" => status'[o] = "none" \/ Submit(o)
<1>1. ASSUME NEW p \in Order,
             \/ Cancel(p) \/ PlaceAcked(p) \/ PlaceUnknown(p) \/ CancelAnswered(p)
             \/ Land(p) \/ Expire(p) \/ \E fills \in 1 .. LotsOf[p] : Fill(p, fills)
      PROVE  Ok
  BY <1>1 DEF Cancel, PlaceAcked, NoteAck, Becomes, PlaceUnknown,
     CancelAnswered, Land, Expire, Fill,
              engine_vars, EngineOK
<1>2. ASSUME NEW p \in Order, Submit(p) PROVE Ok
  BY <1>2 DEF Submit, Becomes, EngineOK
<1>3. ASSUME NEW p \in Order, PlaceRefused(p) PROVE Ok
  <2>1. status[p] # "none"
    BY <1>3 DEF PlaceRefused, InLine
  <2> QED  BY <1>3, <2>1 DEF PlaceRefused, Becomes, EngineOK
<1>4. CASE Deliver
  <2>1. PICK r \in Report : Apply(r.order, r.kind, r.cum)
    BY <1>4, Dropped DEF Deliver, VenueOK
  <2>2. r.order \in Order
    BY DEF Report
  <2> QED  BY <2>1, <2>2 DEF Apply, Book, NoteAck, Becomes, Open, EngineOK
<1>5. CASE RecAnswer
  <2>1. rec.order \in Order
    BY <1>5 DEF RecAnswer, RecOK, Answer
  <2> QED  BY <1>5, <2>1 DEF RecAnswer, Becomes, Open, EngineOK
<1>6. CASE UNCHANGED status
  BY <1>6
<1>7. CASE PerformHalt \/ Send \/ Disconnect \/ Rekey \/ UNCHANGED vars
  BY <1>7, <1>6 DEF PerformHalt, Send, Disconnect, Rekey, vars, engine_vars
<1>8. CASE RecBegin \/ (\E p \in Order : RecAsk(p) \/ RecAskFails(p)) \/ RecAccount \/ RecOrders
           \/ RecCompare \/ RecFail
  BY <1>8, <1>6 DEF RecBegin, RecAsk, RecAskFails, RecAccount, RecOrders,
     RecCompare, RecFail,
                    engine_vars
<1> QED
  BY <1>1, <1>2, <1>3, <1>4, <1>5, <1>7, <1>8 DEF Next, RecStep

(* A step that is neither a submission nor a sending.                      *)
LEMMA OtherSteps ==
    ASSUME Types, Gone, [Next]_vars, ~ (\E o \in Order : Submit(o)), ~ Send
    PROVE  /\ \A o \in Order : /\ status'[o] = "none" <=> status[o] = "none"
                               /\ post'[o] = "none" <=> post[o] = "none"
           /\ \/ UNCHANGED queue
              \/ PerformHalt
              \/ \E o \in Order : Cancel(o)
<1>1. \A o \in Order : status'[o] = "none" <=> status[o] = "none"
  BY Known
<1>2. \A o \in Order : post'[o] = "none" <=> post[o] = "none"
  <2>1. UNCHANGED post \/ \E o \in Order : Land(o)
    BY DEF Next, Cancel, PlaceAcked, PlaceRefused, PlaceUnknown,
       CancelAnswered, Expire, Fill,
           PerformHalt, Disconnect, Rekey, Deliver, RecStep, RecBegin, RecAsk, RecAskFails, RecAnswer,
           RecAccount, RecOrders, RecCompare, RecFail, wire_vars, vars
  <2> QED  BY <2>1 DEF Land, Types, WireOK
<1>3. UNCHANGED queue \/ PerformHalt \/ \E o \in Order : Cancel(o)
  BY DEF Next, PlaceAcked, PlaceRefused, PlaceUnknown, CancelAnswered, Land,
     Expire, Fill,
         Disconnect, Rekey, Deliver, RecStep, RecBegin, RecAsk, RecAskFails, RecAnswer,
         RecAccount, RecOrders, RecCompare, RecFail, wire_vars, vars
<1> QED  BY <1>1, <1>2, <1>3

LEMMA InLineNext ==
    ASSUME Types, Gone, [Next]_vars
    PROVE  InLine'
<1> EngineOK /\ WireOK /\ InLine
  BY DEF Types, Gone
<1>q. /\ queue \in Seq(Request)
      /\ \A i \in DOMAIN queue : queue[i] \in Request /\ queue[i].order \in Order /\ i \in Nat
  <2>1. queue \in Seq(Request) /\ \A i \in DOMAIN queue : queue[i] \in Request /\ i \in Nat
    BY DEF WireOK
  <2>2. \A r \in Request : r.order \in Order
    BY DEF Request
  <2> QED  BY <2>1, <2>2
(* Cancels of orders that are known join the line behind.                  *)
<1>1. ASSUME \A o \in Order : /\ status'[o] = "none" <=> status[o] = "none"
                              /\ post'[o] = "none" <=> post[o] = "none",
             \A i \in DOMAIN queue : i \in DOMAIN queue' /\ queue'[i] = queue[i] /\ i <= Len(queue),
             \A i \in DOMAIN queue' : \/ i \in DOMAIN queue
                                      \/ /\ i > Len(queue) /\ queue'[i].kind = "cancel"
                                         /\ queue'[i].order \in Order
                                         /\ status[queue'[i].order] # "none"
      PROVE  InLine'
  <2>1. \A i \in DOMAIN queue' : status'[queue'[i].order] # "none"
    BY <1>1, <1>q DEF InLine
  <2>2. \A o \in Order : status'[o] = "none" => post'[o] = "none"
    BY <1>1 DEF InLine
  <2>3. \A o \in Order : status'[o] # "none" /\ post'[o] = "none" =>
            \E i \in DOMAIN queue' : queue'[i] = Place(o)
    BY <1>1 DEF InLine
  <2>4. \A i \in DOMAIN queue' : queue'[i].kind = "place" => post'[queue'[i].order] = "none"
    BY <1>1, <1>q DEF InLine
  <2>5. ASSUME NEW i \in DOMAIN queue', NEW j \in DOMAIN queue',
               queue'[i].kind = "place", j <= i, queue'[j].order = queue'[i].order
        PROVE  j = i
    <3>1. i \in DOMAIN queue /\ queue'[i] = queue[i] /\ i <= Len(queue) /\ i \in Nat
      BY <1>1, <1>q, <2>5
    <3>2. j \in DOMAIN queue
      <4>1. j \in Nat /\ Len(queue) \in Nat
        BY <1>q, WireNext DEF WireOK
      <4> QED  BY <1>1, <2>5, <3>1, <4>1
    <3> QED  BY <1>1, <2>5, <3>1, <3>2 DEF InLine
  <2> QED  BY <2>1, <2>2, <2>3, <2>4, <2>5 DEF InLine
<1>2. ASSUME NEW o \in Order, Submit(o) PROVE InLine'
  <2>1. /\ queue' = Append(queue, Place(o)) /\ post' = post
        /\ status[o] = "none" /\ status' = [status EXCEPT ![o] = "pending"]
    BY <1>2 DEF Submit, Becomes, Place
  <2>2. Place(o) \in Request /\ Place(o).order = o
    BY DEF Place, Request
  <2>3. /\ \A i \in DOMAIN queue' : \/ i \in DOMAIN queue /\ queue'[i] = queue[i]
                                    \/ i = Len(queue) + 1 /\ queue'[i] = Place(o)
        /\ \A i \in DOMAIN queue : i \in DOMAIN queue' /\ queue'[i] = queue[i]
        /\ Len(queue) + 1 \in DOMAIN queue' /\ queue'[Len(queue) + 1] = Place(o)
        /\ \A i \in DOMAIN queue : i \in Nat /\ i < Len(queue) + 1
        /\ Len(queue) \in Nat
    BY <1>q, <2>1, <2>2, Appended
  <2>4. \A i \in DOMAIN queue : queue[i].order # o
    BY <2>1 DEF InLine
  <2>5. \A i \in DOMAIN queue' : status'[queue'[i].order] # "none"
    BY <1>q, <2>1, <2>2, <2>3 DEF InLine, EngineOK
  <2>6. \A p \in Order : status'[p] = "none" => post'[p] = "none"
    BY <2>1 DEF InLine, EngineOK
  <2>7. \A p \in Order : status'[p] # "none" /\ post'[p] = "none" =>
            \E i \in DOMAIN queue' : queue'[i] = Place(p)
    BY <2>1, <2>3 DEF InLine, EngineOK
  <2>8. \A i \in DOMAIN queue' : queue'[i].kind = "place" => post'[queue'[i].order] = "none"
    BY <1>q, <2>1, <2>2, <2>3 DEF InLine
  <2>9. ASSUME NEW i \in DOMAIN queue', NEW j \in DOMAIN queue',
               queue'[i].kind = "place", j <= i, queue'[j].order = queue'[i].order
        PROVE  j = i
    <3>1. CASE i \in DOMAIN queue /\ queue'[i] = queue[i]
      <4>1. j \in DOMAIN queue /\ queue'[j] = queue[j]
        BY <2>3, <2>9, <3>1
      <4> QED  BY <2>9, <3>1, <4>1 DEF InLine
    <3>2. CASE i = Len(queue) + 1 /\ queue'[i] = Place(o)
      BY <2>2, <2>3, <2>4, <2>9, <3>2
    <3> QED  BY <2>3, <3>1, <3>2
  <2> QED  BY <2>5, <2>6, <2>7, <2>8, <2>9 DEF InLine
<1>3. CASE Send
  <2>1. queue # <<>> /\ queue' = Tail(queue) /\ status' = status
    BY <1>3 DEF Send, engine_vars
  <2>2. /\ 1 \in DOMAIN queue /\ Head(queue) = queue[1]
        /\ \A i \in DOMAIN queue' : i \in Nat /\ i + 1 \in DOMAIN queue /\ queue'[i] = queue[i + 1]
        /\ \A i \in DOMAIN queue : i \in Nat /\ i >= 1
        /\ \A i \in DOMAIN queue : i # 1 => i - 1 \in DOMAIN queue' /\ queue'[i - 1] = queue[i]
    BY <1>q, <2>1, Dropped
  <2> DEFINE q == queue[1]
  <2>3. post' = IF q.kind = "place" THEN [post EXCEPT ![q.order] = "sent"] ELSE post
    BY <1>3, <2>2 DEF Send
  <2>4. q \in Request /\ q.order \in Order /\ (q.kind = "place" => q = Place(q.order))
    BY <1>q, <2>2 DEF Request, Place
  <2>5. \A i \in DOMAIN queue' : queue'[i].order \in Order /\ status'[queue'[i].order] # "none"
    BY <1>q, <2>1, <2>2 DEF InLine
  <2>6. \A p \in Order : status'[p] = "none" => post'[p] = "none"
    BY <2>1, <2>2, <2>3, <2>4 DEF InLine, WireOK
  <2>7. ASSUME NEW p \in Order, status'[p] # "none", post'[p] = "none"
        PROVE  \E i \in DOMAIN queue' : queue'[i] = Place(p)
    <3>1. post[p] = "none" /\ status[p] # "none"
      BY <2>1, <2>3, <2>4, <2>7 DEF WireOK
    <3>2. PICK i \in DOMAIN queue : queue[i] = Place(p)
      BY <3>1 DEF InLine
    <3>3. i # 1
      BY <2>3, <2>4, <2>7, <3>2 DEF Place, WireOK
    <3> QED  BY <2>2, <3>2, <3>3
  <2>8. ASSUME NEW i \in DOMAIN queue', queue'[i].kind = "place"
        PROVE  post'[queue'[i].order] = "none"
    <3>1. /\ i \in Nat /\ i + 1 \in DOMAIN queue /\ queue'[i] = queue[i + 1] /\ i >= 1
          /\ post[queue'[i].order] = "none"
      <4>1. i \in Nat /\ i + 1 \in DOMAIN queue /\ queue'[i] = queue[i + 1]
        BY <2>2
      <4>2. i >= 1
        <5>1. queue' \in Seq(Request)
          BY WireNext DEF WireOK
        <5> QED  BY <5>1
      <4> QED  BY <2>8, <4>1, <4>2 DEF InLine
    <3>2. queue'[i].order # q.order
      BY <2>2, <2>8, <3>1 DEF InLine
    <3> QED  BY <2>3, <2>4, <2>5, <3>1, <3>2 DEF WireOK
  <2>9. ASSUME NEW i \in DOMAIN queue', NEW j \in DOMAIN queue',
               queue'[i].kind = "place", j <= i, queue'[j].order = queue'[i].order
        PROVE  j = i
    <3>1. /\ i \in Nat /\ i + 1 \in DOMAIN queue /\ queue'[i] = queue[i + 1]
          /\ j \in Nat /\ j + 1 \in DOMAIN queue /\ queue'[j] = queue[j + 1]
          /\ j + 1 <= i + 1
      BY <2>2, <2>9
    <3>2. j + 1 = i + 1
      BY <2>9, <3>1 DEF InLine
    <3> QED  BY <3>1, <3>2
  <2> QED  BY <2>5, <2>6, <2>7, <2>8, <2>9 DEF InLine
<1>4. CASE ~ (\E o \in Order : Submit(o)) /\ ~ Send
  <2>1. \A o \in Order : /\ status'[o] = "none" <=> status[o] = "none"
                         /\ post'[o] = "none" <=> post[o] = "none"
    BY <1>4, OtherSteps
  <2>2. \A i \in DOMAIN queue : i <= Len(queue)
    BY <1>q
  <2>3. CASE UNCHANGED queue
    BY <2>1, <2>2, <2>3, <1>1
  <2>4. CASE PerformHalt
    <3>1. /\ \A i \in DOMAIN queue' : \/ i \in DOMAIN queue
                                      \/ /\ i > Len(queue) /\ queue'[i].kind = "cancel"
                                         /\ queue'[i].order \in Order
                                         /\ status[queue'[i].order] # "none"
          /\ \A i \in DOMAIN queue : i \in DOMAIN queue' /\ queue'[i] = queue[i] /\ i <= Len(queue)
      BY <2>4, HaltCancels DEF Open
    <3> QED  BY <2>1, <3>1, <1>1
  <2>5. ASSUME NEW o \in Order, Cancel(o) PROVE InLine'
    <3> DEFINE c == [kind |-> "cancel", order |-> o]
    <3>1. queue' = Append(queue, c) /\ c \in Request /\ status[o] # "none"
      BY <2>5 DEF Cancel, Open, Request
    <3>2. /\ \A i \in DOMAIN queue' : \/ i \in DOMAIN queue /\ queue'[i] = queue[i]
                                      \/ i = Len(queue) + 1 /\ queue'[i] = c
          /\ \A i \in DOMAIN queue : i \in DOMAIN queue' /\ queue'[i] = queue[i]
          /\ Len(queue) + 1 > Len(queue)
      BY <1>q, <3>1, Appended
    <3>3. c.kind = "cancel" /\ c.order = o
      OBVIOUS
    <3> HIDE DEF c
    <3>4. \A i \in DOMAIN queue' : \/ i \in DOMAIN queue
                                   \/ /\ i > Len(queue) /\ queue'[i].kind = "cancel"
                                      /\ queue'[i].order \in Order
                                      /\ status[queue'[i].order] # "none"
      BY <3>1, <3>2, <3>3
    <3> QED  BY <2>1, <2>2, <3>2, <3>4, <1>1
  <2> QED  BY <1>4, <2>3, <2>4, <2>5, OtherSteps
<1> QED  BY <1>2, <1>3, <1>4

LEMMA FlightNext ==
    ASSUME ~ Late, Types, Gone, [Next]_vars
    PROVE  OneInFlight'
<1> WireOK /\ InLine /\ OneInFlight
  BY DEF Types, Gone
<1>o. \A q \in flight : q \in Request /\ q.order \in Order
  BY DEF WireOK, Request
<1> USE DEF OneInFlight
<1>1. CASE UNCHANGED <<flight, post>>
  BY <1>1
<1>2. CASE Send
  <2>1. /\ 1 \in DOMAIN queue /\ Head(queue) = queue[1] /\ Head(queue) \in Request
        /\ \A i \in DOMAIN queue : i \in Nat /\ i >= 1
    BY <1>2, Dropped DEF Send, WireOK
  <2> DEFINE q == queue[1]
  <2>2. /\ flight = {} /\ flight' = {q} /\ q \in Request /\ q.order \in Order
        /\ post' = IF q.kind = "place" THEN [post EXCEPT ![q.order] = "sent"] ELSE post
        /\ (q.kind = "place" => q = Place(q.order)) /\ (q.kind # "place" => q.kind = "cancel")
    BY <1>2, <2>1 DEF Send, Request, Place
  <2>3. post'[q.order] # "none"
    <3>1. CASE q.kind = "place"
      BY <2>2, <3>1 DEF WireOK
    <3>2. CASE q.kind = "cancel"
      <4>1. SUFFICES ASSUME post[q.order] = "none" PROVE FALSE
        BY <2>2, <3>2
      <4>2. PICK i \in DOMAIN queue : queue[i] = Place(q.order)
        BY <2>1, <2>2, <4>1 DEF InLine
      <4>3. i = 1
        BY <2>1, <4>2 DEF InLine, Place
      <4> QED  BY <3>2, <4>2, <4>3 DEF Place
    <3> QED  BY <2>2, <3>1, <3>2
  <2>4. \A o \in Order : post'[o] = "sent" => Place(o) \in flight'
    BY <2>2 DEF WireOK
  <2> QED  BY <2>2, <2>3, <2>4
<1>3. ASSUME NEW o \in Order, PlaceAcked(o) \/ PlaceRefused(o) \/ PlaceUnknown(o) PROVE OneInFlight'
  <2>1. Place(o) \in flight /\ post[o] # "sent" /\ UNCHANGED post /\ flight' = flight \ {Place(o)}
    BY <1>3 DEF PlaceAcked, PlaceRefused, PlaceUnknown, Placing, Returned,
       Place
  <2>2. \A p \in Order : post[p] = "sent" => p = o
    BY <2>1 DEF Place
  <2> QED  BY <2>1, <2>2
<1>4. ASSUME NEW o \in Order, CancelAnswered(o) PROVE OneInFlight'
  <2> DEFINE c == [kind |-> "cancel", order |-> o]
  <2>1. c \in flight /\ UNCHANGED post /\ flight' = flight \ {c}
    BY <1>4 DEF CancelAnswered, Returned
  <2>2. \A p \in Order : post[p] # "sent"
    BY <2>1 DEF Place
  <2> QED  BY <2>1, <2>2
<1>5. ASSUME NEW o \in Order, Land(o) PROVE OneInFlight'
  BY <1>5, <1>o DEF Land, WireOK
<1>6. ASSUME NEW o \in Order,
             Submit(o) \/ Cancel(o) \/ Expire(o) \/ \E fills \in 1 .. LotsOf[o] : Fill(o, fills)
      PROVE  OneInFlight'
  BY <1>6, <1>1 DEF Submit, Cancel, Expire, Fill, wire_vars
<1>7. CASE PerformHalt \/ Disconnect \/ Rekey \/ Deliver \/ UNCHANGED vars
  BY <1>7, <1>1 DEF PerformHalt, Disconnect, Rekey, Deliver, vars, wire_vars
<1>8. CASE RecStep
  BY <1>8, <1>1 DEF RecStep, RecBegin, RecAsk, RecAskFails, RecAnswer,
     RecAccount, RecOrders,
                    RecCompare, RecFail, wire_vars
<1> QED
  BY <1>2, <1>3, <1>4, <1>5, <1>6, <1>7, <1>8 DEF Next

LEMMA ReportsNext ==
    ASSUME Types, Books, Gone, [Next]_vars
    PROVE  ReportsTrue'
<1> Onwards /\ WireOK /\ VenueOK /\ ReportsTrue /\ Landed
  BY GoesOnwards DEF Types, Gone
<1>o. \A i \in DOMAIN stream : stream[i].order \in Order
  <2>1. \A i \in DOMAIN stream : stream[i] \in Report
    BY DEF VenueOK
  <2> QED  BY <2>1 DEF Report
<1>1. ASSUME NEW r, r.order \in Order, post'[r.order] = "landed",
             r.kind \in {"CANCELED", "EXPIRED"} => Ended(r.order)',
             \A i \in DOMAIN stream' : \/ i \in DOMAIN stream /\ stream'[i] = stream[i]
                                       \/ stream'[i] = r
      PROVE  ReportsTrue'
  <2> SUFFICES ASSUME NEW i \in DOMAIN stream'
               PROVE  /\ post'[stream'[i].order] = "landed"
                      /\ stream'[i].kind \in {"CANCELED", "EXPIRED"} =>
                             venue'[stream'[i].order] \notin {"none", "working"}
    BY DEF ReportsTrue, Ended
  <2>1. CASE i \in DOMAIN stream /\ stream'[i] = stream[i]
    BY <2>1, <1>o DEF ReportsTrue, Onwards, Settled, Ended
  <2>2. CASE stream'[i] = r
    BY <2>2, <1>1 DEF Ended
  <2> QED  BY <1>1, <2>1, <2>2
<1>2. ASSUME \A i \in DOMAIN stream' : \E j \in DOMAIN stream : stream'[i] = stream[j]
      PROVE  ReportsTrue'
  BY <1>2, <1>o DEF ReportsTrue, Onwards, Settled, Ended
<1>3. CASE UNCHANGED stream
  BY <1>3, <1>2
<1>4. ASSUME NEW o \in Order, NEW kind \in Kinds, NEW cum \in Nat, Reports(o, kind, cum),
             post'[o] = "landed", kind \in {"CANCELED", "EXPIRED"} => Ended(o)'
      PROVE  ReportsTrue'
  <2> DEFINE r == [order |-> o, kind |-> kind, cum |-> cum]
  <2>1. \A i \in DOMAIN stream' : \/ i \in DOMAIN stream /\ stream'[i] = stream[i]
                                  \/ stream'[i] = r
    BY <1>4, Stream
  <2>2. r.order = o /\ r.kind = kind
    OBVIOUS
  <2> HIDE DEF r
  <2> QED  BY <1>4, <2>1, <2>2, <1>1
<1>5. ASSUME NEW o \in Order, CancelAnswered(o) PROVE ReportsTrue'
  <2>1. CASE UNCHANGED stream
    BY <2>1, <1>3
  <2>2. CASE /\ venue[o] = "working" /\ venue' = [venue EXCEPT ![o] = "canceled"]
             /\ Reports(o, "CANCELED", filled[o])
    <3>1. post[o] = "landed" /\ UNCHANGED post /\ Ended(o)'
      BY <1>5, <2>2 DEF CancelAnswered, Landed, Ended, VenueOK
    <3>2. "CANCELED" \in Kinds /\ filled[o] \in Nat
      BY DEF Kinds, VenueOK
    <3> QED  BY <2>2, <3>1, <3>2, <1>4
  <2> QED  BY <1>5, <2>1, <2>2 DEF CancelAnswered
<1>6. ASSUME NEW o \in Order, Land(o) PROVE ReportsTrue'
  <2>1. CASE UNCHANGED stream
    BY <2>1, <1>3
  <2>2. CASE post' = [post EXCEPT ![o] = "landed"] /\ Reports(o, "NEW", 0)
    <3>1. post'[o] = "landed" /\ "NEW" \in Kinds
      BY <2>2 DEF WireOK, Kinds
    <3> QED  BY <2>2, <3>1, <1>4
  <2> QED  BY <1>6, <2>1, <2>2 DEF Land
<1>7. ASSUME NEW o \in Order, Expire(o) PROVE ReportsTrue'
  <2>1. post[o] = "landed" /\ UNCHANGED post /\ Ended(o)'
    BY <1>7 DEF Expire, Landed, Ended, VenueOK, wire_vars
  <2>2. "EXPIRED" \in Kinds /\ filled[o] \in Nat
    BY DEF Kinds, VenueOK
  <2> QED  BY <1>7, <2>1, <2>2, <1>4 DEF Expire
<1>8. ASSUME NEW o \in Order, NEW fills \in 1 .. LotsOf[o], Fill(o, fills) PROVE ReportsTrue'
  <2>1. post[o] = "landed" /\ UNCHANGED post
    BY <1>8 DEF Fill, Landed, wire_vars
  <2>2. "TRADE" \in Kinds /\ filled'[o] \in Nat
    BY BooksNext DEF Kinds, VenueOK, Types
  <2> QED  BY <1>8, <2>1, <2>2, <1>4 DEF Fill
<1>9. CASE Disconnect \/ Rekey \/ Deliver
  <2>1. CASE stream' = <<>>
    BY <2>1, <1>2
  <2>2. CASE stream # <<>> /\ stream' = Tail(stream)
    BY <2>2, <1>2, Dropped DEF VenueOK
  <2> QED  BY <1>9, <2>1, <2>2, <1>3 DEF Disconnect, Rekey, Deliver
<1>10. ASSUME NEW o \in Order,
              Submit(o) \/ Cancel(o) \/ PlaceAcked(o) \/ PlaceRefused(o) \/ PlaceUnknown(o)
       PROVE  ReportsTrue'
  BY <1>10, <1>3 DEF Submit, Cancel, PlaceAcked, PlaceRefused, PlaceUnknown,
     socket_vars
<1>11. CASE PerformHalt \/ Send \/ RecStep \/ UNCHANGED vars
  BY <1>11, <1>3 DEF PerformHalt, Send, RecStep, RecBegin, RecAsk, RecAskFails,
     RecAnswer, RecAccount,
                     RecOrders, RecCompare, RecFail, vars, socket_vars
<1> QED
  BY <1>5, <1>6, <1>7, <1>8, <1>9, <1>10, <1>11 DEF Next

LEMMA AnswerNext ==
    ASSUME ~ Late, Types, Gone, [Next]_vars
    PROVE  AnswerTrue' /\ AskedIsSettled'
<1> /\ Onwards /\ EngineOK /\ WireOK /\ VenueOK /\ RecOK /\ InLine /\ OneInFlight /\ Landed
    /\ ReportsTrue /\ AnswerTrue /\ AskedIsSettled
  BY GoesOnwards DEF Types, Gone
<1> DEFINE Ok == AnswerTrue' /\ AskedIsSettled'
<1>s. \A o \in Order : Settled(o) => post'[o] \notin {"none", "sent"}
  BY DEF Onwards, Settled
<1>p. ASSUME NEW o \in Order, post[o] = "landed" PROVE Settled(o)
  BY <1>p DEF Settled
(* Nothing is answered or asked that was not.                              *)
<1>1. ASSUME UNCHANGED rec, toAsk' = toAsk,
             \A o \in Order : (unknown'[o] => unknown[o] \/ Settled(o))
                              /\ (acked'[o] => acked[o] \/ Settled(o))
      PROVE  Ok
  <2>1. AnswerTrue'
    <3>1. rec.step = "answered" => rec.order \in Order /\ Settled(rec.order)
      BY DEF RecOK, Answer, AskedIsSettled, Asked
    <3> QED  BY <1>1, <3>1 DEF AnswerTrue, Onwards, Ended
  <2>2. AskedIsSettled'
    <3> SUFFICES ASSUME NEW o \in Order, Asked(o)' PROVE Settled(o)'
      BY DEF AskedIsSettled
    <3>1. Settled(o)
      BY <1>1 DEF Asked, AskedIsSettled
    <3> QED  BY <3>1, <1>s DEF Settled
  <2> QED  BY <2>1, <2>2
<1>2. ASSUME NEW o \in Order, Submit(o) \/ Cancel(o) \/ PlaceRefused(o) PROVE Ok
  BY <1>2, <1>1 DEF Submit, Cancel, PlaceRefused, rec_vars
<1>3. ASSUME NEW o \in Order, PlaceAcked(o) PROVE Ok
  <2>1. acked' = [acked EXCEPT ![o] = TRUE] /\ UNCHANGED <<unknown, rec, toAsk>> /\ Settled(o)
    BY <1>3 DEF PlaceAcked, NoteAck, rec_vars, Settled
  <2> QED  BY <2>1, <1>1 DEF EngineOK
<1>4. ASSUME NEW o \in Order, PlaceUnknown(o) PROVE Ok
  <2>1. Place(o) \in flight /\ post[o] # "sent"
    BY <1>4 DEF PlaceUnknown, Placing, Place
  <2>2. post[o] # "none"
    BY <2>1 DEF OneInFlight, Place
  <2>3. unknown' = [unknown EXCEPT ![o] = TRUE] /\ UNCHANGED <<acked, rec, toAsk>> /\ Settled(o)
    BY <1>4, <2>1, <2>2 DEF PlaceUnknown, rec_vars, Settled
  <2> QED  BY <2>3, <1>1 DEF EngineOK
<1>5. CASE Deliver
  <2> DEFINE r == Head(stream)
  <2>1. r \in Report /\ post[r.order] = "landed"
    BY <1>5, Dropped DEF Deliver, VenueOK, ReportsTrue
  <2>4. unknown' = [unknown EXCEPT ![r.order] = FALSE] /\ Apply(r.order, r.kind, r.cum)
    BY <1>5 DEF Deliver
  <2> HIDE DEF r
  <2>2. r.order \in Order /\ Settled(r.order) /\ UNCHANGED <<rec, toAsk>>
    BY <1>5, <2>1, <1>p DEF Report, Deliver, rec_vars
  <2>3. acked' = acked \/ acked' = [acked EXCEPT ![r.order] = TRUE]
    BY <2>4 DEF Apply, NoteAck
  <2> QED  BY <2>2, <2>3, <2>4, <1>1 DEF EngineOK
<1>6. CASE RecBegin
  <2>1. /\ rec' = [step |-> "ask", left |-> {o \in Order : unknown[o]} \cup toAsk] /\ toAsk' = {}
        /\ UNCHANGED <<unknown, acked, post, venue>>
    BY <1>6 DEF RecBegin, engine_vars, wire_vars, venue_vars
  <2> QED  BY <2>1 DEF AnswerTrue, AskedIsSettled, Asked, Settled
<1>7. ASSUME NEW o \in Order, RecAsk(o) PROVE Ok
  <2>1. /\ rec' = [step |-> "answered", left |-> rec.left \ {o}, order |-> o,
                   status |-> venue[o], cum |-> filled[o]]
        /\ rec.step = "ask" /\ o \in rec.left
        /\ UNCHANGED <<unknown, acked, post, venue, toAsk>>
    BY <1>7 DEF RecAsk, engine_vars, wire_vars, venue_vars
  <2>2. AnswerTrue'
    BY <2>1 DEF AnswerTrue, Ended
  <2>3. AskedIsSettled'
    BY <2>1 DEF AskedIsSettled, Asked, Settled
  <2> QED  BY <2>2, <2>3
<1>8. ASSUME NEW o \in Order, RecAskFails(o) PROVE Ok
  <2>1. rec \in [step : {"ask"}, left : SUBSET Order]
    BY <1>8 DEF RecAskFails, RecOK, Answer
  <2>2. /\ rec'.step = "ask" /\ rec'.left = rec.left \ {o} /\ rec.step = "ask"
        /\ UNCHANGED <<unknown, acked, post, venue, toAsk>>
    BY <1>8, <2>1 DEF RecAskFails, engine_vars, wire_vars, venue_vars
  <2> QED  BY <2>2 DEF AnswerTrue, AskedIsSettled, Asked, Settled
<1>9. CASE RecAnswer
  <2>1. /\ rec.step = "answered" /\ rec' = [step |-> "ask", left |-> rec.left]
        /\ unknown' = [unknown EXCEPT ![rec.order] = FALSE]
        /\ \E b : acked' = [acked EXCEPT ![rec.order] = b]
        /\ UNCHANGED <<post, venue, toAsk>>
    BY <1>9 DEF RecAnswer, wire_vars, venue_vars
  <2>2. rec.order \in Order /\ Settled(rec.order)
    BY <2>1 DEF RecOK, Answer, AskedIsSettled, Asked
  <2>3. AskedIsSettled'
    <3> SUFFICES ASSUME NEW o \in Order, Asked(o)' PROVE Settled(o)
      BY <2>1 DEF AskedIsSettled, Settled
    <3>1. CASE o = rec.order
      BY <2>2, <3>1
    <3>2. CASE o # rec.order
      <4>1. unknown'[o] = unknown[o] /\ acked'[o] = acked[o]
        BY <2>1, <3>2 DEF EngineOK
      <4> QED  BY <2>1, <4>1 DEF AskedIsSettled, Asked
    <3> QED  BY <3>1, <3>2
  <2>4. AnswerTrue'
    BY <2>1 DEF AnswerTrue
  <2> QED  BY <2>3, <2>4
<1>10. CASE RecAccount \/ RecOrders \/ RecFail
  <2>1. /\ rec'.step \in {"idle", "orders", "compare"}
        /\ UNCHANGED <<unknown, acked, post, venue, toAsk>>
    BY <1>10 DEF RecAccount, RecOrders, RecFail, engine_vars, wire_vars,
       venue_vars
  <2> QED  BY <2>1 DEF AnswerTrue, AskedIsSettled, Asked, Settled
<1>11. CASE RecCompare
  <2>1. /\ rec'.step = "idle" /\ UNCHANGED <<unknown, acked, post, venue>>
        /\ \A o \in toAsk' : o \in toAsk \/ acked[o]
    BY <1>11 DEF RecCompare, engine_vars, wire_vars, venue_vars
  <2> QED  BY <2>1 DEF AnswerTrue, AskedIsSettled, Asked, Settled
<1>12. ASSUME NEW o \in Order,
              \/ CancelAnswered(o) \/ Land(o) \/ Expire(o)
              \/ \E fills \in 1 .. LotsOf[o] : Fill(o, fills)
       PROVE  Ok
  BY <1>12, <1>1 DEF CancelAnswered, Land, Expire, Fill, engine_vars, rec_vars
<1>13. CASE PerformHalt \/ Send \/ Disconnect \/ Rekey \/ UNCHANGED vars
  BY <1>13, <1>1 DEF PerformHalt, Send, Disconnect, Rekey, vars, engine_vars,
     rec_vars
<1> QED
  BY <1>2, <1>3, <1>4, <1>5, <1>6, <1>7, <1>8, <1>9, <1>10, <1>11, <1>12, <1>13
     DEF Next, RecStep

LEMMA ClosedNext ==
    ASSUME Types, Gone, [Next]_vars
    PROVE  Closed'
<1> /\ Onwards /\ EngineOK /\ WireOK /\ VenueOK /\ RecOK /\ OneInFlight /\ Landed
    /\ ReportsTrue /\ AnswerTrue /\ AskedIsSettled /\ Closed
  BY GoesOnwards DEF Types, Gone
(* Whoever closes an order, or acknowledges its cancel, knows that it is   *)
(* over.                                                                   *)
<1>1. ASSUME \A o \in Order :
                \/ Settled(o)' /\ venue'[o] # "working"
                \/ Settled(o) /\ venue[o] # "working"
                \/ /\ status'[o] \in {"cancelled", "expired"} => status'[o] = status[o]
                   /\ cancel'[o] = "acked" => cancel'[o] = cancel[o]
      PROVE  Closed'
  <2> SUFFICES ASSUME NEW o \in Order, status'[o] \in {"cancelled", "expired"} \/ cancel'[o] = "acked"
               PROVE  Settled(o)' /\ venue'[o] # "working"
    BY DEF Closed, Settled
  <2>1. CASE Settled(o) /\ venue[o] # "working"
    BY <2>1 DEF Onwards, Settled
  <2>2. CASE /\ status'[o] \in {"cancelled", "expired"} => status'[o] = status[o]
             /\ cancel'[o] = "acked" => cancel'[o] = cancel[o]
    <3>1. Settled(o) /\ venue[o] # "working"
      BY <2>2 DEF Closed
    <3> QED  BY <3>1, <2>1
  <2> QED  BY <1>1, <2>1, <2>2
<1>2. ASSUME NEW o \in Order, Submit(o) \/ Cancel(o) \/ PlaceRefused(o) \/ PlaceUnknown(o) PROVE Closed'
  BY <1>2, <1>1 DEF Submit, Cancel, PlaceRefused, PlaceUnknown, Becomes,
     EngineOK
<1>3. ASSUME NEW o \in Order, PlaceAcked(o) PROVE Closed'
  BY <1>3, <1>1 DEF PlaceAcked, NoteAck, Becomes, EngineOK
<1>4. CASE PerformHalt
  BY <1>4, <1>1 DEF PerformHalt, EngineOK
<1>5. ASSUME NEW o \in Order, CancelAnswered(o) PROVE Closed'
  <2> DEFINE c == [kind |-> "cancel", order |-> o]
  <2>1. c \in flight /\ UNCHANGED <<status, post>> /\ (cancel' = cancel \/ cancel' = [cancel EXCEPT ![o] = "acked"])
    BY <1>5 DEF CancelAnswered
  <2>2. Settled(o)
    BY <2>1 DEF OneInFlight, Settled, Place
  <2>3. cancel' = cancel \/ venue[o] # "working" \/ venue'[o] # "working"
    BY <1>5 DEF CancelAnswered
  <2>4. Settled(o)'
    BY <2>1, <2>2 DEF Settled
  <2> QED  BY <2>1, <2>2, <2>3, <2>4, <1>1 DEF EngineOK
<1>6. CASE Deliver
  <2>1. PICK r \in Report :
            /\ Apply(r.order, r.kind, r.cum)
            /\ post[r.order] = "landed"
            /\ r.kind \in {"CANCELED", "EXPIRED"} => Ended(r.order)
    BY <1>6, Dropped DEF Deliver, VenueOK, ReportsTrue
  <2>2. r.order \in Order /\ Settled(r.order)
    BY <2>1 DEF Report, Settled
  <2>3. CASE r.kind \in {"CANCELED", "EXPIRED"} /\ r.kind # "TRADE" /\ r.kind # "NEW"
    <3>1. Settled(r.order) /\ venue[r.order] # "working"
      BY <2>1, <2>2, <2>3 DEF Ended
    <3>2. \A p \in Order : p # r.order => status'[p] = status[p] /\ cancel'[p] = cancel[p]
      BY <2>1, <2>3 DEF Apply, Becomes, EngineOK
    <3> QED  BY <3>1, <3>2, <1>1
  <2>4. CASE r.kind = "TRADE" /\ Book(r.order, r.cum) /\ UNCHANGED <<acked, cancel>>
    BY <2>2, <2>4, <1>1 DEF Book, Becomes, EngineOK
  <2>5. CASE r.kind = "NEW" /\ NoteAck(r.order) /\ UNCHANGED <<ledger, booked, cancel>>
    BY <2>2, <2>5, <1>1 DEF NoteAck, Becomes, EngineOK
  <2> QED  BY <2>1, <2>3, <2>4, <2>5 DEF Apply
<1>7. CASE RecAnswer
  <2>1. /\ rec.step = "answered" /\ rec.order \in Order /\ rec.status \in AtVenue
        /\ Settled(rec.order)
    BY <1>7 DEF RecAnswer, RecOK, Answer, AskedIsSettled, Asked
  <2>2. \A p \in Order : p # rec.order => status'[p] = status[p] /\ cancel'[p] = cancel[p]
    BY <1>7, <2>1 DEF RecAnswer, Becomes, EngineOK
  <2>3. CASE rec.status \in {"none", "canceled", "expired"}
    <3>1. venue[rec.order] # "working"
      BY <2>1, <2>3 DEF AnswerTrue, Ended
    <3> QED  BY <2>1, <2>2, <3>1, <1>1
  <2>4. CASE rec.status \in {"working", "filled"}
    <3>1. /\ status'[rec.order] \in {"cancelled", "expired"} => status'[rec.order] = status[rec.order]
          /\ cancel' = cancel
      BY <1>7, <2>1, <2>4 DEF RecAnswer, Becomes, EngineOK
    <3> QED  BY <2>2, <3>1, <1>1
  <2> QED  BY <2>1, <2>3, <2>4 DEF AtVenue
<1>8. CASE UNCHANGED <<status, cancel>>
  BY <1>8, <1>1
<1>9. ASSUME NEW o \in Order, Land(o) \/ Expire(o) \/ \E fills \in 1 .. LotsOf[o] : Fill(o, fills)
      PROVE  Closed'
  BY <1>9, <1>8 DEF Land, Expire, Fill, engine_vars
<1>10. CASE Send \/ Disconnect \/ Rekey \/ UNCHANGED vars
  BY <1>10, <1>8 DEF Send, Disconnect, Rekey, vars, engine_vars
<1>11. CASE RecBegin \/ (\E o \in Order : RecAsk(o) \/ RecAskFails(o)) \/ RecAccount \/ RecOrders
            \/ RecCompare \/ RecFail
  BY <1>11, <1>8 DEF RecBegin, RecAsk, RecAskFails, RecAccount, RecOrders,
     RecCompare, RecFail,
                     engine_vars
<1> QED
  BY <1>2, <1>3, <1>4, <1>5, <1>6, <1>7, <1>9, <1>10, <1>11 DEF Next, RecStep

LEMMA GoneInit == Init => Gone
BY DEF Init, Gone, InLine, OneInFlight, Landed, ReportsTrue, AnswerTrue,
   AskedIsSettled, Asked,
       Closed

LEMMA GoneNext ==
    ASSUME ~ Late, Types, Books, Gone, [Next]_vars
    PROVE  Gone'
BY InLineNext, FlightNext, GoesOnwards, ReportsNext, AnswerNext, ClosedNext
   DEF Gone

(* If no request lands after its client gave up, then for any orders an    *)
(* order that the engine closed as cancelled or expired, or whose cancel   *)
(* was acknowledged, is over at the venue and stays so (drain,             *)
(* resolve_unknown_outcomes: "there is nothing at the venue to double-fill *)
(* against").                                                              *)
THEOREM ClosedIsGoneHolds == ~ Late => (Spec => []ClosedIsGone)
<1> SUFFICES ASSUME ~ Late PROVE Spec => []ClosedIsGone
  OBVIOUS
<1>1. Init => Gone
  BY GoneInit
<1>2. Types /\ Books /\ Gone /\ [Next]_vars => Gone'
  BY GoneNext
<1>3. Gone => ClosedIsGone
  BY DEF Gone, Closed, ClosedIsGone, Settled
<1> QED  BY <1>1, <1>2, <1>3, BooksHold, PTL DEF Spec
-----------------------------------------------------------------------------
(* The calls of the signed client (SignedRequests), for any number of      *)
(* attempts.                                                               *)

Of(c, set) == {x \in set : x.of = c}
Definite == {200, -2011}

(* A call that has not begun has made no attempt, and one that asks has    *)
(* one left.                                                               *)
TriesCount == \A c \in Signed!Call :
    /\ call[c] = "idle" => tries[c] = 0
    /\ call[c] = "asks" => tries[c] < MaxAttempts
    /\ call[c] = "waits" => tries[c] >= 1

(* One request of the POST at most is ever sent, and it is on its way, or  *)
(* has arrived and was or was not answered: never two of these.            *)
PostOnce ==
    /\ call["POST"] \in {"idle", "asks", "budget", "exhausted"} =>
          born = 0 /\ Of("POST", requests) = {} /\ Of("POST", answers) = {}
    /\ \A q \in Of("POST", requests) :
          /\ born = 0 /\ Of("POST", answers) = {} /\ Of("POST", requests) = {q}
          /\ call["POST"] \in {"waits", "unknown"}
    /\ \A a \in Of("POST", answers) : IF a.code = 200 THEN born = 1 ELSE a.code = 503 \/ born = 0
    /\ call["POST"] = "done" => born = 1
    /\ call["POST"] = "refused" => born = 0
    /\ born <= 1

(* A cancel is asked for once the POST has its answer, or has given it up; *)
(* and what tells of its success is not told of an order that works.       *)
DeleteAfter ==
    /\ call["DELETE"] # "idle" \/ Of("DELETE", requests) # {} \/ Of("DELETE", answers) # {}
          => call["POST"] \in {"done", "unknown"}
    /\ call["POST"] = "done" /\ order = "working" =>
          call["DELETE"] # "done" /\ \A a \in Of("DELETE", answers) : a.code \notin Definite

SignedInv == Signed!TypeOK /\ TriesCount /\ PostOnce /\ DeleteAfter

LEMMA SignedInit == Signed!Init => SignedInv
<1> SUFFICES ASSUME Signed!Init PROVE SignedInv
  OBVIOUS
<1>1. Signed!TypeOK
  <2>1. tries \in [Signed!Call -> 0 .. MaxAttempts]
    BY PartsAssumption DEF Signed!Init
  <2>2. call \in [Signed!Call -> {"idle", "asks", "waits"} \cup Signed!Ended]
    BY DEF Signed!Init
  <2>3. spent \in BOOLEAN
    BY Zenon DEF Signed!Init
  <2> QED  BY <2>1, <2>2, <2>3 DEF Signed!Init, Signed!TypeOK
<1>2. TriesCount
  BY DEF Signed!Init, TriesCount
<1>3. PostOnce /\ DeleteAfter
  BY DEF Signed!Init, PostOnce, DeleteAfter, Of, Signed!Call
<1> QED  BY <1>1, <1>2, <1>3 DEF SignedInv

(* An observation of the budget that grows old changes nothing else.       *)
LEMMA StalesAlone ==
    ASSUME Signed!Stales
    PROVE  UNCHANGED <<call, tries, requests, answers, order, born>> /\ spent' \in BOOLEAN
<1>1. UNCHANGED <<call, tries, requests, answers, order, born>>
  BY DEF Signed!Stales, Signed!venue
<1>2. spent' = FALSE
  BY DEF Signed!Stales
<1> QED  BY <1>1, <1>2

(* What a step does to the types and the attempts, and then to the order   *)
(* and to what is said of it.                                              *)
LEMMA SignedTypes ==
    ASSUME SignedInv, Signed!Next PROVE Signed!TypeOK' /\ TriesCount'
<1> USE PartsAssumption DEF SignedInv, Signed!TypeOK, TriesCount, Signed!Ended,
        Signed!client, Signed!venue
<1>1. ASSUME NEW c \in Signed!Call, Signed!Begin(c) PROVE Signed!TypeOK' /\ TriesCount'
  BY <1>1 DEF Signed!Begin, Signed!Goes
<1>2. ASSUME NEW c \in Signed!Call, Signed!Refrain(c) PROVE Signed!TypeOK' /\ TriesCount'
  BY <1>2 DEF Signed!Refrain, Signed!Goes
<1>3. ASSUME NEW c \in Signed!Call, Signed!Attempt(c) PROVE Signed!TypeOK' /\ TriesCount'
  <2>1. /\ call' = [call EXCEPT ![c] = "waits"] /\ tries' = [tries EXCEPT ![c] = @ + 1]
        /\ requests' = requests \cup {[of |-> c, n |-> tries'[c]]}
        /\ tries[c] \in 0 .. MaxAttempts /\ tries[c] < MaxAttempts
        /\ UNCHANGED <<answers, spent, order, born>>
    BY <1>3 DEF Signed!Attempt, Signed!Goes
  <2>2. tries'[c] = tries[c] + 1 /\ tries'[c] \in 1 .. MaxAttempts
    BY <2>1
  <2>3. tries' \in [Signed!Call -> 0 .. MaxAttempts]
    BY <2>1, <2>2
  <2>4. requests' \subseteq [of : Signed!Call, n : 1 .. MaxAttempts]
    BY <2>1, <2>2
  <2>5. call' \in [Signed!Call -> {"idle", "asks", "waits"} \cup Signed!Ended]
    BY <2>1
  <2>6. TriesCount'
    BY <2>1, <2>2, <2>5
  <2> QED  BY <2>1, <2>3, <2>4, <2>5, <2>6
<1>4. ASSUME NEW c \in Signed!Call, Signed!Unconnected(c) PROVE Signed!TypeOK' /\ TriesCount'
  <2>1. /\ call' = [call EXCEPT ![c] = IF tries'[c] < MaxAttempts THEN "asks" ELSE "exhausted"]
        /\ tries' = [tries EXCEPT ![c] = @ + 1]
        /\ tries[c] \in 0 .. MaxAttempts /\ tries[c] < MaxAttempts
        /\ UNCHANGED <<requests, answers, spent, order, born>>
    BY <1>4 DEF Signed!Unconnected, Signed!Goes
  <2>2. tries'[c] = tries[c] + 1 /\ tries'[c] \in 1 .. MaxAttempts
    BY <2>1
  <2>3. tries' \in [Signed!Call -> 0 .. MaxAttempts]
    BY <2>1, <2>2
  <2>4. call' \in [Signed!Call -> {"idle", "asks", "waits"} \cup Signed!Ended]
    BY <2>1
  <2>5. TriesCount'
    BY <2>1, <2>2, <2>4
  <2> QED  BY <2>1, <2>3, <2>4, <2>5
<1>5. ASSUME NEW c \in Signed!Call, Signed!Breaks(c) PROVE Signed!TypeOK' /\ TriesCount'
  BY <1>5 DEF Signed!Breaks, Signed!Again, Signed!Goes
<1>6. ASSUME NEW c \in Signed!Call, Signed!Answer(c) PROVE Signed!TypeOK' /\ TriesCount'
  <2>1. PICK a \in answers :
          /\ LET v == Signed!Verdict(c, a.code)
             IN  IF v = "again" THEN Signed!Again(c) ELSE Signed!Goes(c, v)
          /\ answers' = answers \ {a}
    BY <1>6 DEF Signed!Answer
  <2>2. /\ UNCHANGED <<tries, requests, order, born>> /\ spent' \in BOOLEAN
    BY <1>6 DEF Signed!Answer
  <2>3. Signed!Verdict(c, a.code) \in {"done", "again", "unknown", "refused"}
    BY DEF Signed!Verdict
  <2>4. PICK s \in {"asks", "exhausted", "done", "unknown", "refused"} :
          call' = [call EXCEPT ![c] = s] /\ (s = "asks" => tries[c] < MaxAttempts)
    BY <2>1, <2>3 DEF Signed!Again, Signed!Goes
  <2> QED  BY <2>1, <2>2, <2>4
<1>7. ASSUME NEW q \in requests, Signed!Takes(q) PROVE Signed!TypeOK' /\ TriesCount'
  <2>1. /\ q.of \in Signed!Call /\ q.n \in 1 .. MaxAttempts
        /\ requests' \subseteq requests /\ UNCHANGED <<call, tries, spent>>
    BY <1>7 DEF Signed!Takes
  <2>2. \E code \in {200, 400, 429, 503, -2011} :
           answers' = answers \cup {[of |-> q.of, n |-> q.n, code |-> code]}
    BY <1>7 DEF Signed!Takes, Signed!Response
  <2>3. answers' \subseteq [of : Signed!Call, n : 1 .. MaxAttempts, code : {200, 400, 429, 503, -2011}]
    BY <2>1, <2>2
  <2>4. order' \in {"none", "working", "filled", "cancelled"} /\ born' \in Nat
    BY <1>7 DEF Signed!Takes, Signed!Opens
  <2> QED  BY <2>1, <2>3, <2>4
<1>8. CASE Signed!Stales
  <2>1. UNCHANGED <<call, tries, requests, answers, order, born>> /\ spent' \in BOOLEAN
    BY <1>8, StalesAlone
  <2> QED  BY <2>1
<1>9. CASE Signed!Loses
  BY <1>9 DEF Signed!Loses
<1>10. CASE Signed!Fills
  BY <1>10 DEF Signed!Fills
<1> QED
  BY <1>1, <1>2, <1>3, <1>4, <1>5, <1>6, <1>7, <1>8, <1>9, <1>10 DEF Signed!Next

LEMMA PostNext ==
    ASSUME SignedInv, Signed!Next PROVE PostOnce' /\ DeleteAfter'
<1> USE DEF SignedInv, Signed!TypeOK, PostOnce, DeleteAfter, Of, Definite, Signed!Call,
        Signed!client, Signed!venue
<1>1. ASSUME NEW c \in Signed!Call, Signed!Begin(c) PROVE PostOnce' /\ DeleteAfter'
  BY <1>1 DEF Signed!Begin, Signed!Goes
<1>2. ASSUME NEW c \in Signed!Call, Signed!Refrain(c) PROVE PostOnce' /\ DeleteAfter'
  BY <1>2 DEF Signed!Refrain, Signed!Goes
<1>3. ASSUME NEW c \in Signed!Call, Signed!Attempt(c) PROVE PostOnce' /\ DeleteAfter'
  <2> DEFINE q == [of |-> c, n |-> tries'[c]]
  <2>1. q.of = c /\ requests' = requests \cup {q}
    BY <1>3 DEF Signed!Attempt
  <2> HIDE DEF q
  <2>2. call[c] = "asks" /\ call' = [call EXCEPT ![c] = "waits"] /\ UNCHANGED <<answers, order, born>>
    BY <1>3 DEF Signed!Attempt, Signed!Goes
  <2>3. CASE c = "POST"
    BY <2>1, <2>2, <2>3
  <2>4. CASE c = "DELETE"
    BY <2>1, <2>2, <2>4
  <2> QED  BY <2>3, <2>4
<1>4. ASSUME NEW c \in Signed!Call, Signed!Unconnected(c) PROVE PostOnce' /\ DeleteAfter'
  BY <1>4 DEF Signed!Unconnected, Signed!Goes
<1>5. ASSUME NEW c \in Signed!Call, Signed!Breaks(c) PROVE PostOnce' /\ DeleteAfter'
  BY <1>5 DEF Signed!Breaks, Signed!Again, Signed!Goes, Signed!Repeats
<1>6. ASSUME NEW c \in Signed!Call, Signed!Answer(c) PROVE PostOnce' /\ DeleteAfter'
  <2>1. PICK a \in answers :
          /\ a.of = c
          /\ LET v == Signed!Verdict(c, a.code)
             IN  IF v = "again" THEN Signed!Again(c) ELSE Signed!Goes(c, v)
          /\ answers' = answers \ {a}
    BY <1>6 DEF Signed!Answer
  <2>2. call[c] = "waits" /\ UNCHANGED <<requests, order, born>>
    BY <1>6 DEF Signed!Answer
  <2>3. CASE c = "POST"
    <3>1. Signed!Verdict(c, a.code) =
             IF a.code = 200 THEN "done" ELSE IF a.code = 503 THEN "unknown" ELSE "refused"
      BY <2>3 DEF Signed!Verdict, Signed!Repeats
    <3>2. call' = [call EXCEPT ![c] = IF a.code = 200 THEN "done"
                                      ELSE IF a.code = 503 THEN "unknown" ELSE "refused"]
      BY <2>1, <3>1 DEF Signed!Goes
    <3>3. a \in Of("POST", answers) /\ Of("POST", requests) = {}
      BY <2>1, <2>3
    <3> QED  BY <2>1, <2>2, <2>3, <3>2, <3>3
  <2>4. CASE c = "DELETE"
    <3>1. Signed!Verdict(c, a.code) = "done" => a.code \in Definite
      BY <2>4 DEF Signed!Verdict
    <3>2. PICK s : call' = [call EXCEPT ![c] = s] /\ (s = "done" => a.code \in Definite)
      BY <2>1, <3>1 DEF Signed!Again, Signed!Goes
    <3> QED  BY <2>1, <2>2, <2>4, <3>2
  <2> QED  BY <2>3, <2>4
<1>7. ASSUME NEW q \in requests, Signed!Takes(q) PROVE PostOnce' /\ DeleteAfter'
  <2>1. requests' = requests \ {q} /\ UNCHANGED call
    BY <1>7 DEF Signed!Takes
  <2>2. CASE q.of = "POST"
    <3> DEFINE reply(code) == Signed!Response(q, code)
    <3>0. PICK code : /\ answers' = answers \cup {reply(code)}
                      /\ \/ born' = born + 1 /\ code \in {200, 503}
                         \/ born' = born /\ code \in {400, 429, 503}
      BY <1>7, <2>2 DEF Signed!Takes, Signed!Opens
    <3>1. PICK a : /\ a.of = "POST" /\ answers' = answers \cup {a}
                   /\ \/ born' = born + 1 /\ a.code \in {200, 503}
                      \/ born' = born /\ a.code \in {400, 429, 503}
      <4>1. reply(code).of = "POST" /\ reply(code).code = code
        BY <2>2 DEF Signed!Response
      <4> HIDE DEF reply
      <4> QED  BY <3>0, <4>1
    <3>2. born = 0 /\ Of("POST", answers) = {} /\ Of("POST", requests) = {q}
          /\ call["POST"] \in {"waits", "unknown"}
      BY <2>2
    <3>3. Of("POST", answers') = {a} /\ Of("POST", requests') = {}
      BY <2>1, <3>1, <3>2
    <3>4. Of("DELETE", answers') = Of("DELETE", answers) /\ Of("DELETE", requests') = Of("DELETE", requests)
      BY <2>1, <2>2, <3>1
    <3> QED  BY <2>1, <3>1, <3>2, <3>3, <3>4
  <2>3. CASE q.of = "DELETE"
    <3> DEFINE reply(code) == Signed!Response(q, code)
    <3>0. PICK code : answers' = answers \cup {reply(code)}
                      /\ (code \in Definite => order' # "working")
      BY <1>7, <2>3 DEF Signed!Takes
    <3>1. PICK a : /\ a.of = "DELETE" /\ answers' = answers \cup {a}
                   /\ a.code \in Definite => order' # "working"
      <4>1. reply(code).of = "DELETE" /\ reply(code).code = code
        BY <2>3 DEF Signed!Response
      <4> HIDE DEF reply
      <4> QED  BY <3>0, <4>1
    <3>2. born' = born /\ (order' = order \/ order' = "cancelled")
      BY <1>7, <2>3 DEF Signed!Takes
    <3>3. Of("POST", answers') = Of("POST", answers) /\ Of("POST", requests') = Of("POST", requests)
      BY <2>1, <2>3, <3>1
    <3> QED  BY <2>1, <2>3, <3>1, <3>2, <3>3
  <2> QED  BY <2>2, <2>3
<1>8. CASE Signed!Stales
  <2>1. UNCHANGED <<call, requests, answers, order, born>>
    BY <1>8, StalesAlone
  <2> QED  BY <2>1
<1>9. CASE Signed!Loses
  BY <1>9 DEF Signed!Loses
<1>10. CASE Signed!Fills
  BY <1>10 DEF Signed!Fills
<1> QED
  BY <1>1, <1>2, <1>3, <1>4, <1>5, <1>6, <1>7, <1>8, <1>9, <1>10 DEF Signed!Next

(* For any number of attempts of either call, and a network that loses and *)
(* delays requests and answers as it likes: an order is opened once at     *)
(* most, what a call answers is so for good, and an order that was placed  *)
(* and whose cancel ended well works no more (RetryPolicy,                 *)
(* cancelled_or_already_gone).                                             *)
THEOREM AnswersHold == Signed!Spec => []AnswerIsTheTruth
<1>1. SignedInv /\ [Signed!Next]_(Signed!vars) => SignedInv'
  <2>1. ASSUME SignedInv, UNCHANGED Signed!vars PROVE SignedInv'
    BY <2>1 DEF SignedInv, Signed!TypeOK, TriesCount, PostOnce, DeleteAfter, Of, Signed!vars,
                Signed!client, Signed!venue
  <2> QED  BY <2>1, SignedTypes, PostNext DEF SignedInv
<1>2. SignedInv => AnswerIsTheTruth
  BY DEF SignedInv, PostOnce, DeleteAfter, Of, AnswerIsTheTruth, Signed!AnswerIsTheTruth,
         Signed!OnTheWire
<1> QED  BY <1>1, <1>2, SignedInit, PTL DEF Signed!Spec
-----------------------------------------------------------------------------
(* A session of LiveSession, at its pump or as it ends.                    *)

LiveInit == \E s \in {"pump", "parting"} : Live!InitAt(s)
LiveSpec == LiveInit /\ [][Live!Next]_(Live!session)

Stages == {"pump", "parting", "flush", "grace", "cancel", "clear", "flatten", "check", "again",
           "list", "listed", "done"}

(* The outage clock is never behind the outage, and never ahead of it      *)
(* unless a frame could not be read.                                       *)
ClockTrue ==
    /\ since \in Live!Up .. MaxDown + 1 /\ outage \in Live!Up .. MaxDown + 1
    /\ outage # Live!Up => since # Live!Up /\ since >= outage
    /\ ~ misread => since = outage

BreachOK == breach \in [is : {"no", "asked", "performed"}, why : {"none", "blind", "limit", "mismatch"}]

BlindInv == stage \in Stages /\ ClockTrue /\ BreachOK /\ Live!BlindIsHalted

LEMMA BlindInit == LiveInit => BlindInv
<1> SUFFICES ASSUME NEW s \in {"pump", "parting"}, Live!InitAt(s) PROVE BlindInv
  BY DEF LiveInit
<1>1. /\ stage = s /\ since = -1 /\ outage = -1 /\ owed = {}
      /\ breach.is \in {"no", "asked"} /\ breach.why # "blind" /\ BreachOK
  <2>1. stage = s /\ since = Live!Up /\ outage = Live!Up /\ owed = {}
    BY Zenon DEF Live!InitAt
  <2>2. breach = [is |-> "no", why |-> "none"] \/ breach = [is |-> "asked", why |-> "limit"]
    BY Zenon DEF Live!InitAt
  <2> QED  BY <2>1, <2>2 DEF BreachOK, Live!Up
<1> QED  BY <1>1, PartsAssumption DEF BlindInv, ClockTrue, Stages, Live!BlindIsHalted, Live!Up

LEMMA ClockNext == ASSUME ClockTrue, Live!Next PROVE ClockTrue'
<1> USE PartsAssumption DEF ClockTrue, Live!Up, Live!clocks, Live!Goes
<1>1. CASE Live!Tick
  BY <1>1 DEF Live!Tick, Live!Counted, Live!Capped
<1>2. CASE Live!Disconnect
  BY <1>2 DEF Live!Disconnect, Live!Down
<1>3. CASE Live!Reconnect
  BY <1>3 DEF Live!Reconnect
<1>4. CASE Live!BadFrame
  <2>1. since' = Live!Down(since) /\ outage' = outage
    BY <1>4 DEF Live!BadFrame
  <2>2. outage = Live!Up
    BY <1>4 DEF Live!BadFrame
  <2>3. misread'
    BY <1>4, Zenon DEF Live!BadFrame
  <2> QED  BY <2>1, <2>2, <2>3 DEF Live!Down
<1>5. CASE UNCHANGED <<since, outage, misread>>
  BY <1>5
<1> QED
  BY <1>1, <1>2, <1>3, <1>4, <1>5
  DEF Live!Next, Live!Send, Live!Lose, Live!Breach, Live!VenueFills, Live!Deliver, Live!Resolve,
      Live!MarkPollFails, Live!WriteControl, Live!Pump, Live!PumpHalted, Live!Part, Live!Flushed,
      Live!Graced, Live!CancelAll, Live!Close, Live!Flattened, Live!SettleHalt, Live!Check,
      Live!CheckAgain, Live!List, Live!Finalise

(* A halt that was asked for stays, and it is carried out once.            *)
LEMMA PerformedIs ==
    ASSUME NEW x \in Live!Exits, Live!Performed(x), BreachOK
    PROVE  BreachOK' /\ breach'.is = "performed" /\ breach'.why = breach.why
BY DEF Live!Performed, BreachOK

(* What is owed was asked for.                                             *)
LEMMA BlindIs ==
    ASSUME NEW src \in {{"market"}, {"market", "mark"}}, "market" \in Live!Blind(src), ClockTrue
    PROVE  /\ owned # 0 /\ outage # Live!Up /\ since > MaxDown
BY PartsAssumption DEF Live!Blind, ClockTrue, Live!Up

LEMMA BlindNext ==
    ASSUME BlindInv, Live!Next PROVE BlindInv'
<1> USE DEF BlindInv, Live!BlindIsHalted, Live!Halted
<1>1. ClockTrue'
  BY ClockNext
<1> USE DEF Stages, Live!clocks
<1>2. CASE Live!Reconnect
  <2>1. breach' = Live!Observed(breach, since) /\ owed' = owed \cup Live!Blind({"market"})
        /\ stage = "pump" /\ stage' = "pump" /\ misread' = misread
    BY <1>2 DEF Live!Reconnect
  <2>2. "market" \in Live!Blind({"market"}) => owned # 0 /\ since > MaxDown
    BY BlindIs
  <2>3. since > MaxDown /\ owned # 0 /\ ~ misread => "market" \in Live!Blind({"market"})
    BY DEF ClockTrue, Live!Blind
  <2> QED  BY <1>1, <2>1, <2>2, <2>3 DEF Live!Observed, Live!Asked, BreachOK
<1>3. CASE Live!Pump
  <2>1. /\ owed' = owed \cup Live!Blind({"market", "mark"}) /\ misread' = misread
        /\ stage = "pump" /\ stage' \in {"pump", "parting"}
    BY <1>3 DEF Live!Pump
  <2>2. "market" \in Live!Blind({"market", "mark"}) => owned # 0 /\ outage # Live!Up /\ since > MaxDown
    BY BlindIs
  <2>3. since > MaxDown /\ owned # 0 /\ ~ misread => "market" \in Live!Blind({"market", "mark"})
    BY DEF ClockTrue, Live!Blind
  <2>4. CASE breach.is = "asked"
    <3>1. BreachOK' /\ breach'.is = "performed" /\ breach'.why = breach.why
      BY <1>3, <2>4, PerformedIs DEF Live!Pump, Live!Exits
    <3> QED  BY <1>1, <2>1, <3>1
  <2>5. CASE breach.is # "asked"
    <3>1. breach' = IF since = Live!Up THEN breach ELSE Live!Observed(breach, since)
      BY <1>3, <2>5 DEF Live!Pump, Live!Checked
    <3>2. since = Live!Up => ~ (since > MaxDown)
      BY PartsAssumption DEF Live!Up
    <3> QED
      BY <1>1, <2>1, <2>2, <2>3, <3>1, <3>2 DEF Live!Observed, Live!Asked, BreachOK, ClockTrue
  <2> QED  BY <2>4, <2>5
<1>4. CASE Live!Part
  <2>1. stage = "parting" /\ stage' = "flush" /\ UNCHANGED <<owed, misread>>
    BY <1>4 DEF Live!Part, Live!Goes
  <2>2. CASE breach.is = "asked"
    <3>1. BreachOK' /\ breach'.is = "performed" /\ breach'.why = breach.why
      BY <1>4, <2>2, PerformedIs DEF Live!Part, Live!Exits
    <3> QED  BY <1>1, <2>1, <3>1
  <2>3. CASE breach.is # "asked"
    <3>1. breach' = breach
      BY <1>4, <2>3 DEF Live!Part
    <3> QED  BY <1>1, <2>1, <2>3, <3>1 DEF BreachOK
  <2> QED  BY <2>2, <2>3
<1>5. CASE Live!Check
  <2>1. stage = "check" /\ stage' \in {"list", "again"} /\ UNCHANGED <<owed, misread>>
    BY <1>5 DEF Live!Check, Live!Goes
  <2>2. CASE breach' = breach
    BY <1>1, <2>1, <2>2 DEF BreachOK
  <2>3. CASE Live!Performed("lastExit")
    <3>1. BreachOK' /\ breach'.is = "performed" /\ breach'.why = breach.why
      BY <2>3, PerformedIs DEF Live!Exits
    <3> QED  BY <1>1, <2>1, <3>1
  <2> QED  BY <1>5, <2>2, <2>3 DEF Live!Check
<1>6. CASE Live!Breach
  BY <1>1, <1>6 DEF Live!Breach, Live!Asked, BreachOK, Live!choices
<1>7. CASE UNCHANGED <<stage, owed, misread, breach>> \/ (misread' /\ UNCHANGED <<stage, owed, breach>>)
  BY <1>1, <1>7 DEF BreachOK
<1>8. CASE UNCHANGED <<owed, misread, breach>> /\ stage' \in Stages \ {"pump"}
           /\ (stage = "pump" => stage' = "parting" /\ Live!Halted)
           /\ (stage = "parting" => Live!Halted)
  BY <1>1, <1>8 DEF BreachOK
<1> QED
  <2>1. CASE Live!BadFrame
    <3>1. UNCHANGED <<stage, owed, breach>>
      BY <2>1 DEF Live!BadFrame
    <3>2. misread'
      BY <2>1, Zenon DEF Live!BadFrame
    <3> QED  BY <1>7, <3>1, <3>2
  <2>2. CASE Live!Send \/ Live!Lose \/ Live!Tick \/ Live!Disconnect \/ Live!MarkPollFails
             \/ (\E c \in {"unset", "keep", "close"} : Live!WriteControl(c))
             \/ (\E o \in Live!Ours : Live!VenueFills(o) \/ Live!Deliver(o) \/ Live!Resolve(o))
    <3>1. UNCHANGED <<stage, owed, misread, breach>>
      BY <2>2 DEF Live!Send, Live!Lose, Live!VenueFills, Live!Deliver, Live!Resolve,
                  Live!Tick, Live!Disconnect, Live!MarkPollFails, Live!WriteControl
    <3> QED  BY <1>7, <3>1
  <2>3. CASE Live!PumpHalted
    BY <1>8, <2>3 DEF Live!PumpHalted
  <2>4. CASE Live!Flushed \/ Live!Graced \/ Live!CancelAll \/ Live!Close \/ Live!Flattened
             \/ Live!SettleHalt \/ Live!CheckAgain \/ Live!List \/ Live!Finalise
    <3>1. UNCHANGED <<owed, misread, breach>> /\ stage' \in Stages \ {"pump"}
          /\ stage \notin {"pump", "parting"}
      BY <2>4 DEF Live!Flushed, Live!Graced, Live!CancelAll, Live!Close, Live!Flattened,
                  Live!SettleHalt, Live!CheckAgain, Live!List, Live!Finalise, Live!Goes
    <3> QED  BY <1>8, <3>1
  <2> QED
    BY <2>1, <2>2, <2>3, <2>4, <1>2, <1>3, <1>4, <1>5, <1>6 DEF Live!Next

(* For any ceiling: a session that has a position is asked to halt when    *)
(* its market has been away longer, whether it comes back or not; no       *)
(* shorter outage asks for it, unless a frame could not be read; and what  *)
(* ends the session carries it out (_check_disconnect, observe_disconnect, *)
(* _on_status, _end_live).                                                 *)
THEOREM BlindIsHaltedHolds == LiveSpec => []BlindIsHalted
<1>1. BlindInv /\ [Live!Next]_(Live!session) => BlindInv'
  <2>1. ASSUME BlindInv, UNCHANGED Live!session PROVE BlindInv'
    BY <2>1 DEF BlindInv, ClockTrue, BreachOK, Live!BlindIsHalted, Live!Halted, Live!session, Live!clocks
  <2> QED  BY <2>1, BlindNext
<1>2. BlindInv => BlindIsHalted
  BY DEF BlindInv, BlindIsHalted
<1> QED  BY <1>1, <1>2, BlindInit, PTL DEF LiveSpec
-----------------------------------------------------------------------------
(* What a session ends with (LiveSession's ending), for the theorem below. *)
Requests == [kind : {"place", "cancel"}, order : Live!Ours]

EndTypes ==
    /\ stage \in Stages /\ BreachOK
    /\ here \in [Live!Ours -> {"none", "open", "ended"}]
    /\ there \in [Live!Ours -> {"none", "working", "filled", "cancelled"}]
    /\ lots \in [Live!Ours -> Int] /\ owned \in Int /\ held \in Int
    /\ wire \in Seq(Requests) /\ late \in BOOLEAN

(* The exit of a last halt is not known of before that halt.               *)
Behind == {"list", "listed", "done"}
LastFresh == stage \notin Behind \cup {"again"} =>
    /\ here["lastExit"] = "none" /\ there["lastExit"] = "none" /\ lots["lastExit"] = 0
    /\ "lastExit" \notin reports \cup unanswered
    /\ \A i \in DOMAIN wire : wire[i].order # "lastExit"

(* Nothing is on the wire but in the stages that wait for it to be empty,  *)
(* and, but for a cancel-all that failed, nothing works at the venue.      *)
WireDone == stage \in {"grace", "cancel", "clear", "check"} \cup Behind => wire = <<>>
Cleared == stage \in {"clear", "flatten", "check", "again"} \cup Behind /\ noted = {} => Live!Working = {}

Flat == (IF Live!Halted THEN armed ELSE flatten) => owned = 0

OnlyOpen(set) == \A o \in Live!Ours : Live!Open(o) => o \in set

WhileFlattening == stage = "flatten" /\ noted = {} =>
    /\ wire \in {<<>>, <<Live!Placing("exit")>>}
    /\ OnlyOpen({"exit"}) /\ (Live!Open("exit") => owned # 0)

AtCheck == stage = "check" /\ noted = {} => OnlyOpen({}) /\ Flat

(* A last exit that closes the position leaves the ledger at odds with it. *)
AtLastExit == stage = "again" /\ noted = {} =>
    /\ owned # held
    /\ OnlyOpen({"lastExit"}) /\ (Live!Open("lastExit") => owned + lots["lastExit"] # held)
    /\ \/ wire = <<>>
       \/ /\ wire = <<Live!Placing("lastExit")>>
          /\ Live!Open("lastExit") /\ lots["lastExit"] = 0 /\ owned # 0
          /\ "lastExit" \notin reports \cup unanswered

AtEnd == stage \in Behind /\ noted = {} /\ final = "agrees" => OnlyOpen({}) /\ Flat /\ owned = held

AsListed == stage \in {"listed", "done"} => listed = Live!Unlisted \/ Live!Working \ after \subseteq listed

(* As long as the strategy has not submitted behind the flush.             *)
Undisturbed == WireDone /\ Cleared /\ WhileFlattening /\ AtCheck /\ AtLastExit /\ AtEnd

EndInv == EndTypes /\ LastFresh /\ AsListed /\ (~ late => Undisturbed)

LEMMA OursAre == Live!Ours = {"rests", "reply", "exit", "lastExit"}
BY DEF Live!Ours, Live!Rests, Live!Reply, Live!Exits

(* Every finite set has a sequence of its elements.                        *)
LEMMA ListOf ==
    ASSUME NEW S, IsFiniteSet(S) PROVE Live!SetToSeq(S) \in Seq(S)
<1>1. Cardinality(S) \in Nat /\ ExistsBijection(1 .. Cardinality(S), S)
  BY FS_CardinalityType
<1>2. PICK f : f \in Bijection(1 .. Cardinality(S), S)
  BY <1>1 DEF ExistsBijection
<1>3. f \in [1 .. Cardinality(S) -> S] /\ Live!IsInjective(f)
  BY <1>2 DEF Bijection, Injection, Live!IsInjective, IsInjective
<1>4. Live!SetToSeq(S) \in [1 .. Cardinality(S) -> S]
  BY <1>3 DEF Live!SetToSeq, Live!Cardinality, Cardinality, Live!IsFiniteSet, IsFiniteSet
<1> QED  BY <1>1, <1>4

Cancelling == {[kind |-> "cancel", order |-> o] : o \in {p \in Live!Ours : Live!Open(p)}}

LEMMA CancelsAre ==
    /\ Live!SetToSeq(Cancelling) \in Seq(Cancelling)
    /\ OnlyOpen({}) => Live!SetToSeq(Cancelling) = <<>>
<1>1. IsFiniteSet({"rests", "reply", "exit", "lastExit"})
  <2>1. IsFiniteSet({} \cup {"rests"})
    BY FS_EmptySet, FS_AddElement
  <2>2. IsFiniteSet(({} \cup {"rests"}) \cup {"reply"})
    BY <2>1, FS_AddElement
  <2>3. IsFiniteSet((({} \cup {"rests"}) \cup {"reply"}) \cup {"exit"})
    BY <2>2, FS_AddElement
  <2>4. IsFiniteSet(((({} \cup {"rests"}) \cup {"reply"}) \cup {"exit"}) \cup {"lastExit"})
    BY <2>3, FS_AddElement
  <2>5. ((({} \cup {"rests"}) \cup {"reply"}) \cup {"exit"}) \cup {"lastExit"}
           = {"rests", "reply", "exit", "lastExit"}
    OBVIOUS
  <2> QED  BY <2>4, <2>5
<1>2. IsFiniteSet({p \in Live!Ours : Live!Open(p)})
  BY <1>1, OursAre, FS_Subset
<1>3. IsFiniteSet(Cancelling)
  <2> DEFINE P == {p \in Live!Ours : Live!Open(p)}
             f == [o \in P |-> [kind |-> "cancel", order |-> o]]
  <2>1. f \in Surjection(P, Cancelling)
    BY DEF Cancelling, Surjection
  <2> HIDE DEF P, f
  <2>2. IsFiniteSet(P)
    BY <1>2 DEF P
  <2> QED  BY <2>1, <2>2, FS_Surjection
<1>4. Live!SetToSeq(Cancelling) \in Seq(Cancelling)
  BY <1>3, ListOf
<1>5. OnlyOpen({}) => Cancelling = {}
  BY DEF OnlyOpen, Cancelling
<1>6. Cancelling = {} => Live!SetToSeq(Cancelling) = <<>>
  BY <1>4
<1> QED  BY <1>4, <1>5, <1>6

LEMMA EndInit == LiveInit => EndInv
<1> SUFFICES ASSUME NEW s \in {"pump", "parting"}, Live!InitAt(s) PROVE EndInv
  BY DEF LiveInit
<1>1. /\ stage = s /\ wire = <<>> /\ reports = {} /\ unanswered = {} /\ noted = {} /\ final = "none"
      /\ here = [o \in Live!Ours |-> IF o = Live!Rests THEN "open" ELSE "none"]
      /\ there = [o \in Live!Ours |-> IF o = Live!Rests THEN "working" ELSE "none"]
      /\ lots = [o \in Live!Ours |-> 0] /\ held \in {0, 1} /\ owned = held /\ late = FALSE
  BY Zenon DEF Live!InitAt
<1>2. breach = [is |-> "no", why |-> "none"] \/ breach = [is |-> "asked", why |-> "limit"]
  BY Zenon DEF Live!InitAt
<1>3. late \in BOOLEAN
  BY <1>1, Zenon
<1>4. EndTypes /\ LastFresh
  BY <1>1, <1>2, <1>3, OursAre DEF EndTypes, LastFresh, BreachOK, Stages, Requests, Live!Rests
<1> QED
  BY <1>1, <1>4 DEF EndInv, Undisturbed, WireDone, Cleared, WhileFlattening, AtCheck, AtLastExit, AtEnd,
                    AsListed, Behind

(* What is said of the ending is said of these.                            *)
Account == <<armed, flatten, here, there, lots, unanswered, owned, held, wire, reports, late, noted,
             final, listed, after>>

LEMMA QuietNext ==
    ASSUME EndInv, UNCHANGED Account, BreachOK', Live!Halted' = Live!Halted, stage' = stage
    PROVE  EndInv'
BY DEF EndInv, Undisturbed, Account, EndTypes, LastFresh, WireDone, Cleared, WhileFlattening, AtCheck, AtLastExit,
       AtEnd, AsListed, Flat, OnlyOpen, Live!Open, Live!Working, Live!Halted

(* The first stages are not bound to anything but their types.             *)
Early == {"pump", "parting", "flush"}

LEMMA EarlyNext ==
    ASSUME stage' \in Early, EndTypes', LastFresh' PROVE EndInv'
BY DEF Early, EndInv, Undisturbed, WireDone, Cleared, WhileFlattening, AtCheck, AtLastExit, AtEnd,
       AsListed, Behind

(* A halt that is carried out writes cancels, and perhaps an exit.         *)
LEMMA PerformedWire ==
    ASSUME NEW x \in Live!Exits, Live!Performed(x), EndTypes
    PROVE  /\ here' \in [Live!Ours -> {"none", "open", "ended"}] /\ wire' \in Seq(Requests)
           /\ \A o \in Live!Ours \ {x} : here'[o] = here[o]
           /\ late' = late
           /\ \A i \in DOMAIN wire' :
                 \/ i \in DOMAIN wire /\ wire'[i] = wire[i]
                 \/ wire'[i] = Live!Placing(x)
                 \/ \E o \in Live!Ours : Live!Open(o) /\ wire'[i].order = o
           /\ OnlyOpen({}) /\ wire = <<>> =>
                 IF armed /\ owned # 0 THEN wire' = <<Live!Placing(x)>> /\ here' = [here EXCEPT ![x] = "open"]
                 ELSE wire' = <<>> /\ here' = here
<1> DEFINE cancels == Live!SetToSeq(Cancelling)
           exits == IF armed /\ owned # 0 THEN <<Live!Placing(x)>> ELSE <<>>
<1>1. wire' = wire \o cancels \o exits
  BY DEF Live!Performed, Cancelling
<1>2. here' = IF armed /\ owned # 0 THEN [here EXCEPT ![x] = "open"] ELSE here
  BY DEF Live!Performed
<1>3. cancels \in Seq(Cancelling) /\ (OnlyOpen({}) => cancels = <<>>)
  BY CancelsAre
<1>4. Cancelling \subseteq Requests /\ \A q \in Cancelling : \E o \in Live!Ours : Live!Open(o) /\ q.order = o
  BY DEF Cancelling, Requests
<1>5. Live!Placing(x) \in Requests
  BY DEF Live!Placing, Requests, Live!Ours
<1>6. exits \in Seq(Requests) /\ cancels \in Seq(Requests) /\ wire \in Seq(Requests)
  BY <1>3, <1>4, <1>5 DEF EndTypes
<1>7. \A i \in DOMAIN exits : exits[i] = Live!Placing(x)
  OBVIOUS
<1>8. \A i \in DOMAIN cancels : cancels[i] \in Cancelling
  BY <1>3
<1>9. OnlyOpen({}) /\ wire = <<>> => wire' = exits
  BY <1>1, <1>3, <1>6
<1> HIDE DEF cancels
<1>10. here' \in [Live!Ours -> {"none", "open", "ended"}] /\ \A o \in Live!Ours \ {x} : here'[o] = here[o]
  BY <1>2 DEF EndTypes, Live!Ours
<1>11. OnlyOpen({}) /\ wire = <<>> =>
          IF armed /\ owned # 0 THEN wire' = <<Live!Placing(x)>> /\ here' = [here EXCEPT ![x] = "open"]
          ELSE wire' = <<>> /\ here' = here
  BY <1>2, <1>9
<1> HIDE DEF exits
<1>12. wire' \in Seq(Requests)
  BY <1>1, <1>6
<1>13. ASSUME NEW i \in DOMAIN wire'
       PROVE  \/ i \in DOMAIN wire /\ wire'[i] = wire[i]
              \/ \E j \in DOMAIN cancels : wire'[i] = cancels[j]
              \/ \E j \in DOMAIN exits : wire'[i] = exits[j]
  <2>1. i \in 1 .. Len(wire) + Len(cancels) + Len(exits)
    BY <1>1, <1>6, <1>13
  <2>2. CASE i <= Len(wire)
    BY <1>1, <1>6, <2>1, <2>2
  <2>3. CASE i > Len(wire) /\ i <= Len(wire) + Len(cancels)
    BY <1>1, <1>6, <2>1, <2>3
  <2>4. CASE i > Len(wire) + Len(cancels)
    BY <1>1, <1>6, <2>1, <2>4
  <2> QED  BY <1>6, <2>1, <2>2, <2>3, <2>4
<1>14. late' = late
  BY DEF Live!Performed
<1> QED
  BY <1>4, <1>7, <1>8, <1>10, <1>11, <1>12, <1>13, <1>14

(* Before it, a halt leaves the last exit alone.                           *)
LEMMA PerformedEarly ==
    ASSUME EndTypes, LastFresh, stage \in Early, stage' \in Early, Live!Performed("exit"),
           UNCHANGED <<there, lots, unanswered, owned, held, reports>>
    PROVE  EndTypes' /\ LastFresh'
<1>1. BreachOK'
  BY PerformedIs DEF EndTypes, Live!Exits
<1>2. EndTypes'
  BY <1>1, PerformedWire DEF EndTypes, Live!Exits, Early, Stages
<1>3. LastFresh'
  BY PerformedWire, OursAre DEF EndTypes, LastFresh, Early, Behind, Live!Open, Live!Placing, Live!Exits
<1> QED  BY <1>2, <1>3

(* Before the strategy is late, it submits only ahead of the flush.        *)
LEMMA Replies ==
    ASSUME NEW orders, NEW queued, Live!MayReply(orders, queued), stage \notin Early, ~ late'
    PROVE  here' = orders /\ wire' = queued /\ ~ late
<1>1. CASE here' = orders /\ wire' = queued /\ late' = late
  BY <1>1, Zenon
<1>2. CASE late' = (stage \notin {"pump", "parting", "flush"})
  <2>1. stage \notin {"pump", "parting", "flush"}
    BY DEF Early
  <2> QED  BY <1>2, <2>1, Zenon
<1> QED  BY <1>1, <1>2, Zenon DEF Live!MayReply

(* What the strategy submits, on something that ended or on nothing.       *)
LEMMA ReplyTypes ==
    ASSUME EndTypes, LastFresh, stage' \in Stages,
           stage' \in Behind \cup {"again"} \/ stage \notin Behind \cup {"again"},
           NEW orders \in [Live!Ours -> {"none", "open", "ended"}],
           here["lastExit"] = "none" => orders["lastExit"] = "none",
           \/ Live!MayReply(orders, wire)
           \/ here' = orders /\ wire' = wire /\ late' = late,
           owned' \in Int,
           UNCHANGED <<breach, there, lots, held>>, reports' \subseteq reports, unanswered' \subseteq unanswered
    PROVE  EndTypes' /\ LastFresh'
<1>1. /\ \/ here' = orders /\ wire' = wire
         \/ here' = [orders EXCEPT !["reply"] = "open"] /\ wire' = Append(wire, Live!Placing("reply"))
      /\ late' \in BOOLEAN
  BY DEF Live!MayReply, Live!Reply, EndTypes
<1>2. Live!Placing("reply") \in Requests /\ Live!Placing("reply").order = "reply"
  BY OursAre DEF Live!Placing, Requests
<1>3. wire \in Seq(Requests)
  BY DEF EndTypes
<1>4. wire' \in Seq(Requests) /\ here' \in [Live!Ours -> {"none", "open", "ended"}]
      /\ here'["lastExit"] = orders["lastExit"]
  <2>1. wire' = wire \/ wire' = Append(wire, Live!Placing("reply"))
    BY <1>1
  <2>2. wire' \in Seq(Requests)
    BY <2>1, <1>2, <1>3
  <2>3. here' = orders \/ here' = [orders EXCEPT !["reply"] = "open"]
    BY <1>1
  <2> QED  BY <2>2, <2>3, <1>1, OursAre
<1>5. \A i \in DOMAIN wire' : wire'[i] \in {wire[j] : j \in DOMAIN wire} \cup {Live!Placing("reply")}
  BY <1>1, <1>3
<1>6. EndTypes'
  BY <1>1, <1>4 DEF EndTypes, BreachOK
<1>7. LastFresh'
  BY <1>2, <1>4, <1>5, OursAre DEF LastFresh
<1> QED  BY <1>6, <1>7

(* What a report or a pass of the reconciler ends.                         *)
LEMMA HeardNext ==
    ASSUME EndInv, NEW o \in Live!Ours,
           \/ Live!Open(o) /\ o \in reports \cup unanswered /\ Live!Ends(o)
           \/ UNCHANGED <<here, owned, wire, late>>,
           reports' \subseteq reports, unanswered' \subseteq unanswered,
           UNCHANGED <<stage, breach, armed, flatten, there, lots, held, noted, final, listed, after>>
    PROVE  EndInv'
<1> USE DEF EndInv
<1>1. EndTypes' /\ LastFresh'
  <2>1. PICK orders \in {here, [here EXCEPT ![o] = "ended"]} :
          /\ orders # here => Live!Open(o)
          /\ \/ Live!MayReply(orders, wire)
             \/ here' = orders /\ wire' = wire /\ late' = late
    BY DEF Live!Ends
  <2>2. orders \in [Live!Ours -> {"none", "open", "ended"}]
        /\ (here["lastExit"] = "none" => orders["lastExit"] = "none")
    BY <2>1, OursAre DEF EndTypes, Live!Open
  <2>3. owned' \in Int /\ stage' \in Stages
    BY DEF EndTypes, Live!Ends
  <2> QED  BY <2>1, <2>2, <2>3, ReplyTypes
<1>2. AsListed'
  BY DEF AsListed, Live!Working
<1>3. CASE stage \in Early
  BY <1>1, <1>3, EarlyNext
<1>4. CASE stage \notin Early /\ late'
  BY <1>1, <1>2, <1>4
<1>5. CASE stage \notin Early /\ ~ late'
  <2> USE DEF Undisturbed
  <2>1. ~ late /\ wire' = wire
    BY <1>5, Replies DEF Live!Ends
  <2>2. \/ Live!Open(o) /\ here' = [here EXCEPT ![o] = "ended"] /\ owned' = owned + lots[o]
        \/ here' = here /\ owned' = owned
    BY <1>5, Replies DEF Live!Ends
  <2>4. WireDone' /\ Cleared'
    BY <2>1, <2>2 DEF WireDone, Cleared, Live!Working
  <2>5. \A p \in Live!Ours : Live!Open(p)' => Live!Open(p)
    BY <2>2 DEF Live!Open, EndTypes
  <2>6. OnlyOpen({}) => owned' = owned /\ here' = here
    BY <2>2 DEF OnlyOpen
  <2>7. WhileFlattening'
    BY <2>1, <2>2, <2>5 DEF WhileFlattening, OnlyOpen, Live!Open, EndTypes
  <2>8. AtCheck' /\ AtEnd'
    BY <2>1, <2>6 DEF AtCheck, AtEnd, Flat, OnlyOpen, Live!Open, Live!Halted
  <2>9. AtLastExit'
    <3> SUFFICES ASSUME stage = "again", noted = {} PROVE AtLastExit'
      BY DEF AtLastExit
    <3>1. OnlyOpen({"lastExit"}) /\ owned # held
      BY <2>1 DEF AtLastExit
    <3>2. CASE here' = here /\ owned' = owned
      BY <2>1, <3>2 DEF AtLastExit, OnlyOpen, Live!Open
    <3>3. CASE Live!Open("lastExit") /\ here' = [here EXCEPT !["lastExit"] = "ended"]
               /\ owned' = owned + lots["lastExit"] /\ wire = <<>>
      BY <2>1, <3>1, <3>3, OursAre DEF AtLastExit, OnlyOpen, Live!Open, EndTypes
    <3>4. Live!Open(o) /\ o \in reports \cup unanswered => o = "lastExit" /\ wire = <<>>
      BY <2>1, <3>1 DEF AtLastExit, OnlyOpen
    <3>5. \/ Live!Open(o) /\ o \in reports \cup unanswered
          \/ here' = here /\ owned' = owned
      OBVIOUS
    <3> QED  BY <2>2, <3>2, <3>3, <3>4, <3>5
  <2> QED  BY <1>1, <1>2, <2>4, <2>7, <2>8, <2>9
<1> QED  BY <1>3, <1>4, <1>5

LEMMA SendNext ==
    ASSUME EndInv, Live!Send PROVE EndInv'
<1> USE DEF EndInv
<1> DEFINE q == Head(wire)
<1>1. /\ wire # <<>> /\ wire \in Seq(Requests) /\ wire' = Tail(wire) /\ q \in Requests
      /\ stage # "done" /\ late' = late
      /\ ~ late => stage \in Early \cup {"flatten", "again"}
  <2>1. /\ wire # <<>> /\ wire \in Seq(Requests) /\ wire' = Tail(wire)
        /\ stage # "done" /\ late' = late
    BY DEF Live!Send, EndTypes
  <2>2. ~ late => stage \in Early \cup {"flatten", "again"}
    BY <2>1 DEF Undisturbed, EndTypes, WireDone, Early, Stages, Behind
  <2> QED  BY <2>1, <2>2
<1>2. wire' \in Seq(Requests) /\ \A i \in DOMAIN wire' : i + 1 \in DOMAIN wire /\ wire'[i] = wire[i + 1]
  BY <1>1
<1>3. 1 \in DOMAIN wire /\ q = wire[1]
  BY <1>1
<1>4. /\ UNCHANGED <<stage, breach, armed, flatten, owned, noted, final, listed>>
      /\ q.order \in Live!Ours
  BY <1>1 DEF Live!Send, Live!clocks, Live!choices, Requests
<1> DEFINE o == q.order
<1>5. \/ Live!Sends(o) \/ Live!Cancels(o)
  BY DEF Live!Send
<1> HIDE DEF q
<1>6. Live!Lots(o) \in Int
  BY <1>4, OursAre DEF EndTypes, Live!Lots, Live!Ours, Live!Rests, Live!Reply, Live!Exits
<1>7. /\ here' \in {here, [here EXCEPT ![o] = "ended"]}
      /\ there' \in [Live!Ours -> {"none", "working", "filled", "cancelled"}]
      /\ \/ lots' = lots /\ held' = held
         \/ lots' = [lots EXCEPT ![o] = Live!Lots(o)] /\ held' = held + Live!Lots(o)
      /\ reports' \subseteq reports \cup {o} /\ unanswered' \subseteq unanswered \cup {o}
      /\ \A p \in Live!Ours \ {o} : there'[p] = there[p]
  <2>1. CASE Live!Sends(o)
    <3>1. /\ here' \in {here, [here EXCEPT ![o] = "ended"]}
          /\ there' \in {there, [there EXCEPT ![o] = "filled"], [there EXCEPT ![o] = "working"]}
      BY <2>1 DEF Live!Sends
    <3>2. \/ UNCHANGED <<lots, held, reports>>
          \/ /\ lots' = [lots EXCEPT ![o] = Live!Lots(o)] /\ held' = held + Live!Lots(o)
             /\ reports' = reports \cup {o}
      BY <2>1 DEF Live!Sends, Live!Executed
    <3>3. unanswered' \subseteq unanswered \cup {o}
      BY <2>1 DEF Live!Sends
    <3> QED  BY <3>1, <3>2, <3>3, <1>4 DEF EndTypes
  <2>2. CASE Live!Cancels(o)
    BY <2>2, <1>4 DEF Live!Cancels, EndTypes
  <2> QED  BY <2>1, <2>2, <1>5
<1>8. EndTypes'
  <2>1. here' \in [Live!Ours -> {"none", "open", "ended"}]
    BY <1>7 DEF EndTypes
  <2>2. lots' \in [Live!Ours -> Int] /\ held' \in Int
    BY <1>6, <1>7 DEF EndTypes
  <2>3. stage' \in Stages /\ BreachOK' /\ owned' \in Int
    BY <1>4 DEF EndTypes, BreachOK
  <2>4. late' \in BOOLEAN
    BY <1>1, Zenon DEF EndTypes
  <2> QED  BY <1>2, <1>7, <2>1, <2>2, <2>3, <2>4 DEF EndTypes
<1>9. LastFresh' /\ AsListed'
  <2>1. LastFresh'
    <3> SUFFICES ASSUME stage \notin Behind \cup {"again"} PROVE LastFresh'
      BY <1>4 DEF LastFresh
    <3>1. o # "lastExit"
      BY <1>3 DEF LastFresh
    <3> QED  BY <1>2, <1>4, <1>7, <3>1, OursAre DEF LastFresh, EndTypes
  <2>2. Live!Working' \subseteq Live!Working \cup {o} /\ after \subseteq after'
        /\ (stage = "listed" => o \in after' \/ Live!Working' \subseteq Live!Working)
    <3>1. CASE Live!Sends(o)
      BY <1>7, <3>1 DEF Live!Sends, Live!Working
    <3>2. CASE Live!Cancels(o)
      BY <1>4, <3>2 DEF Live!Cancels, Live!Working, EndTypes
    <3> QED  BY <1>5, <3>1, <3>2
  <2>3. AsListed'
    BY <1>1, <1>4, <2>2 DEF AsListed
  <2> QED  BY <2>1, <2>3
<1>10. CASE stage \in Early
  BY <1>4, <1>8, <1>9, <1>10, EarlyNext
<1> USE DEF Undisturbed
<1>13. CASE ~ late /\ stage \in {"flatten", "again"} /\ noted # {}
  BY <1>4, <1>8, <1>9, <1>13
  DEF WireDone, Cleared, WhileFlattening, AtCheck, AtLastExit, AtEnd, Behind
<1>11. CASE ~ late /\ stage = "flatten" /\ noted = {}
  <2>1. wire = <<Live!Placing("exit")>>
    BY <1>1, <1>11 DEF WhileFlattening
  <2>2. q = Live!Placing("exit")
    BY <1>3, <2>1
  <2>3. o = "exit" /\ q.kind = "place" /\ wire' = <<>>
    BY <1>1, <2>1, <2>2 DEF Live!Placing
  <2>4. Live!Sends("exit")
    BY <2>3 DEF Live!Send, q
  <2>5. there' \in {there, [there EXCEPT !["exit"] = "filled"]}
    BY <2>4 DEF Live!Sends, Live!Exits
  <2>6. Cleared'
    BY <1>4, <1>11, <2>5, OursAre DEF Cleared, Live!Working, EndTypes
  <2>7. WhileFlattening'
    BY <1>4, <1>7, <1>11, <2>3, OursAre DEF WhileFlattening, OnlyOpen, Live!Open, EndTypes
  <2> QED
    BY <1>4, <1>8, <1>9, <1>11, <2>6, <2>7 DEF WireDone, AtCheck, AtLastExit, AtEnd, Behind
<1>12. CASE ~ late /\ stage = "again" /\ noted = {}
  <2>1. /\ wire = <<Live!Placing("lastExit")>> /\ owned # held /\ owned # 0 /\ OnlyOpen({"lastExit"})
        /\ Live!Open("lastExit") /\ lots["lastExit"] = 0
    BY <1>1, <1>12 DEF AtLastExit
  <2>2. q = Live!Placing("lastExit")
    BY <1>3, <2>1
  <2>3. o = "lastExit" /\ q.kind = "place" /\ wire' = <<>>
    BY <1>1, <2>1, <2>2 DEF Live!Placing
  <2>4. Live!Sends("lastExit")
    BY <2>3 DEF Live!Send, q
  <2>5. there' \in {there, [there EXCEPT !["lastExit"] = "filled"]}
    BY <2>4 DEF Live!Sends, Live!Exits
  <2>6. Cleared'
    BY <1>4, <1>12, <2>5, OursAre DEF Cleared, Live!Working, EndTypes
  <2>7. Live!Lots("lastExit") = -held
    BY DEF Live!Lots, Live!Exits, Live!Rests, Live!Reply
  <2>8. \/ lots' = lots /\ held' = held
        \/ lots' = [lots EXCEPT !["lastExit"] = -held] /\ held' = 0
    BY <1>7, <2>3, <2>7 DEF EndTypes
  <2>9. owned # held' /\ owned + lots'["lastExit"] # held'
    BY <2>1, <2>8, OursAre DEF EndTypes
  <2>10. here' \in {here, [here EXCEPT !["lastExit"] = "ended"]}
    BY <1>7, <2>3
  <2>11. AtLastExit'
    BY <1>4, <2>1, <2>3, <2>9, <2>10 DEF AtLastExit, OnlyOpen, Live!Open, EndTypes
  <2> QED
    BY <1>4, <1>8, <1>9, <1>12, <2>6, <2>11
    DEF WireDone, WhileFlattening, AtCheck, AtEnd, Behind
<1>14. CASE late
  BY <1>1, <1>8, <1>9, <1>14
<1> QED  BY <1>1, <1>10, <1>11, <1>12, <1>13, <1>14

LEMMA FillNext ==
    ASSUME EndInv, NEW o \in Live!Ours, Live!VenueFills(o) PROVE EndInv'
<1> USE DEF EndInv
<1>1. /\ there[o] = "working" /\ there' = [there EXCEPT ![o] = "filled"]
      /\ lots' = [lots EXCEPT ![o] = Live!Lots(o)] /\ held' = held + Live!Lots(o)
      /\ reports' = reports \cup {o}
      /\ UNCHANGED <<stage, breach, armed, flatten, here, unanswered, owned, wire, late, noted, final,
                     listed, after>>
  BY DEF Live!VenueFills, Live!Executed, Live!choices, Live!records
<1>2. Live!Lots(o) \in Int
  BY OursAre DEF EndTypes, Live!Lots, Live!Ours, Live!Rests, Live!Reply, Live!Exits
<1>3. EndTypes'
  BY <1>1, <1>2 DEF EndTypes, BreachOK
<1>4. LastFresh'
  BY <1>1, OursAre DEF LastFresh, EndTypes
<1>5. o \in Live!Working
  BY <1>1 DEF Live!Working
<1>6. AsListed'
  BY <1>1 DEF AsListed, Live!Working, EndTypes
<1>7. CASE ~ late
  <2> USE DEF Undisturbed
  <2>1. WireDone'
    BY <1>1, <1>7 DEF WireDone
  <2>2. noted # {} \/ stage \in Early \cup {"grace", "cancel"}
    BY <1>5, <1>7 DEF Cleared, EndTypes, Stages, Early, Behind
  <2> QED
    BY <1>1, <1>3, <1>4, <1>6, <1>7, <2>1, <2>2
    DEF Cleared, WhileFlattening, AtCheck, AtLastExit, AtEnd, Early, Behind
<1> QED  BY <1>1, <1>3, <1>4, <1>6, <1>7

(* _end_live, up to the settling of what it cancelled.                     *)
LEMMA PartNext == ASSUME EndInv, Live!Part PROVE EndInv'
<1>1. /\ stage = "parting" /\ stage' = "flush" /\ EndTypes /\ LastFresh
      /\ UNCHANGED <<there, lots, unanswered, owned, held, reports>>
  BY DEF EndInv, Live!Part, Live!Goes
<1>2. EndTypes' /\ LastFresh'
  <2>1. CASE breach.is = "asked"
    BY <1>1, <2>1, PerformedEarly DEF Live!Part, Early
  <2>2. CASE breach.is # "asked"
    BY <1>1, <2>2, ReplyTypes DEF Live!Part, EndTypes, Stages, Behind
  <2> QED  BY <2>1, <2>2
<1> QED  BY <1>1, <1>2, EarlyNext DEF Early

LEMMA PumpNext == ASSUME EndInv, Live!Pump PROVE EndInv'
<1>1. /\ stage \in Early /\ stage' \in Early /\ EndTypes /\ LastFresh
      /\ UNCHANGED <<there, lots, unanswered, owned, held, reports>>
  BY DEF EndInv, Live!Pump, Early
<1>2. EndTypes' /\ LastFresh'
  <2>1. CASE breach.is = "asked"
    BY <1>1, <2>1, PerformedEarly DEF Live!Pump
  <2>2. CASE breach.is # "asked"
    <3>1. breach' = Live!Checked(breach) /\ UNCHANGED <<here, wire, late>>
      BY <2>2 DEF Live!Pump
    <3>2. BreachOK'
      BY <1>1, <3>1 DEF Live!Checked, Live!Observed, Live!Asked, BreachOK, EndTypes
    <3> QED  BY <1>1, <3>1, <3>2 DEF EndTypes, LastFresh, Early, Behind, Stages
  <2> QED  BY <2>1, <2>2
<1> QED  BY <1>1, <1>2, EarlyNext

LEMMA CancelAllNext == ASSUME EndInv, Live!CancelAll PROVE EndInv'
<1> USE DEF EndInv
<1>1. /\ stage = "cancel" /\ stage' = "clear"
      /\ UNCHANGED <<breach, armed, flatten, here, lots, unanswered, owned, held, wire, late, final, listed, after>>
  BY DEF Live!CancelAll, Live!Goes, Live!choices
<1>2. \/ /\ there' = [p \in Live!Ours |-> IF there[p] = "working" THEN "cancelled" ELSE there[p]]
         /\ reports' = reports \cup {p \in Live!Ours : there[p] = "working"}
      \/ noted' # {} /\ UNCHANGED <<there, reports>>
  BY DEF Live!CancelAll
<1>3. EndTypes' /\ LastFresh'
  BY <1>1, <1>2, OursAre DEF EndTypes, LastFresh, Stages, Behind, BreachOK
<1>4. ~ late => Cleared' /\ WireDone'
  BY <1>1, <1>2 DEF Undisturbed, Cleared, WireDone, Live!Working, EndTypes, Behind
<1> QED
  BY <1>1, <1>3, <1>4 DEF Undisturbed, WhileFlattening, AtCheck, AtLastExit, AtEnd, AsListed, Behind

LEMMA CloseNext == ASSUME EndInv, Live!Close PROVE EndInv'
<1> USE DEF EndInv
<1>1. /\ stage = "clear" /\ ~ Live!Halted /\ (~ late => wire = <<>>)
      /\ UNCHANGED <<breach, armed, flatten, there, lots, unanswered, owned, held, reports, final, listed, after>>
  BY DEF Live!Close, Live!Goes, Live!choices, Undisturbed, WireDone
<1>2. noted' = {} => noted = {} /\ OnlyOpen({})
  BY DEF Live!Close, OnlyOpen
<1>3. Live!Swept \in [Live!Ours -> {"none", "open", "ended"}]
      /\ \A p \in Live!Ours : Live!Swept[p] # "open" /\ (here[p] = "none" => Live!Swept[p] = "none")
  BY DEF Live!Swept, EndTypes, Live!Open
<1>4. CASE flatten /\ owned # 0
  <2>1. /\ wire' = Append(wire, Live!Placing("exit")) /\ stage' = "flatten" /\ late' = late
        /\ here' = [Live!Swept EXCEPT !["exit"] = "open"]
    BY <1>4, Zenon DEF Live!Close, Live!Goes
  <2>2. Live!Placing("exit") \in Requests /\ Live!Placing("exit").order = "exit"
    BY OursAre DEF Live!Placing, Requests
  <2>3. wire' \in Seq(Requests)
        /\ \A i \in DOMAIN wire' : wire'[i] \in {wire[j] : j \in DOMAIN wire} \cup {Live!Placing("exit")}
    BY <2>1, <2>2 DEF EndTypes
  <2>4. EndTypes' /\ LastFresh'
    <3>1. here' \in [Live!Ours -> {"none", "open", "ended"}]
          /\ (here["lastExit"] = "none" => here'["lastExit"] = "none")
      BY <1>3, <2>1, OursAre
    <3>2. EndTypes'
      BY <1>1, <2>1, <2>3, <3>1 DEF EndTypes, Stages, BreachOK
    <3>3. LastFresh'
      BY <1>1, <2>1, <2>2, <2>3, <3>1 DEF LastFresh, Behind
    <3> QED  BY <3>2, <3>3
  <2>5. CASE late
    BY <2>1, <2>4, <2>5 DEF AsListed
  <2>6. CASE ~ late
    <3>1. wire' = <<Live!Placing("exit")>>
      BY <1>1, <2>1, <2>6
    <3>2. Cleared' /\ WhileFlattening'
      BY <1>1, <1>2, <1>3, <1>4, <2>1, <2>6, <3>1, OursAre
      DEF Undisturbed, Cleared, WhileFlattening, Live!Working, OnlyOpen, Live!Open
    <3> QED
      BY <2>1, <2>4, <2>6, <3>1, <3>2 DEF Undisturbed, WireDone, AtCheck, AtLastExit, AtEnd, AsListed, Behind
  <2> QED  BY <2>5, <2>6
<1>5. CASE ~ (flatten /\ owned # 0)
  <2>1. stage' = "check" /\ (IF \E p \in Live!Ours : Live!Open(p) THEN Live!MayReply(Live!Swept, wire)
                            ELSE UNCHANGED <<here, wire, late>>)
    BY <1>5 DEF Live!Close, Live!Goes
  <2>2. EndTypes' /\ LastFresh'
    <3>1. PICK orders \in {here, Live!Swept} :
            Live!MayReply(orders, wire) \/ (here' = orders /\ wire' = wire /\ late' = late)
      BY <2>1
    <3>2. orders \in [Live!Ours -> {"none", "open", "ended"}]
          /\ (here["lastExit"] = "none" => orders["lastExit"] = "none")
      BY <1>3, <3>1, OursAre DEF EndTypes
    <3>3. stage' \in Stages /\ owned' \in Int
      BY <1>1, <2>1 DEF EndTypes, Stages
    <3>4. stage \notin Behind \cup {"again"}
      BY <1>1 DEF Behind
    <3> QED  BY <1>1, <3>1, <3>2, <3>3, <3>4, ReplyTypes
  <2>3. CASE late'
    BY <2>1, <2>2, <2>3 DEF AsListed
  <2>4. CASE ~ late'
    <3>1. here' \in {here, Live!Swept} /\ wire' = <<>> /\ ~ late /\ (OnlyOpen({}) => here' = here)
      BY <1>1, <2>1, <2>4, Replies DEF OnlyOpen, Early
    <3>2. Cleared' /\ AtCheck' /\ WireDone'
      BY <1>1, <1>2, <1>5, <2>1, <3>1
      DEF Undisturbed, Cleared, AtCheck, WireDone, Flat, Live!Halted, Live!Working, OnlyOpen, Live!Open, Behind
    <3> QED
      BY <2>1, <2>2, <2>4, <3>1, <3>2 DEF Undisturbed, WhileFlattening, AtLastExit, AtEnd, AsListed, Behind
  <2> QED  BY <2>3, <2>4
<1> QED  BY <1>4, <1>5

LEMMA FlattenedNext == ASSUME EndInv, Live!Flattened PROVE EndInv'
<1> USE DEF EndInv
<1>1. /\ stage = "flatten" /\ stage' = "check" /\ wire = <<>>
      /\ UNCHANGED <<breach, armed, flatten, here, there, lots, unanswered, owned, held, wire, reports, late,
                     final, listed, after>>
  BY DEF Live!Flattened, Live!Goes, Live!choices, Live!book
<1>2. noted' = {} => noted = {} /\ owned = 0
  BY DEF Live!Flattened, Live!NotFlat
<1>3. EndTypes' /\ LastFresh'
  BY <1>1 DEF EndTypes, LastFresh, Stages, Behind, BreachOK
<1>4. ~ late => Cleared' /\ WireDone' /\ AtCheck'
  BY <1>1, <1>2
  DEF Undisturbed, Cleared, WireDone, AtCheck, WhileFlattening, OnlyOpen, Flat, Live!Open, Live!Halted, Live!Working, Behind
<1> QED  BY <1>1, <1>3, <1>4 DEF Undisturbed, WhileFlattening, AtLastExit, AtEnd, AsListed, Behind

LEMMA SettleNext == ASSUME EndInv, Live!SettleHalt PROVE EndInv'
<1> USE DEF EndInv
<1>1. /\ stage = "clear" /\ stage' = "check" /\ wire = <<>> /\ Live!Halted /\ here' = Live!Swept
      /\ UNCHANGED <<breach, armed, flatten, there, lots, unanswered, owned, held, wire, reports, late, final,
                     listed, after>>
  BY DEF Live!SettleHalt, Live!Goes, Live!choices
<1>2. noted' = {} => noted = {} /\ (armed => owned = 0)
  BY DEF Live!SettleHalt, Live!NotFlat
<1>3. here' \in [Live!Ours -> {"none", "open", "ended"}]
      /\ \A p \in Live!Ours : here'[p] # "open" /\ (here[p] = "none" => here'[p] = "none")
  BY <1>1 DEF Live!Swept, EndTypes, Live!Open
<1>4. EndTypes' /\ LastFresh'
  BY <1>1, <1>3, OursAre DEF EndTypes, LastFresh, Stages, Behind, BreachOK
<1>5. ~ late => Cleared' /\ WireDone' /\ AtCheck'
  BY <1>1, <1>2, <1>3
  DEF Undisturbed, Cleared, WireDone, AtCheck, OnlyOpen, Flat, Live!Open, Live!Halted, Live!Working, Behind
<1> QED  BY <1>1, <1>4, <1>5 DEF Undisturbed, WhileFlattening, AtLastExit, AtEnd, AsListed, Behind

LEMMA CheckNext == ASSUME EndInv, Live!Check PROVE EndInv'
<1> USE DEF EndInv
<1>1. /\ stage = "check" /\ late' = late
      /\ UNCHANGED <<armed, flatten, there, lots, unanswered, owned, held, reports, noted, listed, after>>
      /\ ~ late => wire = <<>>
      /\ ~ late /\ noted = {} => OnlyOpen({}) /\ Flat /\ Live!Working = {}
  BY DEF Live!Check, Live!Goes, Live!choices, Live!Performed, Undisturbed, WireDone, AtCheck, Cleared
<1>2. CASE stage' = "list" /\ UNCHANGED <<breach, here, wire>> /\ (final' = "agrees" => owned = held)
  <2>1. EndTypes' /\ LastFresh'
    BY <1>1, <1>2 DEF EndTypes, LastFresh, Stages, Behind, BreachOK
  <2>2. ~ late => Cleared' /\ WireDone' /\ AtEnd'
    BY <1>1, <1>2 DEF Cleared, WireDone, AtEnd, OnlyOpen, Flat, Live!Open, Live!Halted, Live!Working, Behind
  <2> QED  BY <1>1, <1>2, <2>1, <2>2 DEF Undisturbed, WhileFlattening, AtCheck, AtLastExit, AsListed
<1>3. CASE stage' = "again" /\ Live!Performed("lastExit") /\ owned # held
  <2>1. BreachOK' /\ "lastExit" \in Live!Exits
    BY <1>3, PerformedIs DEF EndTypes, Live!Exits
  <2>2. EndTypes'
    BY <1>1, <1>3, <2>1, PerformedWire DEF EndTypes, Stages
  <2>3. ~ late => Cleared'
    BY <1>1, <1>3 DEF Cleared, Live!Working
  <2>4. ~ late => AtLastExit'
    <3> SUFFICES ASSUME ~ late, noted = {} PROVE AtLastExit'
      BY <1>1 DEF AtLastExit
    <3>1. lots["lastExit"] = 0 /\ "lastExit" \notin reports \cup unanswered
      BY <1>1 DEF LastFresh, Behind
    <3>2. IF armed /\ owned # 0
          THEN wire' = <<Live!Placing("lastExit")>> /\ here' = [here EXCEPT !["lastExit"] = "open"]
          ELSE wire' = <<>> /\ here' = here
      BY <1>1, <1>3, <2>1, PerformedWire
    <3>3. CASE armed /\ owned # 0
      BY <1>1, <1>3, <3>1, <3>2, <3>3, OursAre DEF AtLastExit, OnlyOpen, Live!Open, EndTypes
    <3>4. CASE ~ (armed /\ owned # 0)
      BY <1>1, <1>3, <3>1, <3>2, <3>4 DEF AtLastExit, OnlyOpen, Live!Open, EndTypes
    <3> QED  BY <3>3, <3>4
  <2> QED
    BY <1>1, <1>3, <2>2, <2>3, <2>4
    DEF Undisturbed, LastFresh, WireDone, WhileFlattening, AtCheck, AtEnd, AsListed, Behind
<1> QED
  BY <1>2, <1>3 DEF Live!Check, Live!Goes, Live!Compared

(* The stages that change no more than the record.                         *)
LEMMA RecordNext ==
    ASSUME EndInv, Live!PumpHalted \/ Live!Flushed \/ Live!Graced \/ Live!CheckAgain \/ Live!List \/ Live!Finalise
    PROVE  EndInv'
<1> USE DEF EndInv, Undisturbed
<1>1. UNCHANGED <<breach, armed, flatten, here, there, lots, unanswered, owned, held, wire, reports, late, noted,
                  after>>
  BY DEF Live!PumpHalted, Live!Flushed, Live!Graced, Live!CheckAgain, Live!List, Live!Finalise, Live!Goes,
         Live!choices, Live!book, Live!records
<1>2. stage' \in Stages
  BY DEF Live!PumpHalted, Live!Flushed, Live!Graced, Live!CheckAgain, Live!List, Live!Finalise, Live!Goes, Stages
<1>3. EndTypes'
  BY <1>1, <1>2 DEF EndTypes, BreachOK
<1>4. CASE Live!PumpHalted
  BY <1>1, <1>3, <1>4, EarlyNext DEF Live!PumpHalted, Early, LastFresh, Behind
<1>5. CASE Live!Flushed \/ Live!Graced
  <2>1. /\ stage' \in {"grace", "cancel"} /\ stage \in {"flush", "grace"} /\ (stage = "flush" => wire = <<>>)
    BY <1>5 DEF Live!Flushed, Live!Graced, Live!Goes
  <2> QED
    BY <1>1, <1>3, <2>1
    DEF LastFresh, WireDone, Cleared, WhileFlattening, AtCheck, AtLastExit, AtEnd, AsListed, Behind
<1>6. CASE Live!CheckAgain
  <2>1. /\ stage = "again" /\ stage' = "list" /\ wire = <<>>
        /\ final' = "agrees" => owned = held
    BY <1>6 DEF Live!CheckAgain, Live!Goes, Live!Compared
  <2>2. ~ late => Cleared' /\ WireDone' /\ AtEnd'
    BY <1>1, <2>1 DEF Cleared, WireDone, AtEnd, AtLastExit, Live!Working, Behind
  <2> QED
    BY <1>1, <1>3, <2>1, <2>2 DEF LastFresh, WhileFlattening, AtCheck, AtLastExit, AsListed, Behind
<1>7. CASE Live!List \/ Live!Finalise
  <2>1. /\ stage' \in {"listed", "done"} /\ stage \in {"list", "listed"} /\ final' = final
        /\ \/ stage' = "listed" /\ listed' \in {Live!Working, Live!Unlisted}
           \/ stage = "listed" /\ listed' = listed
    BY <1>7 DEF Live!List, Live!Finalise, Live!Goes, Live!records
  <2>2. AsListed'
    BY <1>1, <2>1 DEF AsListed, Live!Working, Live!Unlisted
  <2>3. ~ late => Cleared' /\ WireDone' /\ AtEnd'
    BY <1>1, <2>1 DEF Cleared, WireDone, AtEnd, OnlyOpen, Flat, Live!Open, Live!Halted, Live!Working, Behind
  <2> QED
    BY <1>1, <1>3, <2>1, <2>2, <2>3 DEF LastFresh, WhileFlattening, AtCheck, AtLastExit, Behind
<1> QED  BY <1>4, <1>5, <1>6, <1>7

LEMMA FeedNext ==
    ASSUME EndInv,
           \/ Live!Tick \/ Live!Disconnect \/ Live!Reconnect \/ Live!BadFrame \/ Live!MarkPollFails \/ Live!Breach
           \/ \E c \in {"unset", "keep", "close"} : Live!WriteControl(c)
    PROVE  EndInv'
<1>1. UNCHANGED Account /\ stage' = stage
  BY Zenon DEF Live!Tick, Live!Disconnect, Live!Reconnect, Live!BadFrame, Live!MarkPollFails, Live!Breach,
         Live!WriteControl, Account, Live!choices, Live!book, Live!records
<1>2. breach' \in {breach, Live!Observed(breach, since)} \cup {Live!Asked(breach, w) : w \in {"limit", "mismatch"}}
  BY DEF Live!Tick, Live!Disconnect, Live!Reconnect, Live!BadFrame, Live!MarkPollFails, Live!Breach, Live!WriteControl
<1>3. BreachOK
  BY DEF EndInv, EndTypes
<1>4. BreachOK' /\ Live!Halted' = Live!Halted
  BY <1>2, <1>3 DEF BreachOK, Live!Observed, Live!Asked, Live!Halted
<1> QED  BY <1>1, <1>4, QuietNext

LEMMA EndNext == EndInv /\ [Live!Next]_(Live!session) => EndInv'
<1>1. ASSUME EndInv, UNCHANGED Live!session PROVE EndInv'
  <2>1. UNCHANGED <<Account, stage, breach>>
    BY <1>1, Zenon DEF Live!session, Live!choices, Live!book, Live!records, Account
  <2> QED  BY <1>1, <2>1, QuietNext DEF EndInv, EndTypes, BreachOK, Live!Halted
<1>2. ASSUME EndInv, NEW o \in Live!Ours, Live!Deliver(o) \/ Live!Resolve(o) PROVE EndInv'
  <2>1. /\ UNCHANGED <<stage, breach, armed, flatten, there, lots, held, noted, final, listed, after>>
        /\ reports' \subseteq reports /\ unanswered' \subseteq unanswered
        /\ \/ Live!Open(o) /\ o \in reports \cup unanswered /\ Live!Ends(o)
           \/ UNCHANGED <<here, owned, wire, late>>
    BY <1>2 DEF Live!Deliver, Live!Resolve, Live!choices, Live!records
  <2> QED  BY <1>2, <2>1, HeardNext
<1>3. ASSUME EndInv, Live!Lose PROVE EndInv'
  <2>1. /\ UNCHANGED <<stage, breach, armed, flatten, there, lots, held, noted, final, listed, after>>
        /\ reports' \subseteq reports /\ unanswered' \subseteq unanswered
        /\ UNCHANGED <<here, owned, wire, late>>
    BY <1>3 DEF Live!Lose, Live!choices, Live!records
  <2> QED  BY <1>3, <2>1, HeardNext, OursAre
<1> QED
  BY <1>1, <1>2, <1>3, SendNext, FillNext, PumpNext, PartNext, CancelAllNext, CloseNext, FlattenedNext,
     SettleNext, CheckNext, RecordNext, FeedNext DEF Live!Next
-----------------------------------------------------------------------------
(* The books behind the flush.  A strategy that submits there leaves the   *)
(* wire and the venue's book as they come; what it can leave unsaid is     *)
(* what its own order executed.  This is told of an ending that has put    *)
(* nothing on record, and that was not halted before that order.           *)
Straight == noted = {} /\ (late \/ ~ Live!Halted)

Wired(o) == \E i \in DOMAIN wire : wire[i] = Live!Placing(o)
Once(o) == \A i, j \in DOMAIN wire : wire[i] = Live!Placing(o) /\ wire[j] = Live!Placing(o) => i = j

(* What an open order has executed is not in the ledger yet.               *)
Unbooked(o) == IF Live!Open(o) THEN lots[o] ELSE 0
Conserved == held = owned + Unbooked("rests") + Unbooked("reply") + Unbooked("exit") + Unbooked("lastExit")

OrderOK(o) ==
    /\ here[o] = "none" => there[o] = "none" /\ ~ Wired(o) /\ o \notin unanswered
    /\ Wired(o) => Live!Open(o) /\ there[o] = "none" /\ o \notin unanswered
    /\ Once(o)
    /\ o \in reports => there[o] \in {"filled", "cancelled"}
    /\ there[o] # "filled" => lots[o] = 0
    /\ there[o] = "working" => Live!Open(o)

(* No exit before the flattening, and then none beside an open reply; from *)
(* the check on only the reply can be open, over a ledger that is flat; it *)
(* ends at what it has executed.                                           *)
ExitFresh == stage \notin {"flatten", "check", "again"} \cup Behind => here["exit"] = "none"
Flattening == stage = "flatten" =>
    OnlyOpen({"exit", "reply"}) /\ (Live!Open("exit") => owned # 0 /\ ~ Live!Open("reply"))
Left == owned = 0 \/ (here["reply"] = "ended" /\ owned = lots["reply"])
Checking == stage \in {"check", "again"} \cup Behind =>
    /\ OnlyOpen({"reply"}) /\ (Live!Open("reply") => owned = 0)
    /\ flatten \/ Live!Halted => Left

(* A strategy that is late was not halted before the last look.            *)
LateStage == late =>
    /\ stage \notin Early /\ here["reply"] # "none"
    /\ Live!Halted => stage \in {"again"} \cup Behind

Sound == (\A o \in Live!Ours : OrderOK(o)) /\ Conserved /\ ExitFresh /\ Flattening /\ Checking
Accounted == LateStage /\ (Straight => Sound)

LEMMA AccountedInit == LiveInit => Accounted
<1> SUFFICES ASSUME NEW s \in {"pump", "parting"}, Live!InitAt(s) PROVE Accounted
  BY DEF LiveInit
<1>1. /\ stage = s /\ wire = <<>> /\ reports = {} /\ unanswered = {} /\ noted = {}
      /\ here = [o \in Live!Ours |-> IF o = Live!Rests THEN "open" ELSE "none"]
      /\ there = [o \in Live!Ours |-> IF o = Live!Rests THEN "working" ELSE "none"]
      /\ lots = [o \in Live!Ours |-> 0] /\ held \in {0, 1} /\ owned = held
  BY Zenon DEF Live!InitAt
<1>2. LateStage
  BY Zenon DEF Live!InitAt, LateStage
<1>3. \A o \in Live!Ours : OrderOK(o)
  BY <1>1 DEF OrderOK, Wired, Once, Live!Open, Live!Rests
<1>4. Conserved
  BY <1>1, OursAre DEF Conserved, Unbooked
<1>5. ExitFresh /\ Flattening /\ Checking
  BY <1>1, OursAre DEF ExitFresh, Flattening, Checking, Live!Rests, Behind
<1> QED  BY <1>2, <1>3, <1>4, <1>5 DEF Accounted, Sound

(* One order's execution and what is booked of it.                         *)
LEMMA OneBooked ==
    ASSUME Conserved, EndTypes, EndTypes', NEW o \in Live!Ours,
           \A p \in Live!Ours \ {o} : Unbooked(p)' = Unbooked(p),
           held' - owned' - Unbooked(o)' = held - owned - Unbooked(o)
    PROVE  Conserved'
<1>1. \A p \in Live!Ours : Unbooked(p) \in Int /\ Unbooked(p)' \in Int
  BY DEF Unbooked, EndTypes
<1>2. held \in Int /\ owned \in Int /\ held' \in Int /\ owned' \in Int
  BY DEF EndTypes
<1> QED  BY <1>1, <1>2, OursAre DEF Conserved

(* A request is sent, or one is added.                                     *)
LEMMA TailWired ==
    ASSUME wire \in Seq(Requests), wire # <<>>, wire' = Tail(wire), NEW p
    PROVE  /\ Wired(p)' => Wired(p)
           /\ Once(p) => Once(p)'
           /\ Once(p) /\ Head(wire) = Live!Placing(p) => ~ Wired(p)'
<1>1. /\ 1 \in DOMAIN wire /\ Head(wire) = wire[1]
      /\ \A i \in DOMAIN wire' : i \in Nat \ {0} /\ i + 1 \in DOMAIN wire /\ wire'[i] = wire[i + 1]
  OBVIOUS
<1>2. Wired(p)' => Wired(p)
  BY <1>1 DEF Wired, Live!Placing
<1>3. Once(p) => Once(p)'
  BY <1>1 DEF Once, Live!Placing
<1>4. Once(p) /\ Head(wire) = Live!Placing(p) => ~ Wired(p)'
  BY <1>1 DEF Once, Wired, Live!Placing
<1> QED  BY <1>2, <1>3, <1>4

LEMMA PlacingAdded ==
    ASSUME wire \in Seq(Requests), NEW x \in Live!Ours, wire' = Append(wire, Live!Placing(x)), NEW p
    PROVE  /\ Wired(p)' => Wired(p) \/ p = x
           /\ Once(p) /\ (p = x => ~ Wired(p)) => Once(p)'
<1> DEFINE q == Live!Placing(x)
<1>0. q \in Requests
  BY OursAre DEF Live!Placing, Requests
<1> HIDE DEF q
<1>1. /\ DOMAIN wire' = 1 .. Len(wire) + 1 /\ DOMAIN wire = 1 .. Len(wire) /\ Len(wire) \in Nat
      /\ \A i \in DOMAIN wire : wire'[i] = wire[i]
      /\ wire'[Len(wire) + 1] = q
  BY <1>0 DEF q
<1>2. Live!Placing(p) = Live!Placing(x) => p = x
  BY DEF Live!Placing
<1>3. Wired(p)' => Wired(p) \/ p = x
  BY <1>1, <1>2 DEF Wired, q
<1>4. Once(p) /\ (p = x => ~ Wired(p)) => Once(p)'
  BY <1>1, <1>2 DEF Once, Wired, q
<1> QED  BY <1>3, <1>4

(* What the strategy submits at once, on something that ended.             *)
LEMMA ReplyOrders ==
    ASSUME EndTypes, \A p \in Live!Ours : OrderOK(p),
           NEW orders \in [Live!Ours -> {"none", "open", "ended"}],
           \A p \in Live!Ours : \/ orders[p] = here[p]
                                \/ Live!Open(p) /\ orders[p] = "ended" /\ there[p] # "working" /\ ~ Wired(p),
           Live!MayReply(orders, wire) \/ (here' = orders /\ wire' = wire),
           UNCHANGED <<there, lots>>, reports' \subseteq reports, unanswered' \subseteq unanswered
    PROVE  /\ \A p \in Live!Ours : OrderOK(p)'
           /\ \A p \in Live!Ours : \/ here'[p] = orders[p]
                                   \/ /\ p = "reply" /\ here[p] = "none" /\ orders[p] = "none"
                                      /\ here'[p] = "open" /\ lots[p] = 0
<1>1. \/ here' = orders /\ wire' = wire
      \/ /\ orders["reply"] = "none" /\ here' = [orders EXCEPT !["reply"] = "open"]
         /\ wire' = Append(wire, Live!Placing("reply"))
  BY Zenon DEF Live!MayReply, Live!Reply
<1>2. CASE here' = orders /\ wire' = wire
  BY <1>2 DEF OrderOK, Wired, Once, Live!Open, Live!Placing
<1>3. CASE /\ orders["reply"] = "none" /\ here' = [orders EXCEPT !["reply"] = "open"]
           /\ wire' = Append(wire, Live!Placing("reply"))
  <2>1. here["reply"] = "none" /\ there["reply"] = "none" /\ ~ Wired("reply") /\ "reply" \notin unanswered
        /\ lots["reply"] = 0
    BY <1>3, OursAre DEF OrderOK, Live!Open
  <2>2. \A p \in Live!Ours : (Wired(p)' => Wired(p) \/ p = "reply") /\ Once(p)'
    <3>1. wire \in Seq(Requests) /\ "reply" \in Live!Ours
      BY OursAre DEF EndTypes
    <3>2. \A p : /\ Wired(p)' => Wired(p) \/ p = "reply"
                 /\ Once(p) /\ (p = "reply" => ~ Wired(p)) => Once(p)'
      BY <1>3, <3>1, PlacingAdded
    <3>3. \A p \in Live!Ours : Once(p)
      BY DEF OrderOK
    <3> QED  BY <2>1, <3>2, <3>3
  <2>3. \A p \in Live!Ours \ {"reply"} : here'[p] = orders[p]
    BY <1>3
  <2>4. here'["reply"] = "open"
    BY <1>3, OursAre
  <2>5. OrderOK("reply")'
    BY <2>1, <2>2, <2>4, OursAre DEF OrderOK, Live!Open
  <2>6. \A p \in Live!Ours \ {"reply"} : OrderOK(p)'
    BY <2>2, <2>3 DEF OrderOK, Live!Open
  <2> QED  BY <1>3, <2>1, <2>3, <2>4, <2>5, <2>6
<1> QED  BY <1>1, <1>2, <1>3

(* Only a strategy that is not halted becomes late.                        *)
LEMMA LateReply ==
    ASSUME NEW orders, NEW queued, Live!MayReply(orders, queued), EndTypes,
           orders \in [Live!Ours -> {"none", "open", "ended"}]
    PROVE  /\ late' => late \/ (~ Live!Halted /\ stage \notin Early /\ here'["reply"] = "open")
           /\ orders["reply"] # "none" => here'["reply"] # "none"
<1>1. CASE here' = orders /\ wire' = queued /\ late' = late
  BY <1>1, Zenon
<1>2. CASE /\ ~ Live!Halted /\ orders["reply"] = "none" /\ here' = [orders EXCEPT !["reply"] = "open"]
           /\ late' = (stage \notin {"pump", "parting", "flush"})
  <2>1. here'["reply"] = "open"
    BY <1>2, OursAre
  <2>2. late' => stage \notin Early
    BY <1>2, Zenon DEF Early
  <2> QED  BY <1>2, <2>1, <2>2
<1>3. \/ here' = orders /\ wire' = queued /\ late' = late
      \/ /\ ~ Live!Halted /\ orders["reply"] = "none" /\ here' = [orders EXCEPT !["reply"] = "open"]
         /\ late' = (stage \notin {"pump", "parting", "flush"})
  BY Zenon DEF Live!MayReply, Live!Reply
<1> QED  BY <1>1, <1>2, <1>3

LEMMA HeardBooks ==
    ASSUME EndTypes, EndTypes', Accounted, NEW o \in Live!Ours,
           \/ /\ Live!Open(o) /\ Live!Ends(o)
              /\ o \in reports \/ (o \in unanswered /\ there[o] # "working")
           \/ UNCHANGED <<here, owned, wire, late>>,
           reports' \subseteq reports, unanswered' \subseteq unanswered,
           UNCHANGED <<stage, breach, armed, flatten, there, lots, held, noted>>
    PROVE  Accounted'
<1> DEFINE orders == [here EXCEPT ![o] = "ended"]
<1>1. /\ orders \in [Live!Ours -> {"none", "open", "ended"}] /\ orders[o] = "ended"
      /\ \A p \in Live!Ours \ {o} : orders[p] = here[p]
  BY DEF EndTypes
<1>2. CASE UNCHANGED <<here, owned, wire, late>>
  <2>1. LateStage' /\ (Straight' => Straight)
    BY <1>2, Zenon DEF Accounted, LateStage, Straight, Live!Halted
  <2>2. Sound => Sound'
    BY <1>2 DEF Sound, OrderOK, Conserved, ExitFresh, Flattening, Checking, Left, Wired, Once, Unbooked, OnlyOpen,
                Live!Open, Live!Halted, Live!Placing
  <2> QED  BY <2>1, <2>2 DEF Accounted
<1>3. CASE /\ Live!Open(o) /\ Live!Ends(o)
           /\ o \in reports \/ (o \in unanswered /\ there[o] # "working")
  <2>1. owned' = owned + lots[o] /\ Live!MayReply(orders, wire)
    BY <1>3 DEF Live!Ends
  <2> HIDE DEF orders
  <2>2. /\ late' => late \/ (~ Live!Halted /\ stage \notin Early /\ here'["reply"] = "open")
        /\ orders["reply"] # "none" => here'["reply"] # "none"
    BY <1>1, <2>1, LateReply
  <2>3. LateStage'
    <3>1. here["reply"] # "none" => here'["reply"] # "none"
      BY <1>1, <2>2, OursAre
    <3> QED  BY <2>2, <3>1 DEF Accounted, LateStage, Live!Halted
  <2> SUFFICES ASSUME Straight' PROVE Sound'
    BY <2>3 DEF Accounted
  <2>4. (\A p \in Live!Ours : OrderOK(p)) /\ Conserved /\ ExitFresh /\ Flattening /\ Checking
    BY <2>2 DEF Accounted, Straight, Live!Halted, Sound
  <2>5. there[o] # "working" /\ ~ Wired(o)
    BY <1>3, <2>4 DEF OrderOK
  <2>6. /\ \A p \in Live!Ours : OrderOK(p)'
        /\ \A p \in Live!Ours : \/ here'[p] = orders[p]
                                \/ /\ p = "reply" /\ here[p] = "none" /\ orders[p] = "none"
                                   /\ here'[p] = "open" /\ lots[p] = 0
    <3>1. \A p \in Live!Ours : \/ orders[p] = here[p]
                               \/ Live!Open(p) /\ orders[p] = "ended" /\ there[p] # "working" /\ ~ Wired(p)
      BY <1>1, <1>3, <2>5
    <3> QED  BY <1>1, <2>1, <2>4, <3>1, ReplyOrders
  <2>7. here'[o] = "ended"
    BY <1>1, <2>6
  <2>8. Conserved'
    <3>1. \A p \in Live!Ours \ {o} : Unbooked(p)' = Unbooked(p)
      BY <1>1, <2>6 DEF Unbooked, Live!Open
    <3>2. held' - owned' - Unbooked(o)' = held - owned - Unbooked(o)
      BY <1>3, <2>1, <2>7 DEF Unbooked, Live!Open, EndTypes
    <3> QED  BY <2>4, <3>1, <3>2, OneBooked
  <2>9. \A p \in Live!Ours : here'[p] = here[p] \/ (p = o /\ here'[p] = "ended")
                             \/ (p = "reply" /\ here[p] = "none" /\ here'[p] = "open")
    BY <1>1, <2>6
  <2>10. ExitFresh'
    BY <1>3, <2>4, <2>9, OursAre DEF ExitFresh, Live!Open
  <2>11. Flattening'
    <3> SUFFICES ASSUME stage = "flatten" PROVE Flattening'
      BY DEF Flattening
    <3>1. o \in {"exit", "reply"} /\ (Live!Open("exit") => ~ Live!Open("reply"))
      BY <1>3, <2>4 DEF Flattening, OnlyOpen
    <3>2. \A p \in Live!Ours : Live!Open(p)' => p \in {"exit", "reply"}
      BY <2>4, <2>9 DEF Flattening, OnlyOpen, Live!Open
    <3>3. ~ Live!Open("exit")'
      BY <1>3, <2>7, <2>9, <3>1, OursAre DEF Live!Open
    <3> QED  BY <3>2, <3>3 DEF Flattening, OnlyOpen
  <2>12. Checking'
    <3> SUFFICES ASSUME stage \in {"check", "again"} \cup Behind PROVE Checking'
      BY DEF Checking
    <3>1. o = "reply" /\ owned = 0 /\ here'["reply"] = "ended"
      BY <1>3, <2>4, <2>7 DEF Checking, OnlyOpen
    <3>2. owned' = lots["reply"]
      BY <2>1, <3>1 DEF EndTypes
    <3> QED  BY <2>4, <2>9, <3>1, <3>2 DEF Checking, OnlyOpen, Left, Live!Open
  <2> QED  BY <2>6, <2>8, <2>10, <2>11, <2>12 DEF Sound
<1> QED  BY <1>2, <1>3

(* A request at the venue, and a fill.                                     *)
LEMMA SendBooks ==
    ASSUME EndTypes, EndTypes', Accounted, Live!Send PROVE Accounted'
<1>1. /\ wire # <<>> /\ wire \in Seq(Requests) /\ wire' = Tail(wire) /\ Head(wire) \in Requests
      /\ UNCHANGED <<stage, breach, flatten, owned, late, noted>>
  BY DEF Live!Send, EndTypes, Live!choices
<1> PICK o \in Live!Ours : o = Head(wire).order
  BY <1>1 DEF Requests
<1>2. Head(wire).kind = "place" => Head(wire) = Live!Placing(o)
  BY <1>1 DEF Requests, Live!Placing
<1>3. IF Head(wire).kind = "place" THEN Live!Sends(o) ELSE Live!Cancels(o)
  BY DEF Live!Send
<1>4. \A p : (Wired(p)' => Wired(p)) /\ (Once(p) => Once(p)')
             /\ (Once(p) /\ Head(wire) = Live!Placing(p) => ~ Wired(p)')
  BY <1>1, TailWired
<1>5. Head(wire).kind = "place" => Wired(o)
  <2>1. 1 \in DOMAIN wire /\ wire[1] = Head(wire)
    BY <1>1
  <2> QED  BY <1>2, <2>1 DEF Wired
<1>6. here' \in {here, [here EXCEPT ![o] = "ended"]}
  BY <1>3 DEF Live!Sends, Live!Cancels
<1>7. LateStage' /\ (Straight' => Straight)
  <2>1. here["reply"] # "none" => here'["reply"] # "none"
    BY <1>2, <1>6, OursAre DEF EndTypes
  <2>2. late' = late /\ stage' = stage /\ Live!Halted' = Live!Halted /\ noted' = noted
    BY <1>1 DEF Live!Halted
  <2> QED  BY <2>1, <2>2, Zenon DEF Accounted, LateStage, Straight
<1> SUFFICES ASSUME Straight PROVE Sound'
  BY <1>7 DEF Accounted
<1>8. (\A p \in Live!Ours : OrderOK(p)) /\ Conserved /\ ExitFresh /\ Flattening /\ Checking
  BY DEF Accounted, Sound
<1>9. \A p \in Live!Ours \ {o} : here'[p] = here[p] /\ there'[p] = there[p] /\ lots'[p] = lots[p]
                                 /\ (p \in reports' => p \in reports) /\ (p \in unanswered' => p \in unanswered)
  BY <1>3 DEF Live!Sends, Live!Executed, Live!Cancels, EndTypes
<1>10. \A p \in Live!Ours \ {o} : OrderOK(p)' /\ Unbooked(p)' = Unbooked(p)
  BY <1>4, <1>8, <1>9 DEF OrderOK, Unbooked, Live!Open
<1>11. /\ OrderOK(o)' /\ (~ Live!Open(o) => here'[o] = here[o])
       /\ held' - owned' - Unbooked(o)' = held - owned - Unbooked(o)
  <2>1. CASE Head(wire).kind = "place"
    <3>1. Live!Open(o) /\ there[o] = "none" /\ o \notin unanswered /\ lots[o] = 0 /\ ~ Wired(o)'
          /\ o \notin reports /\ Once(o)'
      BY <1>2, <1>4, <1>5, <1>8, <2>1 DEF OrderOK
    <3>2. /\ \/ here' = [here EXCEPT ![o] = "ended"] /\ UNCHANGED <<there, lots, unanswered, held, reports>>
             \/ UNCHANGED <<here, there, lots, held, reports>>
             \/ here' = here /\ there' = [there EXCEPT ![o] = "working"] /\ UNCHANGED <<lots, held, reports>>
             \/ /\ here' = here /\ there' = [there EXCEPT ![o] = "filled"]
                /\ lots' = [lots EXCEPT ![o] = Live!Lots(o)] /\ held' = held + Live!Lots(o)
      BY <1>3, <2>1 DEF Live!Sends, Live!Executed
    <3>3. Live!Lots(o) \in Int
      BY <1>2, OursAre DEF EndTypes, Live!Lots, Live!Ours, Live!Rests, Live!Reply, Live!Exits
    <3>4. CASE UNCHANGED <<lots, held, reports>> /\ there'[o] \in {"none", "working"}
               /\ (here'[o] = "open" \/ (here'[o] = "ended" /\ there'[o] = "none"))
      BY <1>1, <3>1, <3>4 DEF OrderOK, Unbooked, Live!Open, EndTypes
    <3>5. CASE /\ here' = here /\ there'[o] = "filled" /\ lots'[o] = Live!Lots(o)
               /\ held' = held + Live!Lots(o)
      <4>1. OrderOK(o)'
        BY <3>1, <3>5 DEF OrderOK, Live!Open
      <4>2. Unbooked(o) = 0 /\ Unbooked(o)' = Live!Lots(o)
        BY <3>1, <3>5 DEF Unbooked, Live!Open
      <4> QED  BY <1>1, <3>1, <3>3, <3>5, <4>1, <4>2 DEF EndTypes
    <3> QED  BY <3>1, <3>2, <3>4, <3>5 DEF EndTypes, Live!Open
  <2>2. CASE Head(wire).kind # "place"
    <3>1. /\ UNCHANGED <<here, lots, unanswered, held>>
          /\ \/ there[o] = "working" /\ there' = [there EXCEPT ![o] = "cancelled"]
             \/ UNCHANGED <<there, reports>>
      BY <1>3, <2>2 DEF Live!Cancels
    <3>2. there'[o] = "working" => there[o] = "working"
      BY <1>2, <3>1 DEF EndTypes
    <3>3. \/ there' = there /\ reports' = reports
          \/ there[o] = "working" /\ there'[o] = "cancelled"
      BY <1>2, <3>1 DEF EndTypes
    <3> QED  BY <1>1, <1>2, <1>4, <1>8, <3>1, <3>3 DEF OrderOK, Unbooked, Live!Open, EndTypes
  <2> QED  BY <2>1, <2>2
<1>12. Conserved'
  <2>1. \A p \in Live!Ours \ {o} : Unbooked(p)' = Unbooked(p)
    BY <1>10
  <2> QED  BY <1>8, <1>11, <2>1, OneBooked
<1>13. \A p \in Live!Ours : here'[p] = here[p] \/ (Live!Open(p) /\ here'[p] = "ended")
  BY <1>2, <1>6, <1>11 DEF EndTypes
<1>14. ExitFresh' /\ Flattening'
  BY <1>1, <1>8, <1>13, OursAre DEF ExitFresh, Flattening, OnlyOpen, Live!Open
<1>15. Checking'
  <2> SUFFICES ASSUME stage \in {"check", "again"} \cup Behind PROVE Checking'
    BY <1>1 DEF Checking
  <2>1. OnlyOpen({"reply"})' /\ (Live!Open("reply")' => owned' = 0)
    BY <1>1, <1>8, <1>13, OursAre DEF Checking, OnlyOpen, Live!Open
  <2>2. (flatten \/ Live!Halted)' => Left
    BY <1>1, <1>8 DEF Checking, Live!Halted
  <2>3. Left => Left'
    <3>1. CASE owned = 0
      BY <1>1, <3>1 DEF Left
    <3>2. CASE here["reply"] = "ended" /\ owned = lots["reply"] /\ owned # 0
      <4>1. here'["reply"] = "ended"
        BY <1>13, <3>2, OursAre DEF Live!Open
      <4>2. "reply" # o \/ lots' = lots
        <5>1. Head(wire).kind = "place" => Live!Open(o)
          BY <1>2, <1>5, <1>8 DEF OrderOK
        <5>2. Head(wire).kind # "place" => lots' = lots
          BY <1>3 DEF Live!Cancels
        <5> QED  BY <3>2, <5>1, <5>2 DEF Live!Open
      <4>3. lots'["reply"] = lots["reply"]
        BY <1>9, <4>2, OursAre
      <4> QED  BY <1>1, <3>2, <4>1, <4>3 DEF Left
    <3> QED  BY <3>1, <3>2 DEF Left
  <2> QED  BY <2>1, <2>2, <2>3 DEF Checking
<1> QED  BY <1>10, <1>11, <1>12, <1>14, <1>15 DEF Sound

LEMMA FillBooks ==
    ASSUME EndTypes, EndTypes', Accounted, NEW o \in Live!Ours, Live!VenueFills(o) PROVE Accounted'
<1>1. /\ there[o] = "working" /\ there' = [there EXCEPT ![o] = "filled"]
      /\ lots' = [lots EXCEPT ![o] = Live!Lots(o)] /\ held' = held + Live!Lots(o)
      /\ reports' = reports \cup {o}
      /\ UNCHANGED <<stage, breach, flatten, here, unanswered, owned, wire, late, noted>>
  BY DEF Live!VenueFills, Live!Executed, Live!choices, Live!records
<1>2. Live!Lots(o) \in Int
  BY OursAre DEF EndTypes, Live!Lots, Live!Ours, Live!Rests, Live!Reply, Live!Exits
<1>3. LateStage' /\ (Straight' => Straight)
  BY <1>1, Zenon DEF Accounted, LateStage, Straight, Live!Halted
<1> SUFFICES ASSUME Straight PROVE Sound'
  BY <1>3 DEF Accounted
<1>4. (\A p \in Live!Ours : OrderOK(p)) /\ Conserved /\ ExitFresh /\ Flattening /\ Checking
  BY DEF Accounted, Sound
<1>5. \A p : Wired(p)' = Wired(p) /\ Once(p)' = Once(p) /\ Live!Open(p)' = Live!Open(p)
  BY <1>1 DEF Wired, Once, Live!Open
<1>6. \A p \in Live!Ours : OrderOK(p)'
  BY <1>1, <1>4, <1>5 DEF OrderOK, EndTypes
<1>7. Live!Open(o) /\ lots[o] = 0
  BY <1>1, <1>4 DEF OrderOK
<1>8. Conserved'
  <2>1. \A p \in Live!Ours \ {o} : Unbooked(p)' = Unbooked(p)
    BY <1>1, <1>5 DEF Unbooked, EndTypes
  <2>2. held' - owned' - Unbooked(o)' = held - owned - Unbooked(o)
    BY <1>1, <1>2, <1>5, <1>7 DEF Unbooked, EndTypes
  <2> QED  BY <1>4, <2>1, <2>2, OneBooked
<1>9. ExitFresh' /\ Flattening'
  BY <1>1, <1>4, <1>5 DEF ExitFresh, Flattening, OnlyOpen
<1>10. Checking'
  BY <1>1, <1>4, <1>5, <1>7 DEF Checking, OnlyOpen, Left, Live!Halted
<1> QED  BY <1>6, <1>8, <1>9, <1>10 DEF Sound

(* What leaves the orders and the account alone.                           *)
LEMMA SameBooks ==
    ASSUME Accounted, UNCHANGED <<flatten, here, there, lots, unanswered, owned, held, wire, late>>,
           reports' \subseteq reports, noted' = {} => noted = {}, Live!Halted' = Live!Halted,
           stage' \in Early => stage \in Early,
           stage \in {"flatten", "check"} => stage' \in {"flatten", "check", "again"} \cup Behind,
           stage \in {"again"} \cup Behind => stage' \in {"again"} \cup Behind,
           stage' \in {"flatten", "check", "again"} \cup Behind =>
              \/ stage' = stage
              \/ stage \in {"check", "again"} \cup Behind /\ stage' \in {"check", "again"} \cup Behind
    PROVE  Accounted'
<1>1. LateStage' /\ (Straight' => Straight)
  BY Zenon DEF Accounted, LateStage, Straight
<1>2. Sound => Sound'
  <2> SUFFICES ASSUME Sound PROVE Sound'
    OBVIOUS
  <2>1. \A p : /\ Wired(p)' = Wired(p) /\ Once(p)' = Once(p) /\ Live!Open(p)' = Live!Open(p)
               /\ Unbooked(p)' = Unbooked(p)
    BY DEF Wired, Once, Live!Open, Unbooked
  <2>2. \A p \in Live!Ours : OrderOK(p)'
    BY <2>1 DEF Sound, OrderOK
  <2>3. Conserved'
    BY <2>1 DEF Sound, Conserved
  <2>4. ExitFresh'
    BY DEF Sound, ExitFresh, Behind
  <2>5. \A S : OnlyOpen(S)' = OnlyOpen(S)
    BY <2>1 DEF OnlyOpen
  <2>6. Flattening'
    BY <2>1, <2>5 DEF Sound, Flattening, Behind
  <2>7. Left' = Left
    BY DEF Left
  <2>8. stage' \in {"check", "again"} \cup Behind => stage \in {"check", "again"} \cup Behind
    BY DEF Behind
  <2>9. Checking'
    BY <2>1, <2>5, <2>7, <2>8 DEF Sound, Checking
  <2> QED  BY <2>2, <2>3, <2>4, <2>6, <2>9 DEF Sound
<1> QED  BY <1>1, <1>2 DEF Accounted

(* Before the flush, a halt leaves nothing to be told here.                *)
LEMMA EarlyBooks ==
    ASSUME EndTypes, Accounted, Live!Pump \/ Live!Part PROVE Accounted'
<1>1. /\ stage \in Early /\ stage' \in Early /\ ~ late
      /\ UNCHANGED <<there, lots, unanswered, owned, held, reports, noted>>
  BY Zenon DEF Accounted, LateStage, Live!Pump, Live!Part, Live!Goes, Live!records, Early
<1>2. CASE breach.is = "asked"
  <2>1. late' = late /\ Live!Halted'
    <3>1. \E x \in Live!Exits : Live!Performed(x)
      BY <1>2, Zenon DEF Live!Pump, Live!Part, Live!Exits
    <3> QED  BY <3>1, PerformedIs DEF EndTypes, Live!Halted, Live!Performed
  <2>2. ~ late' /\ ~ Straight'
    BY <1>1, <2>1, Zenon DEF Straight
  <2> QED  BY <2>2 DEF Accounted, LateStage
<1>3. CASE breach.is # "asked" /\ Live!Pump
  <2>1. breach' = Live!Checked(breach) /\ UNCHANGED <<here, wire, late>>
    BY <1>3 DEF Live!Pump
  <2>2. ~ late' /\ (Straight' => Straight)
    BY <1>1, <2>1, Zenon DEF Straight, Live!Halted, Live!Checked, Live!Observed, Live!Asked
  <2>3. Sound => Sound'
    BY <1>1, <2>1 DEF Sound, OrderOK, Conserved, ExitFresh, Flattening, Checking, Wired, Once, Unbooked,
                      Live!Open, Live!Placing, Early, Behind
  <2> QED  BY <2>2, <2>3 DEF Accounted, LateStage
<1>4. CASE breach.is # "asked" /\ Live!Part
  <2>1. Live!MayReply(here, wire) /\ breach' = breach
    BY <1>4 DEF Live!Part
  <2>2. ~ late'
    <3>1. late' => late \/ stage \notin Early
      BY <2>1, LateReply DEF EndTypes
    <3> QED  BY <1>1, <3>1
  <2> SUFFICES ASSUME Straight' PROVE Sound'
    BY <2>2 DEF Accounted, LateStage
  <2>3. (\A p \in Live!Ours : OrderOK(p)) /\ Conserved /\ ExitFresh
    BY <1>1, <2>1, <2>2 DEF Accounted, Straight, Sound, Live!Halted
  <2>4. /\ \A p \in Live!Ours : OrderOK(p)'
        /\ \A p \in Live!Ours : \/ here'[p] = here[p]
                                \/ p = "reply" /\ here[p] = "none" /\ here'[p] = "open" /\ lots[p] = 0
    <3>1. here \in [Live!Ours -> {"none", "open", "ended"}]
      BY DEF EndTypes
    <3> QED  BY <1>1, <2>1, <2>3, <3>1, ReplyOrders
  <2>5. \A p \in Live!Ours : Unbooked(p)' = Unbooked(p)
    BY <1>1, <2>4 DEF Unbooked, Live!Open
  <2>6. Conserved'
    BY <1>1, <2>3, <2>5, OursAre DEF Conserved
  <2>7. ExitFresh' /\ Flattening' /\ Checking'
    BY <1>1, <2>3, <2>4, OursAre DEF ExitFresh, Flattening, Checking, Early, Behind
  <2> QED  BY <2>4, <2>6, <2>7 DEF Sound
<1> QED  BY <1>2, <1>3, <1>4

LEMMA CancelAllBooks ==
    ASSUME EndTypes, EndTypes', Accounted, Live!CancelAll PROVE Accounted'
<1>1. /\ stage = "cancel" /\ stage' = "clear"
      /\ UNCHANGED <<breach, flatten, here, lots, unanswered, owned, held, wire, late>>
  BY DEF Live!CancelAll, Live!Goes, Live!choices
<1>2. \/ /\ there' = [p \in Live!Ours |-> IF there[p] = "working" THEN "cancelled" ELSE there[p]]
         /\ reports' = reports \cup {p \in Live!Ours : there[p] = "working"} /\ noted' = noted
      \/ noted' # {}
  BY DEF Live!CancelAll
<1>3. LateStage'
  BY <1>1, Zenon DEF Accounted, LateStage, Early, Behind, Live!Halted
<1> SUFFICES ASSUME Straight' PROVE Sound'
  BY <1>3 DEF Accounted
<1>4. Straight
  BY <1>1, <1>2 DEF Straight, Live!Halted
<1>5. (\A p \in Live!Ours : OrderOK(p)) /\ Conserved /\ ExitFresh
  BY <1>4 DEF Accounted, Sound
<1>6. \A p \in Live!Ours : OrderOK(p)'
  BY <1>1, <1>2, <1>5 DEF Straight, OrderOK, Wired, Once, Live!Open, Live!Placing
<1>7. Conserved' /\ ExitFresh'
  BY <1>1, <1>5 DEF Conserved, Unbooked, ExitFresh, Live!Open, Behind
<1>8. Flattening' /\ Checking'
  BY <1>1 DEF Flattening, Checking, Behind
<1> QED  BY <1>6, <1>7, <1>8 DEF Sound

(* The book is closed: what was open would be on record.                   *)
LEMMA CloseBooks ==
    ASSUME EndTypes, EndTypes', Accounted, Live!Close PROVE Accounted'
<1>1. /\ stage = "clear" /\ ~ Live!Halted
      /\ UNCHANGED <<breach, flatten, there, lots, unanswered, owned, held, reports>>
  BY DEF Live!Close, Live!Goes, Live!choices
<1>2. noted' = {} => noted = {} /\ OnlyOpen({})
  BY DEF Live!Close, OnlyOpen
<1>3. /\ Live!Swept \in [Live!Ours -> {"none", "open", "ended"}]
      /\ \A p \in Live!Ours : here[p] # "none" => Live!Swept[p] # "none"
      /\ OnlyOpen({}) => \A p \in Live!Ours : Live!Swept[p] = here[p]
  BY DEF Live!Swept, EndTypes, Live!Open, OnlyOpen
<1>4. Straight' => Straight /\ OnlyOpen({}) /\ (\A p \in Live!Ours : OrderOK(p)) /\ Conserved /\ ExitFresh
  BY <1>1, <1>2 DEF Straight, Accounted, Sound
<1>5. CASE flatten /\ owned # 0
  <2>1. /\ wire' = Append(wire, Live!Placing("exit")) /\ stage' = "flatten" /\ late' = late
        /\ here' = [Live!Swept EXCEPT !["exit"] = "open"]
    BY <1>5, Zenon DEF Live!Close, Live!Goes
  <2>2. LateStage'
    <3>1. here["reply"] # "none" => here'["reply"] # "none"
      BY <1>3, <2>1, OursAre
    <3> QED  BY <1>1, <2>1, <3>1 DEF Accounted, LateStage, Early, Live!Halted
  <2> SUFFICES ASSUME Straight' PROVE Sound'
    BY <2>2 DEF Accounted
  <2>3. /\ \A p \in Live!Ours \ {"exit"} : here'[p] = here[p]
        /\ here["exit"] = "none" /\ here'["exit"] = "open"
    BY <1>1, <1>3, <1>4, <2>1, OursAre DEF ExitFresh, Behind
  <2>4. \A p : (Wired(p)' => Wired(p) \/ p = "exit") /\ (Once(p) /\ (p = "exit" => ~ Wired(p)) => Once(p)')
    BY <2>1, OursAre, PlacingAdded DEF EndTypes
  <2>5. \A p \in Live!Ours \ {"exit"} : OrderOK(p)' /\ Unbooked(p)' = Unbooked(p)
    BY <1>1, <1>4, <2>3, <2>4 DEF OrderOK, Unbooked, Live!Open
  <2>6. there["exit"] = "none" /\ ~ Wired("exit") /\ "exit" \notin unanswered /\ lots["exit"] = 0
        /\ Once("exit") /\ "exit" \notin reports
    BY <1>4, <2>3, OursAre DEF OrderOK
  <2>7. OrderOK("exit")' /\ Unbooked("exit")' = Unbooked("exit")
    BY <1>1, <2>3, <2>4, <2>6 DEF OrderOK, Unbooked, Live!Open
  <2>8. Conserved'
    BY <1>1, <1>4, <2>5, <2>7, OursAre DEF Conserved
  <2>9. \A p \in Live!Ours : Live!Open(p)' => p = "exit"
    BY <1>4, <2>3 DEF OnlyOpen, Live!Open
  <2>10. ExitFresh' /\ Flattening' /\ Checking'
    BY <1>1, <1>5, <2>1, <2>9, OursAre DEF ExitFresh, Flattening, Checking, OnlyOpen, Behind
  <2> QED  BY <2>5, <2>7, <2>8, <2>10 DEF Sound
<1>6. CASE ~ (flatten /\ owned # 0)
  <2>1. stage' = "check" /\ (IF \E p \in Live!Ours : Live!Open(p) THEN Live!MayReply(Live!Swept, wire)
                            ELSE UNCHANGED <<here, wire, late>>)
    BY <1>6 DEF Live!Close, Live!Goes
  <2>2. /\ late' => late \/ here'["reply"] = "open"
        /\ here["reply"] # "none" => here'["reply"] # "none"
    <3>1. CASE UNCHANGED <<here, wire, late>>
      BY <3>1, Zenon
    <3>2. CASE Live!MayReply(Live!Swept, wire)
      BY <1>3, <3>2, LateReply, OursAre
    <3> QED  BY <2>1, <3>1, <3>2
  <2>3. LateStage'
    BY <1>1, <2>1, <2>2 DEF Accounted, LateStage, Early, Live!Halted
  <2> SUFFICES ASSUME Straight' PROVE Sound'
    BY <2>3 DEF Accounted
  <2>4. UNCHANGED <<here, wire, late>>
    BY <1>4, <2>1 DEF OnlyOpen
  <2>5. \A p \in Live!Ours : OrderOK(p)' /\ Unbooked(p)' = Unbooked(p)
    BY <1>1, <1>4, <2>4 DEF OrderOK, Unbooked, Wired, Once, Live!Open, Live!Placing
  <2>6. Conserved'
    BY <1>1, <1>4, <2>5, OursAre DEF Conserved
  <2>7. ExitFresh' /\ Flattening' /\ Checking'
    BY <1>1, <1>4, <1>6, <2>1, <2>4, OursAre
    DEF ExitFresh, Flattening, Checking, Left, OnlyOpen, Live!Open, Live!Halted
  <2> QED  BY <2>5, <2>6, <2>7 DEF Sound
<1> QED  BY <1>5, <1>6

LEMMA FlattenedBooks ==
    ASSUME EndTypes, Accounted, Live!Flattened PROVE Accounted'
<1>1. /\ stage = "flatten" /\ stage' = "check"
      /\ UNCHANGED <<breach, flatten, here, there, lots, unanswered, owned, held, wire, reports, late>>
  BY DEF Live!Flattened, Live!Goes, Live!choices, Live!book
<1>2. noted' = {} => noted = {} /\ owned = 0
  BY DEF Live!Flattened, Live!NotFlat
<1>3. LateStage' /\ (Straight' => Straight /\ owned = 0)
  BY <1>1, <1>2, Zenon DEF Accounted, LateStage, Straight, Early, Behind, Live!Halted
<1> SUFFICES ASSUME Straight' PROVE Sound'
  BY <1>3 DEF Accounted
<1>4. (\A p \in Live!Ours : OrderOK(p)) /\ Conserved /\ Flattening /\ owned = 0
  BY <1>3 DEF Accounted, Sound
<1>5. \A p \in Live!Ours : OrderOK(p)' /\ Unbooked(p)' = Unbooked(p)
  BY <1>1, <1>4 DEF OrderOK, Unbooked, Wired, Once, Live!Open, Live!Placing
<1>6. Conserved'
  BY <1>1, <1>4, <1>5, OursAre DEF Conserved
<1>7. ExitFresh' /\ Flattening' /\ Checking'
  BY <1>1, <1>4, OursAre DEF ExitFresh, Flattening, Checking, Left, OnlyOpen, Live!Open
<1> QED  BY <1>5, <1>6, <1>7 DEF Sound

(* A session that is halted here was not late, and stays so.               *)
LEMMA SettleBooks ==
    ASSUME Accounted, Live!SettleHalt PROVE Accounted'
<1>1. stage = "clear" /\ Live!Halted /\ UNCHANGED <<breach, late>>
  BY DEF Live!SettleHalt
<1>2. ~ late' /\ Live!Halted'
  BY <1>1, Zenon DEF Accounted, LateStage, Behind, Live!Halted
<1> QED  BY <1>2 DEF Accounted, LateStage, Straight

(* The last look at the account: with the strategy late and nothing on     *)
(* record, a ledger that differs is flat, so that the last halt places no  *)
(* exit.                                                                   *)
LEMMA CheckBooks ==
    ASSUME EndTypes, EndTypes', Accounted, Live!Check PROVE Accounted'
<1>1. /\ stage = "check"
      /\ UNCHANGED <<flatten, there, lots, unanswered, owned, held, reports, noted>>
  BY DEF Live!Check, Live!Goes, Live!choices
<1>2. CASE stage' = "list" /\ UNCHANGED <<breach, here, wire, late>>
  BY <1>1, <1>2, SameBooks DEF Live!Halted, Early, Behind
<1>3. CASE stage' = "again" /\ Live!Performed("lastExit") /\ owned # held
  <2>1. late' = late /\ Live!Halted' /\ \A p \in Live!Ours \ {"lastExit"} : here'[p] = here[p]
    BY <1>3, PerformedIs, PerformedWire DEF EndTypes, Live!Halted, Live!Exits
  <2>2. LateStage'
    BY <1>3, <2>1, OursAre DEF Accounted, LateStage, Early
  <2> SUFFICES ASSUME Straight' PROVE Sound'
    BY <2>2 DEF Accounted
  <2>3. Straight
    BY <1>1, <2>1, Zenon DEF Straight
  <2>4. (\A p \in Live!Ours : OrderOK(p)) /\ Conserved /\ Checking
    BY <2>3 DEF Accounted, Sound
  <2>5. owned = 0 /\ OnlyOpen({"reply"})
    <3>1. OnlyOpen({"reply"}) /\ (Live!Open("reply") => owned = 0)
      BY <1>1, <2>4 DEF Checking
    <3>2. ~ Live!Open("reply") => held = owned
      BY <2>4, <3>1, OursAre DEF Conserved, Unbooked, OnlyOpen, EndTypes
    <3> QED  BY <1>3, <3>1, <3>2
  <2> DEFINE cancels == Live!SetToSeq(Cancelling)
  <2>6. here' = here /\ wire' = wire \o cancels \o <<>>
    BY <1>3, <2>5 DEF Live!Performed, Cancelling
  <2>7. cancels \in Seq(Cancelling) /\ wire \in Seq(Requests) /\ Cancelling \subseteq Requests
    BY CancelsAre DEF EndTypes, Cancelling, Requests
  <2>8. \A p : \A i \in DOMAIN cancels : cancels[i] # Live!Placing(p)
    BY <2>7 DEF Cancelling, Live!Placing
  <2> HIDE DEF cancels
  <2>9. /\ DOMAIN wire \subseteq DOMAIN wire' /\ \A i \in DOMAIN wire : wire'[i] = wire[i]
        /\ \A i \in DOMAIN wire' : i \in DOMAIN wire \/ \E j \in DOMAIN cancels : wire'[i] = cancels[j]
    <3>1. cancels \in Seq(Requests)
      BY <2>7
    <3>2. wire' = wire \o cancels
      BY <2>6, <2>7, <3>1
    <3>3. \A i \in DOMAIN wire' : i > Len(wire) => i - Len(wire) \in DOMAIN cancels /\ wire'[i] = cancels[i - Len(wire)]
      BY <2>7, <3>1, <3>2
    <3>4. DOMAIN wire = 1 .. Len(wire) /\ \A i \in DOMAIN wire' : i \in Nat \ {0}
      BY <2>7, <3>1, <3>2
    <3>5. \A i \in DOMAIN wire' : i \in DOMAIN wire \/ i > Len(wire)
      BY <2>7, <3>4
    <3>6. DOMAIN wire \subseteq DOMAIN wire' /\ \A i \in DOMAIN wire : wire'[i] = wire[i]
      BY <2>7, <3>1, <3>2
    <3> QED  BY <3>3, <3>5, <3>6
  <2>10. \A p : (Wired(p)' => Wired(p)) /\ (Once(p) => Once(p)')
    BY <2>8, <2>9 DEF Wired, Once, Live!Placing
  <2>11. \A p : Live!Open(p)' = Live!Open(p) /\ Unbooked(p)' = Unbooked(p)
    BY <1>1, <2>6 DEF Live!Open, Unbooked
  <2>12. \A p \in Live!Ours : OrderOK(p)'
    BY <1>1, <2>4, <2>6, <2>10, <2>11 DEF OrderOK
  <2>13. Conserved'
    BY <1>1, <2>4, <2>11 DEF Conserved
  <2>14. ExitFresh' /\ Flattening' /\ Checking'
    BY <1>1, <1>3, <2>5, <2>11 DEF ExitFresh, Flattening, Checking, Left, OnlyOpen
  <2> QED  BY <2>12, <2>13, <2>14 DEF Sound
<1> QED
  BY <1>2, <1>3 DEF Live!Check, Live!Goes, Live!Compared

LEMMA RecordBooks ==
    ASSUME EndTypes, Accounted,
           Live!PumpHalted \/ Live!Flushed \/ Live!Graced \/ Live!CheckAgain \/ Live!List \/ Live!Finalise
    PROVE  Accounted'
<1>1. UNCHANGED <<breach, flatten, here, there, lots, unanswered, owned, held, wire, late, noted, reports>>
  BY DEF Live!PumpHalted, Live!Flushed, Live!Graced, Live!CheckAgain, Live!List, Live!Finalise, Live!Goes,
         Live!choices, Live!book, Live!records
<1>2. <<stage, stage'>> \in {<<"pump", "parting">>, <<"flush", "grace">>, <<"grace", "cancel">>,
                             <<"again", "list">>, <<"list", "listed">>, <<"listed", "done">>}
  BY DEF Live!PumpHalted, Live!Flushed, Live!Graced, Live!CheckAgain, Live!List, Live!Finalise, Live!Goes
<1> QED  BY <1>1, <1>2, SameBooks DEF Live!Halted, Early, Behind

LEMMA FeedBooks ==
    ASSUME EndTypes, Accounted,
           \/ Live!Tick \/ Live!Disconnect \/ Live!Reconnect \/ Live!BadFrame \/ Live!MarkPollFails \/ Live!Breach
           \/ \E c \in {"unset", "keep", "close"} : Live!WriteControl(c)
    PROVE  Accounted'
<1>1. UNCHANGED Account /\ stage' = stage
  BY Zenon DEF Live!Tick, Live!Disconnect, Live!Reconnect, Live!BadFrame, Live!MarkPollFails, Live!Breach,
         Live!WriteControl, Account, Live!choices, Live!book, Live!records
<1>2. breach' \in {breach, Live!Observed(breach, since)} \cup {Live!Asked(breach, w) : w \in {"limit", "mismatch"}}
  BY DEF Live!Tick, Live!Disconnect, Live!Reconnect, Live!BadFrame, Live!MarkPollFails, Live!Breach, Live!WriteControl
<1>3. Live!Halted' = Live!Halted
  BY <1>2 DEF EndTypes, BreachOK, Live!Observed, Live!Asked, Live!Halted
<1>4. UNCHANGED <<flatten, here, there, lots, unanswered, owned, held, wire, late, reports, noted>>
  BY <1>1, Zenon DEF Account
<1> QED  BY <1>1, <1>3, <1>4, SameBooks DEF Early, Behind

LEMMA AccountedNext == EndTypes /\ EndTypes' /\ Accounted /\ [Live!Next]_(Live!session) => Accounted'
<1> SUFFICES ASSUME EndTypes, EndTypes', Accounted, [Live!Next]_(Live!session) PROVE Accounted'
  OBVIOUS
<1>1. CASE UNCHANGED Live!session
  <2>1. UNCHANGED <<stage, breach, flatten, here, there, lots, unanswered, owned, held, wire, late, reports, noted>>
    BY <1>1, Zenon DEF Live!session, Live!choices, Live!book, Live!records
  <2> QED  BY <2>1, SameBooks DEF Live!Halted, Early, Behind
<1>2. ASSUME NEW o \in Live!Ours, Live!Deliver(o) \/ Live!Resolve(o) PROVE Accounted'
  <2>1. /\ UNCHANGED <<stage, breach, armed, flatten, there, lots, held, noted>>
        /\ reports' \subseteq reports /\ unanswered' \subseteq unanswered
        /\ \/ /\ Live!Open(o) /\ Live!Ends(o)
              /\ o \in reports \/ (o \in unanswered /\ there[o] # "working")
           \/ UNCHANGED <<here, owned, wire, late>>
    BY <1>2 DEF Live!Deliver, Live!Resolve, Live!choices, Live!records
  <2> QED  BY <2>1, HeardBooks
<1>3. CASE Live!Lose
  <2>1. /\ UNCHANGED <<stage, breach, armed, flatten, there, lots, held, noted>>
        /\ reports' \subseteq reports /\ unanswered' \subseteq unanswered
        /\ UNCHANGED <<here, owned, wire, late>>
    BY <1>3 DEF Live!Lose, Live!choices, Live!records
  <2> QED  BY <2>1, HeardBooks, OursAre
<1> QED
  BY <1>1, <1>2, <1>3, SendBooks, FillBooks, EarlyBooks, CancelAllBooks, CloseBooks, FlattenedBooks,
     SettleBooks, CheckBooks, RecordBooks, FeedBooks DEF Live!Next

(* Whatever the venue, the report stream and the reconciler do while a     *)
(* session ends, whatever fails, and whatever its strategy submits then:   *)
(* an order that works at the venue is listed or landed behind the list;   *)
(* and a ledger that differs from the account, or a position that was to   *)
(* be closed and is not, has a mismatch, an account that was not verified, *)
(* an order left or a note on the record; but for what an order that the   *)
(* strategy submitted behind the flush has executed (_end_live,            *)
(* _close_book_live, _settle_halt, _record_final_state).                   *)
THEOREM EndIsToldHolds == LiveSpec => []EndIsTold
<1>1. LiveInit => EndInv /\ Accounted
  BY EndInit, AccountedInit
<1>2. EndInv /\ Accounted /\ [Live!Next]_(Live!session) => EndInv' /\ Accounted'
  BY EndNext, AccountedNext DEF EndInv
<1>3. EndInv /\ Accounted => EndIsTold
  <2> SUFFICES ASSUME EndInv, Accounted, stage = "done" PROVE EndIsTold
    BY DEF EndIsTold, Live!EndIsTold
  <2>1. listed = Live!Unlisted \/ Live!Working \ after \subseteq listed
    BY DEF EndInv, AsListed
  <2>2. CASE Live!OnRecord
    BY <2>1, <2>2 DEF EndIsTold, Live!EndIsTold
  <2>3. CASE ~ Live!OnRecord /\ ~ late
    <3>1. Flat /\ owned = held
      BY <2>3 DEF EndInv, Undisturbed, AtEnd, Behind, Live!OnRecord
    <3> QED  BY <2>1, <3>1 DEF EndIsTold, Live!EndIsTold, Flat
  <2>4. CASE ~ Live!OnRecord /\ late
    <3>1. Conserved /\ Checking
      BY <2>4 DEF Accounted, Straight, Sound, Live!OnRecord
    <3>2. OnlyOpen({"reply"}) /\ (flatten \/ Live!Halted => Left)
      BY <3>1 DEF Checking, Behind
    <3>3. held = owned + Unbooked("reply")
      BY <3>1, <3>2, OursAre DEF Conserved, OnlyOpen, Unbooked, EndInv, EndTypes
    <3>4. owned # held => held = owned + lots["reply"]
      BY <3>3 DEF Unbooked, EndInv, EndTypes
    <3>5. held # 0 /\ (flatten \/ Live!Halted) => held = lots["reply"]
      BY <3>2, <3>3, OursAre DEF Left, Unbooked, Live!Open, EndInv, EndTypes
    <3> QED  BY <2>1, <2>4, <3>4, <3>5 DEF EndIsTold, Live!EndIsTold, Live!Reply
  <2> QED  BY <2>2, <2>3, <2>4
<1> QED  BY <1>1, <1>2, <1>3, PTL DEF LiveSpec
=============================================================================
